---------------------------- MODULE Typing_proofs ----------------------------
(***************************************************************************)
(* transliterate_string writes what the longest-match rules spell.  One    *)
(* key more either makes the last unit of a word longer or is a unit by    *)
(* itself (UnitsOfMore); the object has buffered at most the last unit and *)
(* the consonant before it (Follows), and each key keeps it so.            *)
(***************************************************************************)
EXTENDS Typing, Lookup_proofs, WellFoundedInduction

-----------------------------------------------------------------------------
(* Induction on a number, as a fact about sets of numbers *)

\* A non-empty set of numbers has a least member: < is well-founded.
LEMMA LeastNumber ==
  ASSUME NEW T, T \subseteq Nat, T # {}
  PROVE  \E x \in T : \A y \in T : x <= y
<1>1. PICK x \in T : \A y \in T : ~ (<<y, x>> \in OpToRel(<, Nat))
  BY NatLessThanWellFounded, WFMin, Zenon
<1>2. \A y \in T : ~ (y < x)
  BY <1>1, Zenon DEF OpToRel
<1> QED BY <1>2

\* A set of numbers that has 0 and the successor of each of its members has them all.
LEMMA Induction ==
  ASSUME NEW T, 0 \in T, \A n \in Nat : n \in T => n + 1 \in T
  PROVE  Nat \subseteq T
<1> SUFFICES ASSUME Nat \ T # {} PROVE FALSE
  OBVIOUS
<1>1. PICK x \in Nat \ T : \A y \in Nat \ T : x <= y
  BY LeastNumber
<1>2. x # 0 /\ x - 1 \in Nat /\ ~ (x - 1 \in Nat \ T)
  BY <1>1
<1> QED BY <1>2

\* A non-empty, bounded set of numbers has a largest member.
LEMMA LargestNumber ==
  ASSUME NEW b \in Nat, NEW T, T \subseteq 0..b, T # {}
  PROVE  Max(T) \in T /\ \A y \in T : Max(T) >= y
<1> DEFINE D == {b - x : x \in T}
<1>1. D \subseteq Nat /\ D # {}
  <2>1. \A x \in T : b - x \in Nat
    OBVIOUS
  <2>2. \E x \in T : b - x \in D
    OBVIOUS
  <2>3. \A d \in D : \E x \in T : d = b - x
    OBVIOUS
  <2> HIDE DEF D
  <2> QED BY <2>1, <2>2, <2>3
<1> HIDE DEF D
<1>2. PICK d \in D : \A e \in D : d <= e
  BY <1>1, LeastNumber
<1>3. PICK x \in T : d = b - x
  BY DEF D
<1>4. \A y \in T : b - y \in D
  BY DEF D
<1>5. \A y \in T : x >= y
  BY <1>2, <1>3, <1>4
<1> QED BY <1>5 DEF Max

-----------------------------------------------------------------------------
(* The texts of the units, one after the other *)

Flattens(seqs, n, g) ==
  \A i \in 1..n : g[i] = IF i = 1 THEN seqs[i] ELSE g[i - 1] \o seqs[i]

\* The recursive function of FlattenSeq, one element at a time.
LEMMA FlattensStep ==
  ASSUME NEW seqs, NEW n \in Nat, NEW g, Flattens(seqs, n, g), NEW m \in 1..(n - 1)
  PROVE  g[m + 1] = g[m] \o seqs[m + 1]
<1> DEFINE k == m + 1
<1>1. k \in 1..n /\ k # 1 /\ k - 1 = m
  OBVIOUS
<1> HIDE DEF k
<1>2. g[k] = IF k = 1 THEN seqs[k] ELSE g[k - 1] \o seqs[k]
  BY <1>1 DEF Flattens
<1>3. g[k] = g[m] \o seqs[k]
  BY <1>1, <1>2, Zenon
<1> QED BY <1>3 DEF k

\* The recursive function of FlattenSeq exists.
LEMMA FlattenRuns ==
  ASSUME NEW seqs, Len(seqs) \in Nat \ {0}
  PROVE  \E g : Flattens(seqs, Len(seqs), g) /\ FlattenSeq(seqs) = g[Len(seqs)]
<1> DEFINE Is(g, m) == g = [i \in 1..m |-> IF i = 1 THEN seqs[i] ELSE g[i - 1] \o seqs[i]]
           T == {m \in Nat : \E g : Is(g, m)}
<1>1. 0 \in T
  <2>1. Is([i \in 1..0 |-> 0], 0)
    OBVIOUS
  <2> QED BY <2>1
<1>2. ASSUME NEW m \in Nat, m \in T
      PROVE  m + 1 \in T
  <2>1. PICK g : Is(g, m)
    BY <1>2
  <2> DEFINE h == [i \in 1..(m + 1) |->
                     IF i = m + 1 THEN (IF i = 1 THEN seqs[i] ELSE g[m] \o seqs[i]) ELSE g[i]]
  <2>2. \A i \in 1..m : g[i] = IF i = 1 THEN seqs[i] ELSE g[i - 1] \o seqs[i]
    BY <2>1
  <2>3. \A i \in 1..(m + 1) : h[i] = IF i = 1 THEN seqs[i] ELSE h[i - 1] \o seqs[i]
    BY <2>2
  <2>4. Is(h, m + 1)
    BY <2>3
  <2>5. m + 1 \in Nat /\ \E e : Is(e, m + 1)
    <3> HIDE DEF Is, h
    <3> QED BY <2>4
  <2> HIDE DEF Is
  <2> QED BY <2>5
<1> HIDE DEF T
<1>3. Nat \subseteq T
  BY <1>1, <1>2, Induction
<1>4. \E g : Is(g, Len(seqs))
  BY <1>3 DEF T
<1>5. PICK g : Is(g, Len(seqs)) /\ FlattenSeq(seqs) = g[Len(seqs)]
  <2> DEFINE c == CHOOSE g : Is(g, Len(seqs))
  <2>1. Is(c, Len(seqs))
    BY <1>4
  <2>2. FlattenSeq(seqs) = c[Len(seqs)]
    BY DEF FlattenSeq
  <2> QED BY <2>1, <2>2
<1>6. Flattens(seqs, Len(seqs), g)
  BY <1>5 DEF Flattens
<1> QED BY <1>5, <1>6

LEMMA FlattenOfNone == FlattenSeq(<<>>) = <<>>
BY DEF FlattenSeq

\* All its values are sequences.
LEMMA FlattenTypes ==
  ASSUME NEW S, NEW seqs \in Seq(Seq(S)), NEW n \in Nat, n <= Len(seqs),
         NEW g, Flattens(seqs, n, g)
  PROVE  \A i \in 1..n : g[i] \in Seq(S)
<1> DEFINE T == {m \in Nat : m \in 1..n => g[m] \in Seq(S)}
<1>1. 0 \in T
  OBVIOUS
<1>2. ASSUME NEW m \in Nat, m \in T
      PROVE  m + 1 \in T
  <2>1. ASSUME m + 1 \in 1..n
        PROVE  g[m + 1] \in Seq(S)
    <3>1. m + 1 \in 1..Len(seqs)
      BY <2>1, LenProperties
    <3>2. seqs[m + 1] \in Seq(S)
      BY <3>1, ElementOfSeq
    <3>3. CASE m = 0
      BY <2>1, <3>2, <3>3 DEF Flattens
    <3>4. CASE m # 0
      <4>1. g[m] \in Seq(S)
        BY <1>2, <2>1, <3>4
      <4>2. g[m + 1] = g[m] \o seqs[m + 1]
        <5>1. m \in 1..(n - 1)
          BY <2>1, <3>4
        <5> QED BY <5>1, FlattensStep
      <4> QED BY <3>2, <4>1, <4>2, ConcatProperties
    <3> QED BY <3>3, <3>4
  <2> QED BY <2>1
<1> HIDE DEF T
<1>3. Nat \subseteq T
  BY <1>1, <1>2, Induction
<1> QED BY <1>3 DEF T

\* Its first values depend on the first sequences alone.
LEMMA FlattenUnique ==
  ASSUME NEW seqs, NEW more, NEW n \in Nat, NEW g, NEW h,
         \A i \in 1..n : more[i] = seqs[i], Flattens(seqs, n, g), Flattens(more, n, h)
  PROVE  \A i \in 1..n : g[i] = h[i]
<1> DEFINE T == {m \in Nat : m \in 1..n => g[m] = h[m]}
<1>1. 0 \in T
  OBVIOUS
<1>2. ASSUME NEW m \in Nat, m \in T
      PROVE  m + 1 \in T
  <2>1. ASSUME m + 1 \in 1..n
        PROVE  g[m + 1] = h[m + 1]
    <3>1. CASE m = 0
      BY <2>1, <3>1 DEF Flattens
    <3>2. CASE m # 0
      <4>1. g[m] = h[m]
        BY <1>2, <2>1, <3>2
      <4>2. g[m + 1] = g[m] \o seqs[m + 1] /\ h[m + 1] = h[m] \o more[m + 1]
        <5>1. m \in 1..(n - 1)
          BY <2>1, <3>2
        <5> QED BY <5>1, FlattensStep
      <4> QED BY <2>1, <4>1, <4>2
    <3> QED BY <3>1, <3>2
  <2> QED BY <2>1
<1> HIDE DEF T
<1>3. Nat \subseteq T
  BY <1>1, <1>2, Induction
<1> QED BY <1>3 DEF T

\* One sequence more is concatenated at the end.
LEMMA FlattenOfMore ==
  ASSUME NEW seqs, NEW more, NEW n \in Nat \ {0}, Len(seqs) = n, Len(more) = n + 1,
         \A i \in 1..n : more[i] = seqs[i]
  PROVE  FlattenSeq(more) = FlattenSeq(seqs) \o more[n + 1]
<1>1. PICK g : Flattens(seqs, n, g) /\ FlattenSeq(seqs) = g[n]
  BY FlattenRuns
<1>2. PICK h : Flattens(more, n + 1, h) /\ FlattenSeq(more) = h[n + 1]
  <2>1. Len(more) \in Nat \ {0}
    OBVIOUS
  <2> QED BY <2>1, FlattenRuns
<1>3. Flattens(more, n, h)
  <2>1. \A i \in 1..n : i \in 1..(n + 1)
    OBVIOUS
  <2> QED BY <1>2, <2>1, Zenon DEF Flattens
<1>4. \A i \in 1..n : g[i] = h[i]
  BY <1>1, <1>3, FlattenUnique
<1>5. h[n + 1] = h[n] \o more[n + 1]
  <2>1. n \in 1..((n + 1) - 1) /\ n + 1 \in Nat
    OBVIOUS
  <2> QED BY <1>2, <2>1, FlattensStep
<1>6. g[n] = h[n]
  <2>1. n \in 1..n
    OBVIOUS
  <2> QED BY <1>4, <2>1, Zenon
<1> QED BY <1>1, <1>2, <1>5, <1>6, Zenon

\* What FlattenSeq does with one sequence more.
LEMMA FlattenOfAppend ==
  ASSUME NEW S, NEW seqs \in Seq(Seq(S)), NEW s \in Seq(S)
  PROVE  /\ FlattenSeq(seqs) \in Seq(S)
         /\ FlattenSeq(Append(seqs, s)) = FlattenSeq(seqs) \o s
<1> DEFINE more == Append(seqs, s)
           n == Len(seqs)
<1>1. /\ more \in Seq(Seq(S)) /\ Len(more) = n + 1 /\ more[n + 1] = s
      /\ \A i \in 1..n : more[i] = seqs[i]
  BY AppendProperties
<1>2. n \in Nat
  BY LenProperties
<1> HIDE DEF more
<1>4. CASE n = 0
  <2>1. seqs = <<>>
    BY <1>4, EmptySeq
  <2>2. FlattenSeq(seqs) = <<>> /\ <<>> \in Seq(S)
    BY <2>1, FlattenOfNone
  <2>3. PICK h : Flattens(more, 1, h) /\ FlattenSeq(more) = h[1]
    <3>1. Len(more) \in Nat \ {0} /\ Len(more) = 1
      BY <1>1, <1>4
    <3> QED BY <3>1, FlattenRuns
  <2>4. h[1] = s
    BY <1>1, <1>4, <2>3 DEF Flattens
  <2> QED BY <2>2, <2>3, <2>4, ConcatEmptySeq DEF more
<1>5. CASE n # 0
  <2>1. PICK g : Flattens(seqs, n, g) /\ FlattenSeq(seqs) = g[n]
    BY <1>2, <1>5, FlattenRuns
  <2>2. g[n] \in Seq(S)
    BY <1>2, <1>5, <2>1, FlattenTypes
  <2>3. FlattenSeq(more) = FlattenSeq(seqs) \o s
    <3>1. n \in Nat \ {0} /\ Len(seqs) = n
      BY <1>2, <1>5
    <3> HIDE DEF n
    <3>2. FlattenSeq(more) = FlattenSeq(seqs) \o more[n + 1]
      <4>1. Len(more) = n + 1 /\ \A i \in 1..n : more[i] = seqs[i]
        BY <1>1
      <4> QED BY <3>1, <4>1, FlattenOfMore
    <3> QED BY <1>1, <3>2
  <2> QED BY <2>1, <2>2, <2>3 DEF more
<1> QED BY <1>4, <1>5

-----------------------------------------------------------------------------
(* Slices of a word, and the longest key *)

Slice(w, i, n) == SubSeq(w, i, i + n - 1)

\* What the tries store is sequences of keys.
LEMMA KeysOfTries ==
  DOMAIN Consonants \subseteq Seq(Key) /\ DOMAIN Vowels \subseteq Seq(Key)
BY KeymapTypes

\* A slice, key by key.
LEMMA SliceProperties ==
  ASSUME NEW w \in Seq(Key), NEW i \in 1..(Len(w) + 1), NEW n \in 0..(Len(w) - i + 1)
  PROVE  /\ Slice(w, i, n) \in Seq(Key)
         /\ Len(Slice(w, i, n)) = n
         /\ \A j \in 1..n : Slice(w, i, n)[j] = w[i + j - 1]
<1>1. Len(w) \in Nat
  BY LenProperties
<1> DEFINE m == i + n - 1
<1>2. i \in Int /\ m \in Int /\ m - i + 1 = n /\ (IF i <= m THEN m - i + 1 ELSE 0) = n
  BY <1>1
<1>3. \A j \in i..m : w[j] \in Key
  <2>1. \A j \in i..m : j \in 1..Len(w)
    BY <1>1
  <2> QED BY <2>1, ElementOfSeq
<1> HIDE DEF m
<1>4. /\ SubSeq(w, i, m) \in Seq(Key)
      /\ Len(SubSeq(w, i, m)) = IF i <= m THEN m - i + 1 ELSE 0
      /\ \A j \in 1..(m - i + 1) : SubSeq(w, i, m)[j] = w[i + j - 1]
  BY <1>2, <1>3, SubSeqProperties
<1>5. Slice(w, i, n) = SubSeq(w, i, m)
  BY DEF Slice, m
<1> QED BY <1>2, <1>4, <1>5

\* One key more changes no slice of the keys before it.
LEMMA SliceOfMore ==
  ASSUME NEW w \in Seq(Key), NEW key \in Key, NEW i \in 1..(Len(w) + 1)
  PROVE  /\ \A n \in 0..(Len(w) - i + 1) : Slice(Append(w, key), i, n) = Slice(w, i, n)
         /\ Slice(Append(w, key), i, Len(w) - i + 2) =
              Append(Slice(w, i, Len(w) - i + 1), key)
<1> DEFINE v == Append(w, key)
           L == Len(w)
<1>1. L \in Nat
  BY LenProperties
<1>2. /\ v \in Seq(Key) /\ Len(v) = L + 1 /\ v[L + 1] = key
      /\ \A j \in 1..L : v[j] = w[j]
  BY AppendProperties
<1> HIDE DEF v
<1>3. ASSUME NEW n \in 0..(L - i + 1)
      PROVE  Slice(v, i, n) = Slice(w, i, n)
  <2>1. /\ Slice(w, i, n) \in Seq(Key) /\ Len(Slice(w, i, n)) = n
        /\ \A j \in 1..n : Slice(w, i, n)[j] = w[i + j - 1]
    BY SliceProperties
  <2>2. /\ Slice(v, i, n) \in Seq(Key) /\ Len(Slice(v, i, n)) = n
        /\ \A j \in 1..n : Slice(v, i, n)[j] = v[i + j - 1]
    <3>1. i \in 1..(Len(v) + 1) /\ n \in 0..(Len(v) - i + 1)
      BY <1>1, <1>2
    <3> QED BY <1>2, <3>1, SliceProperties
  <2>3. \A j \in 1..n : v[i + j - 1] = w[i + j - 1]
    <3>1. \A j \in 1..n : i + j - 1 \in 1..L
      BY <1>1
    <3> QED BY <1>2, <3>1
  <2>4. \A j \in 1..n : Slice(v, i, n)[j] = Slice(w, i, n)[j]
    BY <2>1, <2>2, <2>3
  <2> QED BY <2>1, <2>2, <2>4, SeqEqual
<1>4. Slice(v, i, L - i + 2) = Append(Slice(w, i, L - i + 1), key)
  <2> DEFINE n == L - i + 1
             s == Slice(w, i, n)
             r == Slice(v, i, n + 1)
  <2>1. n \in Nat /\ n \in 0..(L - i + 1) /\ n + 1 = L - i + 2 /\ i + (n + 1) - 1 = L + 1
    BY <1>1
  <2>2. s \in Seq(Key) /\ Len(s) = n /\ \A j \in 1..n : s[j] = w[i + j - 1]
    BY <2>1, SliceProperties
  <2>3. /\ r \in Seq(Key) /\ Len(r) = n + 1
        /\ \A j \in 1..(n + 1) : r[j] = v[i + j - 1]
    <3>1. i \in 1..(Len(v) + 1) /\ n + 1 \in 0..(Len(v) - i + 1)
      BY <1>1, <1>2, <2>1
    <3> HIDE DEF n
    <3> QED BY <1>2, <3>1, SliceProperties
  <2> HIDE DEF s, r, n
  <2> DEFINE q == Append(s, key)
  <2>4. /\ q \in Seq(Key) /\ Len(q) = n + 1 /\ q[n + 1] = key
        /\ \A j \in 1..n : q[j] = s[j]
    BY <2>2, AppendProperties
  <2> HIDE DEF q
  <2>5. ASSUME NEW j \in 1..(n + 1)
        PROVE  r[j] = q[j]
    <3>1. r[j] = v[i + j - 1]
      BY <2>3
    <3>2. CASE j = n + 1
      BY <1>2, <2>1, <2>4, <3>1, <3>2
    <3>3. CASE j # n + 1
      <4>1. j \in 1..n
        BY <2>1, <3>3
      <4>2. i + j - 1 \in 1..L
        BY <1>1, <4>1 DEF n
      <4>3. v[i + j - 1] = w[i + j - 1]
        BY <1>2, <4>2
      <4> QED BY <2>2, <2>4, <3>1, <4>1, <4>3
    <3> QED BY <3>2, <3>3
  <2>9. r = q
    BY <2>3, <2>4, <2>5, SeqEqual
  <2> QED BY <2>1, <2>9 DEF r, s, n, q
<1> QED BY <1>3, <1>4 DEF v

LongestIs(trie, w, i, k) ==
  /\ k \in 0..(Len(w) - i + 1)
  /\ k > 0 => Exact(trie, Slice(w, i, k))
  /\ \A n \in 1..(Len(w) - i + 1) : Exact(trie, Slice(w, i, n)) => n <= k

\* The longest key is found, and none is longer.
LEMMA LongestKeyProperties ==
  ASSUME NEW trie, NEW w \in Seq(Key), NEW i \in 1..(Len(w) + 1)
  PROVE  LongestIs(trie, w, i, LongestKey(trie, w, i))
<1> DEFINE b == Len(w) - i + 1
           T == {0} \cup {n \in 1..b : Exact(trie, Slice(w, i, n))}
<1>1. b \in Nat
  BY LenProperties
<1>2. LongestKey(trie, w, i) = Max(T)
  BY DEF LongestKey, Slice
<1>3. T \subseteq 0..b /\ T # {}
  BY <1>1
<1> HIDE DEF T, b
<1>4. Max(T) \in T /\ \A y \in T : Max(T) >= y
  BY <1>1, <1>3, LargestNumber
<1>5. Max(T) \in 0..b
  BY <1>3, <1>4
<1>6. Max(T) > 0 => Exact(trie, Slice(w, i, Max(T)))
  BY <1>4 DEF T
<1>7. \A n \in 1..b : Exact(trie, Slice(w, i, n)) => n <= Max(T)
  <2>1. ASSUME NEW n \in 1..b, Exact(trie, Slice(w, i, n))
        PROVE  n <= Max(T)
    <3>1. n \in T
      BY <2>1 DEF T
    <3> QED BY <1>1, <1>4, <1>5, <3>1
  <2> QED BY <2>1
<1> QED BY <1>2, <1>5, <1>6, <1>7 DEF LongestIs, b

\* Nothing else is the longest key.
LEMMA LongestKeyUnique ==
  ASSUME NEW trie, NEW w \in Seq(Key), NEW i \in 1..(Len(w) + 1), NEW k,
         LongestIs(trie, w, i, k)
  PROVE  LongestKey(trie, w, i) = k
<1> DEFINE m == LongestKey(trie, w, i)
<1>1. LongestIs(trie, w, i, m)
  BY LongestKeyProperties
<1> HIDE DEF m
<1>2. Len(w) \in Nat /\ m \in 0..(Len(w) - i + 1) /\ k \in 0..(Len(w) - i + 1)
  BY <1>1, LenProperties DEF LongestIs
<1>3. m <= k
  <2>1. CASE m = 0
    BY <1>2, <2>1
  <2>2. CASE m # 0
    <3>1. m \in 1..(Len(w) - i + 1) /\ m > 0
      BY <1>2, <2>2
    <3> QED BY <1>1, <3>1 DEF LongestIs
  <2> QED BY <2>1, <2>2
<1>4. k <= m
  <2>1. CASE k = 0
    BY <1>2, <2>1
  <2>2. CASE k # 0
    <3>1. k \in 1..(Len(w) - i + 1) /\ k > 0
      BY <1>2, <2>2
    <3> QED BY <1>1, <3>1 DEF LongestIs
  <2> QED BY <2>1, <2>2
<1>5. m = k
  BY <1>2, <1>3, <1>4
<1> QED BY <1>5 DEF m

\* One key more is taken exactly when all that is left becomes a key of the trie.
LEMMA LongestKeyOfMore ==
  ASSUME NEW trie, NEW w \in Seq(Key), NEW key \in Key, NEW i \in 1..(Len(w) + 1)
  PROVE  LongestKey(trie, Append(w, key), i) =
           IF Exact(trie, Append(Slice(w, i, Len(w) - i + 1), key))
           THEN Len(w) - i + 2 ELSE LongestKey(trie, w, i)
<1> DEFINE v == Append(w, key)
           b == Len(w) - i + 1
           k == LongestKey(trie, w, i)
<1>1. v \in Seq(Key) /\ Len(v) = Len(w) + 1
  BY AppendProperties
<1>2. Len(w) \in Nat /\ b \in Nat /\ Len(w) - i + 2 = b + 1 /\ Len(v) - i + 1 = b + 1
  BY <1>1, LenProperties
<1>3. i \in 1..(Len(v) + 1)
  BY <1>1, <1>2
<1>4. /\ \A n \in 0..b : Slice(v, i, n) = Slice(w, i, n)
      /\ Slice(v, i, b + 1) = Append(Slice(w, i, b), key)
  BY <1>2, SliceOfMore
<1>5. LongestIs(trie, w, i, k)
  BY LongestKeyProperties
<1> HIDE DEF v, k
<1>6. /\ k \in 0..b /\ (k > 0 => Exact(trie, Slice(w, i, k)))
      /\ \A n \in 1..b : Exact(trie, Slice(w, i, n)) => n <= k
  BY <1>5 DEF LongestIs
<1> HIDE DEF b
<1>7. CASE Exact(trie, Slice(v, i, b + 1))
  <2>1. LongestIs(trie, v, i, b + 1)
    BY <1>2, <1>7 DEF LongestIs
  <2>2. LongestKey(trie, v, i) = b + 1
    BY <1>1, <1>3, <2>1, LongestKeyUnique
  <2> QED BY <1>2, <1>4, <1>7, <2>2 DEF v, k, b
<1>8. CASE ~ Exact(trie, Slice(v, i, b + 1))
  <2>1. k \in 0..(b + 1)
    BY <1>2, <1>6
  <2>2. k > 0 => Exact(trie, Slice(v, i, k))
    BY <1>2, <1>4, <1>6
  <2>3. ASSUME NEW n \in 1..(b + 1), Exact(trie, Slice(v, i, n))
        PROVE  n <= k
    <3>1. n # b + 1
      BY <1>8, <2>3
    <3>2. n \in 1..b /\ n \in 0..b
      BY <1>2, <3>1
    <3> QED BY <1>4, <1>6, <2>3, <3>2
  <2>4. LongestIs(trie, v, i, k)
    BY <1>2, <2>1, <2>2, <2>3 DEF LongestIs
  <2>5. LongestKey(trie, v, i) = k
    BY <1>1, <1>3, <2>4, LongestKeyUnique
  <2> QED BY <1>2, <1>4, <1>8, <2>5 DEF v, k, b
<1> QED BY <1>7, <1>8

-----------------------------------------------------------------------------
(* The units of a word, as the word grows *)

UnitKinds ==
  {"consonant", "vowel", "terminator", "conjunct", "anusvara", "visarga", "other"}

WellCut(x) ==
  /\ x.kind = "consonant" => Exact(Consonants, x.keys)
  /\ x.kind = "vowel" => Exact(Vowels, x.keys)
  /\ x.kind \notin {"consonant", "vowel"} => Len(x.keys) = 1
  /\ x.kind = "other" => ~ Exact(Consonants, x.keys) /\ ~ Exact(Vowels, x.keys)

\* What UnitAt returns.
CutUnit ==
  {x \in [kind : UnitKinds, keys : Seq(Key)] : Len(x.keys) >= 1 /\ WellCut(x)}

\* The key makes a longer unit of the last one.
Extends(unit, key) ==
  \/ unit.kind \in {"consonant", "other"} /\ Exact(Consonants, Append(unit.keys, key))
  \/ unit.kind = "vowel" /\ Exact(Vowels, Append(unit.keys, key))

Grown(unit, key) ==
  Unit(IF unit.kind = "vowel" THEN "vowel" ELSE "consonant", Append(unit.keys, key))

\* The unit a key makes by itself.
Single(key) ==
  Unit(IF KeyClass(key) # "ordinary" THEN KeyClass(key)
       ELSE IF Exact(Consonants, <<key>>) THEN "consonant"
       ELSE IF Exact(Vowels, <<key>>) THEN "vowel" ELSE "other", <<key>>)

LEMMA KeyClasses ==
  \A key : KeyClass(key) \in {"terminator", "conjunct", "anusvara", "visarga", "ordinary"}
BY DEF KeyClass

\* The four kinds of unit, one at a time.
LEMMA UnitCases ==
  ASSUME NEW w, NEW i
  PROVE  /\ KeyClass(w[i]) # "ordinary" =>
              UnitAt(w, i) = Unit(KeyClass(w[i]), Slice(w, i, 1))
         /\ KeyClass(w[i]) = "ordinary" /\ LongestKey(Consonants, w, i) > 0 =>
              UnitAt(w, i) = Unit("consonant", Slice(w, i, LongestKey(Consonants, w, i)))
         /\ KeyClass(w[i]) = "ordinary" /\ LongestKey(Consonants, w, i) = 0
              /\ LongestKey(Vowels, w, i) > 0 =>
              UnitAt(w, i) = Unit("vowel", Slice(w, i, LongestKey(Vowels, w, i)))
         /\ KeyClass(w[i]) = "ordinary" /\ LongestKey(Consonants, w, i) = 0
              /\ LongestKey(Vowels, w, i) = 0 =>
              UnitAt(w, i) = Unit("other", Slice(w, i, 1))
BY DEF UnitAt, Slice

\* A unit is well cut, and takes keys the word has.
LEMMA UnitAtProperties ==
  ASSUME NEW w \in Seq(Key), NEW i \in 1..Len(w)
  PROVE  /\ UnitAt(w, i) \in CutUnit
         /\ Len(UnitAt(w, i).keys) \in 1..(Len(w) - i + 1)
         /\ UnitAt(w, i).keys = Slice(w, i, Len(UnitAt(w, i).keys))
<1> DEFINE b == Len(w) - i + 1
           c == LongestKey(Consonants, w, i)
           v == LongestKey(Vowels, w, i)
           x == UnitAt(w, i)
<1>1. Len(w) \in Nat /\ b \in Nat /\ 1 \in 1..b /\ 1 \in 0..b /\ i \in 1..(Len(w) + 1)
  BY LenProperties
<1>2. LongestIs(Consonants, w, i, c) /\ LongestIs(Vowels, w, i, v)
  BY <1>1, LongestKeyProperties
<1>3. \A n \in 0..b : Slice(w, i, n) \in Seq(Key) /\ Len(Slice(w, i, n)) = n
  BY <1>1, SliceProperties
<1> HIDE DEF c, v
<1>4. /\ c \in 0..b /\ (c > 0 => Exact(Consonants, Slice(w, i, c)))
      /\ \A n \in 1..b : Exact(Consonants, Slice(w, i, n)) => n <= c
      /\ v \in 0..b /\ (v > 0 => Exact(Vowels, Slice(w, i, v)))
      /\ \A n \in 1..b : Exact(Vowels, Slice(w, i, n)) => n <= v
  BY <1>2 DEF LongestIs
<1> HIDE DEF b, x
<1>5. CASE KeyClass(w[i]) # "ordinary"
  <2>1. x = Unit(KeyClass(w[i]), Slice(w, i, 1))
    BY <1>5, UnitCases DEF x
  <2>2. KeyClass(w[i]) \in UnitKinds \ {"consonant", "vowel", "other"}
    BY <1>5, KeyClasses DEF UnitKinds
  <2>3. Slice(w, i, 1) \in Seq(Key) /\ Len(Slice(w, i, 1)) = 1
    BY <1>1, <1>3
  <2>4. /\ x.kind = KeyClass(w[i]) /\ x.keys = Slice(w, i, 1)
        /\ x \in [kind : UnitKinds, keys : Seq(Key)]
    BY <2>1, <2>2, <2>3 DEF Unit
  <2>5. x.kind \notin {"consonant", "vowel"} /\ x.kind # "other" /\ Len(x.keys) = 1
    BY <2>2, <2>3, <2>4
  <2>6. x \in CutUnit
    <3>1. WellCut(x)
      BY <2>5, Zenon DEF WellCut
    <3>2. Len(x.keys) >= 1
      BY <2>5
    <3> QED BY <2>4, <3>1, <3>2 DEF CutUnit
  <2> QED BY <1>1, <2>3, <2>4, <2>6 DEF x, b
<1>6. CASE KeyClass(w[i]) = "ordinary" /\ c > 0
  <2>1. x = Unit("consonant", Slice(w, i, c))
    BY <1>6, UnitCases DEF x, c
  <2>2. c \in 1..b /\ Slice(w, i, c) \in Seq(Key) /\ Len(Slice(w, i, c)) = c
    BY <1>1, <1>3, <1>4, <1>6
  <2>3. x.kind = "consonant" /\ x.keys = Slice(w, i, c) /\ x \in [kind : UnitKinds, keys : Seq(Key)]
    BY <2>1, <2>2 DEF Unit, UnitKinds
  <2> QED BY <1>1, <1>4, <1>6, <2>2, <2>3 DEF CutUnit, WellCut, x, b
<1>7. CASE KeyClass(w[i]) = "ordinary" /\ c = 0 /\ v > 0
  <2>1. x = Unit("vowel", Slice(w, i, v))
    BY <1>7, UnitCases DEF x, c, v
  <2>2. v \in 1..b /\ Slice(w, i, v) \in Seq(Key) /\ Len(Slice(w, i, v)) = v
    BY <1>1, <1>3, <1>4, <1>7
  <2>3. x.kind = "vowel" /\ x.keys = Slice(w, i, v) /\ x \in [kind : UnitKinds, keys : Seq(Key)]
    BY <2>1, <2>2 DEF Unit, UnitKinds
  <2> QED BY <1>1, <1>4, <1>7, <2>2, <2>3 DEF CutUnit, WellCut, x, b
<1>8. CASE KeyClass(w[i]) = "ordinary" /\ c = 0 /\ v = 0
  <2>1. x = Unit("other", Slice(w, i, 1))
    BY <1>8, UnitCases DEF x, c, v
  <2>2. Slice(w, i, 1) \in Seq(Key) /\ Len(Slice(w, i, 1)) = 1
    BY <1>1, <1>3
  <2>3. ~ Exact(Consonants, Slice(w, i, 1)) /\ ~ Exact(Vowels, Slice(w, i, 1))
    BY <1>1, <1>4, <1>8
  <2>4. x.kind = "other" /\ x.keys = Slice(w, i, 1) /\ x \in [kind : UnitKinds, keys : Seq(Key)]
    BY <2>1, <2>2 DEF Unit, UnitKinds
  <2>5. x \in CutUnit
    BY <2>2, <2>3, <2>4 DEF CutUnit, WellCut
  <2> QED BY <1>1, <2>2, <2>4, <2>5 DEF x, b
<1> QED BY <1>4, <1>5, <1>6, <1>7, <1>8

LEMMA OneKey ==
  ASSUME NEW key \in Key
  PROVE  /\ <<key>> \in Seq(Key) /\ Len(<<key>>) = 1 /\ <<key>>[1] = key
         /\ Append(<<>>, key) = <<key>>
OBVIOUS

\* A key that starts a new unit.
LEMMA UnitAtTheEnd ==
  ASSUME NEW w \in Seq(Key), NEW key \in Key
  PROVE  UnitAt(Append(w, key), Len(w) + 1) = Single(key)
<1> DEFINE u == Append(w, key)
           i == Len(w) + 1
<1>1. /\ u \in Seq(Key) /\ Len(u) = i /\ u[i] = key
  BY AppendProperties
<1>2. /\ Len(w) \in Nat /\ i \in 1..(Len(w) + 1) /\ Len(w) - i + 1 = 0
      /\ Len(w) - i + 2 = 1
  BY LenProperties
<1>3. Slice(w, i, 0) = <<>>
  <2>1. Slice(w, i, 0) \in Seq(Key) /\ Len(Slice(w, i, 0)) = 0
    <3>1. 0 \in 0..(Len(w) - i + 1)
      BY <1>2
    <3> HIDE DEF i
    <3> QED BY <1>2, <3>1, SliceProperties
  <2> QED BY <2>1, EmptySeq
<1> HIDE DEF i
<1>4. Slice(u, i, 1) = <<key>>
  <2>1. Slice(u, i, Len(w) - i + 2) = Append(Slice(w, i, Len(w) - i + 1), key)
    BY <1>2, SliceOfMore
  <2> QED BY <1>2, <1>3, <2>1, OneKey
<1>5. ASSUME NEW trie
      PROVE  LongestKey(trie, u, i) = IF Exact(trie, <<key>>) THEN 1 ELSE 0
  <2>1. LongestIs(trie, w, i, LongestKey(trie, w, i))
    BY <1>2, LongestKeyProperties
  <2>2. LongestKey(trie, w, i) = 0
    BY <1>2, <2>1 DEF LongestIs
  <2>3. LongestKey(trie, u, i) =
          IF Exact(trie, Append(Slice(w, i, Len(w) - i + 1), key))
          THEN Len(w) - i + 2 ELSE LongestKey(trie, w, i)
    BY <1>2, LongestKeyOfMore
  <2> QED BY <1>2, <1>3, <2>2, <2>3, OneKey
<1>6. LongestKey(Consonants, u, i) = IF Exact(Consonants, <<key>>) THEN 1 ELSE 0
  BY <1>5
<1>7. LongestKey(Vowels, u, i) = IF Exact(Vowels, <<key>>) THEN 1 ELSE 0
  BY <1>5
<1> HIDE DEF u
<1>8. UnitAt(u, i) = Single(key)
  <2>1. CASE KeyClass(key) # "ordinary"
    BY <1>1, <1>4, <2>1, UnitCases DEF Single
  <2>2. CASE KeyClass(key) = "ordinary" /\ Exact(Consonants, <<key>>)
    BY <1>1, <1>4, <1>6, <2>2, UnitCases DEF Single
  <2>3. CASE KeyClass(key) = "ordinary" /\ ~ Exact(Consonants, <<key>>) /\ Exact(Vowels, <<key>>)
    BY <1>1, <1>4, <1>6, <1>7, <2>3, UnitCases DEF Single
  <2>4. CASE KeyClass(key) = "ordinary" /\ ~ Exact(Consonants, <<key>>) /\ ~ Exact(Vowels, <<key>>)
    BY <1>1, <1>4, <1>6, <1>7, <2>4, UnitCases DEF Single
  <2> QED BY <2>1, <2>2, <2>3, <2>4
<1> QED BY <1>8 DEF u, i

\* A single key is a well-cut unit.
LEMMA SingleProperties ==
  ASSUME NEW key \in Key
  PROVE  /\ Single(key) \in CutUnit /\ Single(key).keys = <<key>>
         /\ KeyClass(key) # "ordinary" => Single(key).kind = KeyClass(key)
         /\ KeyClass(key) = "ordinary" =>
              /\ Single(key).kind \in {"consonant", "vowel", "other"}
              /\ Single(key).kind = "consonant" <=> Exact(Consonants, <<key>>)
              /\ Single(key).kind = "vowel" => Exact(Vowels, <<key>>)
              /\ Single(key).kind = "other" => ~ Exact(Vowels, <<key>>)
<1>1. <<key>> \in Seq(Key) /\ Len(<<key>>) = 1
  BY OneKey
<1>2. /\ KeyClass(key) # "ordinary" => Single(key).kind = KeyClass(key)
      /\ Single(key).keys = <<key>>
  BY DEF Single, Unit
<1> DEFINE x == Single(key)
<1>3. CASE KeyClass(key) # "ordinary"
  <2>1. KeyClass(key) \in UnitKinds \ {"consonant", "vowel", "other"}
    BY <1>3, KeyClasses DEF UnitKinds
  <2>2. x = [kind |-> KeyClass(key), keys |-> <<key>>]
    BY <1>3 DEF Single, Unit
  <2> HIDE DEF x
  <2>3. x \in [kind : UnitKinds, keys : Seq(Key)]
    BY <1>1, <2>1, <2>2
  <2>4. x.kind \notin {"consonant", "vowel"} /\ x.kind # "other" /\ Len(x.keys) = 1
    BY <1>1, <2>1, <2>2
  <2>5. x \in CutUnit
    <3>1. WellCut(x)
      BY <2>4, Zenon DEF WellCut
    <3>2. Len(x.keys) >= 1
      BY <2>4
    <3> QED BY <2>3, <3>1, <3>2 DEF CutUnit
  <2> QED BY <1>2, <1>3, <2>5 DEF x
<1>4. CASE KeyClass(key) = "ordinary"
  <2>1. CASE Exact(Consonants, <<key>>)
    <3>1. x = [kind |-> "consonant", keys |-> <<key>>]
      BY <1>4, <2>1 DEF Single, Unit
    <3> HIDE DEF x
    <3>2. x \in CutUnit
      <4>1. WellCut(x)
        BY <2>1, <3>1 DEF WellCut
      <4>2. x \in [kind : UnitKinds, keys : Seq(Key)] /\ Len(x.keys) >= 1
        BY <1>1, <3>1 DEF UnitKinds
      <4> QED BY <4>1, <4>2 DEF CutUnit
    <3> QED BY <1>2, <1>4, <2>1, <3>1, <3>2 DEF x
  <2>2. CASE ~ Exact(Consonants, <<key>>) /\ Exact(Vowels, <<key>>)
    <3>1. x = [kind |-> "vowel", keys |-> <<key>>]
      BY <1>4, <2>2 DEF Single, Unit
    <3> HIDE DEF x
    <3>2. x \in CutUnit
      BY <1>1, <2>2, <3>1 DEF CutUnit, WellCut, UnitKinds
    <3> QED BY <1>2, <1>4, <2>2, <3>1, <3>2 DEF x
  <2>3. CASE ~ Exact(Consonants, <<key>>) /\ ~ Exact(Vowels, <<key>>)
    <3>1. x = [kind |-> "other", keys |-> <<key>>]
      BY <1>4, <2>3 DEF Single, Unit
    <3> HIDE DEF x
    <3>2. x \in CutUnit
      BY <1>1, <2>3, <3>1 DEF CutUnit, WellCut, UnitKinds
    <3> QED BY <1>2, <1>4, <2>3, <3>1, <3>2 DEF x
  <2> QED BY <2>1, <2>2, <2>3
<1> QED BY <1>3, <1>4

\* What one key more does to the keys that are left from a position on.
LEMMA KeysLeft ==
  ASSUME WordsHaveOneReading,
         NEW e \in Seq(Key), e # <<>>, NEW key \in Key
  PROVE  /\ Exact(Consonants, Append(e, key)) => Len(e) = 1
         /\ Exact(Vowels, Append(e, key)) => Exact(Vowels, e)
         /\ ~ is_strict_prefix(Consonants, Append(e, key))
<1> DEFINE f == Append(e, key)
<1>1. /\ f \in Seq(Key) /\ Len(f) = Len(e) + 1
      /\ \A j \in 1..Len(e) : f[j] = e[j]
  BY AppendProperties
<1>2. Len(e) \in Nat /\ Len(e) >= 1
  BY EmptySeq
<1> HIDE DEF f
<1>3. ASSUME Exact(Consonants, f)
      PROVE  Len(e) = 1
  <2>1. Len(f) <= 2
    BY <1>3 DEF WordsHaveOneReading, ConsonantsAreShort, Exact
  <2>2. Len(e) + 1 <= 2
    BY <1>1, <2>1
  <2>3. \A n \in Nat : n >= 1 /\ n + 1 <= 2 => n = 1
    OBVIOUS
  <2> QED BY <1>2, <2>2, <2>3, Zenon
<1>4. ASSUME Exact(Vowels, f)
      PROVE  Exact(Vowels, e)
  <2>1. Len(e) \in 1..(Len(f) - 1) /\ Len(e) \in 0..Len(f)
    BY <1>1, <1>2
  <2>2. Exact(Vowels, SubSeq(f, 1, Len(e)))
    BY <1>4, <2>1 DEF WordsHaveOneReading, VowelsHaveNoGaps, Exact
  <2>3. /\ SubSeq(f, 1, Len(e)) \in Seq(Key) /\ Len(SubSeq(f, 1, Len(e))) = Len(e)
        /\ \A j \in 1..Len(e) : SubSeq(f, 1, Len(e))[j] = f[j]
    BY <1>1, <2>1, FirstKeys
  <2>4. SubSeq(f, 1, Len(e)) = e
    BY <1>1, <2>3, SeqEqual
  <2> QED BY <2>2, <2>4
<1>5. ASSUME is_strict_prefix(Consonants, f)
      PROVE  FALSE
  <2>1. PICK c \in DOMAIN Consonants : IsStrictPrefix(f, c)
    BY <1>5 DEF is_strict_prefix
  <2>2. c \in Seq(Key) /\ Len(c) <= 2
    BY KeysOfTries DEF WordsHaveOneReading, ConsonantsAreShort
  <2>3. Len(f) < Len(c)
    BY <1>1, <2>1, <2>2, StrictPrefixPointwise
  <2> QED BY <1>1, <1>2, <2>2, <2>3, LenProperties
<1> QED BY <1>3, <1>4, <1>5 DEF f

\* Keys with the same first key are not stored one in each trie.
LEMMA NoSharedHead ==
  ASSUME WordsHaveOneReading,
         NEW c \in Seq(Key), NEW v \in Seq(Key), Len(c) >= 1, Len(v) >= 1, c[1] = v[1]
  PROVE  ~ (Exact(Consonants, c) /\ Exact(Vowels, v))
<1>1. c # <<>> /\ v # <<>>
  BY EmptySeq
<1>2. Head(c) = c[1] /\ Head(v) = v[1]
  BY <1>1
<1> QED BY <1>1, <1>2 DEF WordsHaveOneReading, TriesAreDisjoint, Exact

\* One key more only ever changes the last unit, which it may make longer.
LEMMA UnitAtOfMore ==
  ASSUME WordsHaveOneReading,
         NEW w \in Seq(Key), NEW key \in Key, NEW i \in 1..Len(w)
  PROVE  UnitAt(Append(w, key), i) =
           IF Len(UnitAt(w, i).keys) = Len(w) - i + 1 /\ Extends(UnitAt(w, i), key)
           THEN Grown(UnitAt(w, i), key) ELSE UnitAt(w, i)
<1> DEFINE u == Append(w, key)
           b == Len(w) - i + 1
           c == LongestKey(Consonants, w, i)
           v == LongestKey(Vowels, w, i)
           d == LongestKey(Consonants, u, i)
           o == LongestKey(Vowels, u, i)
           e == Slice(w, i, b)
           f == Append(e, key)
           x == UnitAt(w, i)
           y == UnitAt(u, i)
<1>1. /\ Len(w) \in Nat /\ i \in 1..(Len(w) + 1) /\ b \in Nat /\ 1 \in 1..b /\ 1 \in 0..b
      /\ b \in 1..b /\ b \in 0..b /\ Len(w) - i + 2 = b + 1
  BY LenProperties
<1>2. u[i] = w[i]
  BY AppendProperties
<1>3. /\ d = IF Exact(Consonants, f) THEN b + 1 ELSE c
      /\ o = IF Exact(Vowels, f) THEN b + 1 ELSE v
  BY <1>1, LongestKeyOfMore
<1>4. /\ \A n \in 0..b : Slice(u, i, n) = Slice(w, i, n)
      /\ Slice(u, i, b + 1) = f
  BY <1>1, SliceOfMore
<1>5. \A n \in 0..b : /\ Slice(w, i, n) \in Seq(Key) /\ Len(Slice(w, i, n)) = n
                      /\ \A j \in 1..n : Slice(w, i, n)[j] = w[i + j - 1]
  BY <1>1, SliceProperties
<1>6. LongestIs(Consonants, w, i, c) /\ LongestIs(Vowels, w, i, v)
  BY <1>1, LongestKeyProperties
<1> HIDE DEF c, v, d, o
<1>7. /\ c \in 0..b /\ (c > 0 => Exact(Consonants, Slice(w, i, c)))
      /\ \A n \in 1..b : Exact(Consonants, Slice(w, i, n)) => n <= c
      /\ v \in 0..b /\ (v > 0 => Exact(Vowels, Slice(w, i, v)))
      /\ \A n \in 1..b : Exact(Vowels, Slice(w, i, n)) => n <= v
  BY <1>6 DEF LongestIs
<1>8. e \in Seq(Key) /\ Len(e) = b /\ e[1] = w[i + 1 - 1] /\ e # <<>>
  <2>1. e \in Seq(Key) /\ Len(e) = b /\ e[1] = w[i + 1 - 1]
    BY <1>1, <1>5
  <2> QED BY <1>1, <2>1, EmptySeq
<1> HIDE DEF e, b
<1>9. f \in Seq(Key) /\ Len(f) = b + 1 /\ f[1] = e[1]
  BY <1>1, <1>8, AppendProperties
<1>10. /\ Exact(Consonants, f) => b = 1
       /\ Exact(Vowels, f) => Exact(Vowels, e)
  BY <1>8, KeysLeft
<1> HIDE DEF f
<1>11. Exact(Vowels, f) => v = b
  BY <1>1, <1>7, <1>10 DEF e
<1>12. Exact(Consonants, f) => v = 0
  <2>1. ASSUME Exact(Consonants, f), v # 0
        PROVE  FALSE
    <3> DEFINE s == Slice(w, i, v)
    <3>1. v \in 1..b /\ v \in 0..b /\ v > 0 /\ 1 \in 1..v
      BY <1>1, <1>7, <2>1
    <3>2. Exact(Vowels, s) /\ s \in Seq(Key) /\ Len(s) = v /\ s[1] = w[i + 1 - 1]
      BY <1>5, <1>7, <3>1
    <3> HIDE DEF s
    <3>3. Len(s) >= 1 /\ Len(f) >= 1 /\ f[1] = s[1]
      BY <1>1, <1>8, <1>9, <3>1, <3>2
    <3> QED BY <1>9, <2>1, <3>2, <3>3, NoSharedHead
  <2> QED BY <2>1
<1> HIDE DEF u, x, y
<1>13. CASE KeyClass(w[i]) # "ordinary"
  <2>1. x = Unit(KeyClass(w[i]), Slice(w, i, 1)) /\ y = x
    BY <1>1, <1>2, <1>4, <1>13, UnitCases DEF x, y
  <2>2. x.kind \notin {"consonant", "other", "vowel"}
    BY <1>13, <2>1, KeyClasses DEF Unit
  <2> QED BY <2>1, <2>2 DEF Extends, x, y, u
<1>14. CASE KeyClass(w[i]) = "ordinary" /\ c > 0
  <2>1. x = Unit("consonant", Slice(w, i, c)) /\ Len(Slice(w, i, c)) = c
    BY <1>5, <1>7, <1>14, UnitCases DEF x, c
  <2>2. x.kind = "consonant" /\ x.keys = Slice(w, i, c)
    BY <2>1 DEF Unit
  <2>3. CASE Exact(Consonants, f)
    <3>1. c = b /\ d = b + 1 /\ d > 0
      BY <1>1, <1>3, <1>7, <1>10, <1>14, <2>3
    <3>2. y = Unit("consonant", f)
      BY <1>2, <1>4, <1>14, <3>1, UnitCases DEF y, d
    <3>3. x.keys = e /\ Len(x.keys) = b
      BY <2>1, <2>2, <3>1 DEF e
    <3>4. Extends(x, key) /\ Grown(x, key) = Unit("consonant", f)
      BY <2>2, <2>3, <3>3 DEF Extends, Grown, f
    <3> QED BY <3>2, <3>3, <3>4 DEF x, y, u, b
  <2>4. CASE ~ Exact(Consonants, f)
    <3>1. d = c
      BY <1>3, <2>4
    <3>2. y = x
      BY <1>2, <1>4, <1>7, <1>14, <2>1, <3>1, UnitCases DEF y, d
    <3>3. Len(x.keys) = b => ~ Extends(x, key)
      <4>1. ASSUME Len(x.keys) = b
            PROVE  x.keys = e
        BY <2>1, <2>2, <4>1 DEF e
      <4> QED BY <2>2, <2>4, <4>1 DEF Extends, f
    <3> QED BY <3>2, <3>3 DEF x, y, u, b
  <2> QED BY <2>3, <2>4
<1>15. CASE KeyClass(w[i]) = "ordinary" /\ c = 0 /\ v > 0
  <2>1. x = Unit("vowel", Slice(w, i, v)) /\ Len(Slice(w, i, v)) = v
    BY <1>5, <1>7, <1>15, UnitCases DEF x, c, v
  <2>2. x.kind = "vowel" /\ x.keys = Slice(w, i, v)
    BY <2>1 DEF Unit
  <2>3. d = 0
    BY <1>3, <1>12, <1>15
  <2>4. CASE Exact(Vowels, f)
    <3>1. v = b /\ o = b + 1 /\ o > 0
      BY <1>1, <1>3, <1>11, <2>4
    <3>2. y = Unit("vowel", f)
      BY <1>2, <1>4, <1>15, <2>3, <3>1, UnitCases DEF y, d, o
    <3>3. x.keys = e /\ Len(x.keys) = b
      BY <2>1, <2>2, <3>1 DEF e
    <3>4. Extends(x, key) /\ Grown(x, key) = Unit("vowel", f)
      BY <2>2, <2>4, <3>3 DEF Extends, Grown, f
    <3> QED BY <3>2, <3>3, <3>4 DEF x, y, u, b
  <2>5. CASE ~ Exact(Vowels, f)
    <3>1. o = v
      BY <1>3, <2>5
    <3>2. y = x
      BY <1>2, <1>4, <1>7, <1>15, <2>1, <2>3, <3>1, UnitCases DEF y, d, o
    <3>3. Len(x.keys) = b => ~ Extends(x, key)
      <4>1. ASSUME Len(x.keys) = b
            PROVE  x.keys = e
        BY <2>1, <2>2, <4>1 DEF e
      <4> QED BY <2>2, <2>5, <4>1 DEF Extends, f
    <3> QED BY <3>2, <3>3 DEF x, y, u, b
  <2> QED BY <2>4, <2>5
<1>16. CASE KeyClass(w[i]) = "ordinary" /\ c = 0 /\ v = 0
  <2>1. x = Unit("other", Slice(w, i, 1)) /\ Len(Slice(w, i, 1)) = 1
    BY <1>1, <1>5, <1>16, UnitCases DEF x, c, v
  <2>2. x.kind = "other" /\ x.keys = Slice(w, i, 1)
    BY <2>1 DEF Unit
  <2>3. ~ Exact(Vowels, f) /\ o = 0
    BY <1>1, <1>3, <1>11, <1>16
  <2>4. CASE Exact(Consonants, f)
    <3>1. b = 1 /\ d = b + 1 /\ d > 0
      BY <1>1, <1>3, <1>10, <2>4
    <3>2. y = Unit("consonant", f)
      BY <1>2, <1>4, <1>16, <3>1, UnitCases DEF y, d
    <3>3. x.keys = e /\ Len(x.keys) = b
      BY <2>1, <2>2, <3>1 DEF e
    <3>4. Extends(x, key) /\ Grown(x, key) = Unit("consonant", f)
      BY <2>2, <2>4, <3>3 DEF Extends, Grown, f
    <3> QED BY <3>2, <3>3, <3>4 DEF x, y, u, b
  <2>5. CASE ~ Exact(Consonants, f)
    <3>1. d = 0
      BY <1>3, <1>16, <2>5
    <3>2. y = x
      BY <1>1, <1>2, <1>4, <1>16, <2>1, <2>3, <3>1, UnitCases DEF y, d, o
    <3>3. Len(x.keys) = b => ~ Extends(x, key)
      <4>1. ASSUME Len(x.keys) = b
            PROVE  x.keys = e
        BY <2>1, <2>2, <4>1 DEF e
      <4> QED BY <2>2, <2>5, <4>1 DEF Extends, f
    <3> QED BY <3>2, <3>3 DEF x, y, u, b
  <2> QED BY <2>4, <2>5
<1>17. c \in Nat /\ v \in Nat
  BY <1>1, <1>7
<1> QED BY <1>13, <1>14, <1>15, <1>16, <1>17

-----------------------------------------------------------------------------
(* The cut of a word *)

\* p[j] is the position in w where the unit units[j] starts.
IsCut(w, units, p) ==
  /\ p[1] = 1 /\ p[Len(units) + 1] = Len(w) + 1
  /\ \A j \in 1..Len(units) :
       /\ p[j] \in 1..Len(w)
       /\ units[j] = UnitAt(w, p[j])
       /\ p[j + 1] = p[j] + Len(units[j].keys)

\* The recursive function of Units, from position a on.
Cuts(w, g, a) ==
  g = [i \in a..(Len(w) + 1) |->
         IF i > Len(w) THEN <<>> ELSE <<UnitAt(w, i)>> \o g[i + Len(UnitAt(w, i).keys)]]

\* The recursion of Units has a solution: units take one key or more.
LEMMA CutsExists ==
  ASSUME NEW w \in Seq(Key)
  PROVE  \E g : Cuts(w, g, 1)
<1> DEFINE L == Len(w)
           T == {m \in Nat : m <= L => \E g : Cuts(w, g, L + 1 - m)}
<1>1. L \in Nat
  BY LenProperties
<1>2. 0 \in T
  <2>1. Cuts(w, [i \in (L + 1)..(L + 1) |-> <<>>], L + 1)
    BY <1>1 DEF Cuts
  <2>2. \E g : Cuts(w, g, L + 1 - 0)
    BY <1>1, <2>1
  <2> QED BY <2>2
<1>3. ASSUME NEW m \in Nat, m \in T
      PROVE  m + 1 \in T
  <2>1. ASSUME m + 1 <= L
        PROVE  \E g : Cuts(w, g, L + 1 - (m + 1))
    <3> DEFINE a == L - m
    <3>1. a \in 1..L /\ L + 1 - m = a + 1 /\ L + 1 - (m + 1) = a
      BY <1>1, <2>1
    <3>2. PICK g : Cuts(w, g, a + 1)
      <4>1. \E g : Cuts(w, g, L + 1 - m)
        BY <1>1, <1>3, <2>1
      <4> HIDE DEF a
      <4> QED BY <3>1, <4>1
    <3> DEFINE h == [i \in a..(L + 1) |->
                       IF i = a THEN <<UnitAt(w, a)>> \o g[a + Len(UnitAt(w, a).keys)] ELSE g[i]]
    <3> HIDE DEF a
    <3>3. \A i \in (a + 1)..(L + 1) :
            g[i] = IF i > L THEN <<>> ELSE <<UnitAt(w, i)>> \o g[i + Len(UnitAt(w, i).keys)]
      BY <3>2 DEF Cuts
    <3>4. \A i \in a..L : i + Len(UnitAt(w, i).keys) \in (i + 1)..(L + 1)
      <4>1. ASSUME NEW i \in a..L
            PROVE  i + Len(UnitAt(w, i).keys) \in (i + 1)..(L + 1)
        <5>1. i \in 1..L
          BY <1>1, <3>1
        <5>2. Len(UnitAt(w, i).keys) \in 1..(L - i + 1)
          BY <5>1, UnitAtProperties
        <5> QED BY <1>1, <5>1, <5>2
      <4> QED BY <4>1
    <3>5. ASSUME NEW i \in a..(L + 1)
          PROVE  h[i] = IF i > L THEN <<>> ELSE <<UnitAt(w, i)>> \o h[i + Len(UnitAt(w, i).keys)]
      <4> DEFINE k == i + Len(UnitAt(w, i).keys)
      <4>1. i <= L => k \in (i + 1)..(L + 1)
        BY <1>1, <3>1, <3>4
      <4> HIDE DEF k
      <4>2. i <= L => h[k] = g[k]
        BY <1>1, <3>1, <4>1
      <4>3. CASE i = a
        <5>1. i <= L /\ ~ (i > L)
          BY <1>1, <3>1, <4>3
        <5>2. h[i] = <<UnitAt(w, i)>> \o g[k]
          BY <4>3 DEF k
        <5> QED BY <4>2, <5>1, <5>2 DEF k
      <4>4. CASE i # a
        <5>1. i \in (a + 1)..(L + 1)
          BY <1>1, <3>1, <4>4
        <5>2. h[i] = g[i]
          BY <4>4
        <5>3. g[i] = IF i > L THEN <<>> ELSE <<UnitAt(w, i)>> \o g[k]
          BY <3>3, <5>1 DEF k
        <5>4. CASE i > L
          BY <5>2, <5>3, <5>4
        <5>5. CASE ~ (i > L)
          <6>1. i <= L
            BY <1>1, <5>1, <5>5
          <6> QED BY <4>2, <5>2, <5>3, <5>5, <6>1 DEF k
        <5> QED BY <5>4, <5>5
      <4> QED BY <4>3, <4>4
    <3>6. Cuts(w, h, a)
      <4>1. h = [i \in a..(L + 1) |-> h[i]]
        OBVIOUS
      <4> HIDE DEF h
      <4> QED BY <3>5, <4>1 DEF Cuts
    <3>7. \E e : Cuts(w, e, a)
      <4> HIDE DEF h
      <4> QED BY <3>6
    <3> QED BY <3>1, <3>7
  <2> QED BY <2>1
<1> HIDE DEF T
<1>4. L \in T
  BY <1>1, <1>2, <1>3, Induction
<1>5. \E g : Cuts(w, g, L + 1 - L)
  BY <1>1, <1>4 DEF T
<1>6. L + 1 - L = 1
  BY <1>1
<1> QED BY <1>5, <1>6

\* Units is that solution at the first key.
LEMMA UnitsIsCuts ==
  ASSUME NEW w \in Seq(Key)
  PROVE  \E g : Cuts(w, g, 1) /\ Units(w) = g[1]
<1> DEFINE c == CHOOSE g : Cuts(w, g, 1)
<1>1. Cuts(w, c, 1)
  BY CutsExists
<1>2. Units(w) = c[1]
  BY DEF Units, Cuts
<1> QED BY <1>1, <1>2

\* A cut of the word into its units is what Units returns.
LEMMA CutIsUnits ==
  ASSUME NEW w \in Seq(Key), NEW units \in Seq(CutUnit), NEW p, IsCut(w, units, p)
  PROVE  Units(w) = units
<1> DEFINE L == Len(w)
           n == Len(units)
<1>1. L \in Nat /\ n \in Nat
  BY LenProperties
<1>2. PICK g : Cuts(w, g, 1) /\ Units(w) = g[1]
  BY UnitsIsCuts
<1>3. \A i \in 1..(L + 1) :
        g[i] = IF i > L THEN <<>> ELSE <<UnitAt(w, i)>> \o g[i + Len(UnitAt(w, i).keys)]
  BY <1>2 DEF Cuts
<1> DEFINE T == {m \in Nat : m <= n => g[p[n + 1 - m]] = SubSeq(units, n + 1 - m, n)}
<1>4. 0 \in T
  <2>1. p[n + 1] = L + 1
    BY DEF IsCut
  <2>2. g[L + 1] = <<>>
    <3>1. L + 1 \in 1..(L + 1) /\ L + 1 > L
      BY <1>1
    <3> HIDE DEF L
    <3> QED BY <1>3, <3>1, Zenon
  <2>3. SubSeq(units, n + 1, n) = <<>>
    <3>1. n + 1 \in Int /\ n \in Int /\ n < n + 1
      BY <1>1
    <3> HIDE DEF n
    <3> QED BY <3>1, SubSeqEmpty
  <2>4. n + 1 - 0 = n + 1
    BY <1>1
  <2>5. g[p[n + 1 - 0]] = SubSeq(units, n + 1 - 0, n)
    BY <2>1, <2>2, <2>3, <2>4
  <2> QED BY <2>5
<1>5. ASSUME NEW m \in Nat, m \in T
      PROVE  m + 1 \in T
  <2>1. ASSUME m + 1 <= n
        PROVE  g[p[n + 1 - (m + 1)]] = SubSeq(units, n + 1 - (m + 1), n)
    <3> DEFINE j == n - m
    <3>1. /\ j \in 1..n /\ n + 1 - m = j + 1 /\ n + 1 - (m + 1) = j /\ n \in j..n
      BY <1>1, <2>1
    <3>2. g[p[j + 1]] = SubSeq(units, j + 1, n)
      <4>1. g[p[n + 1 - m]] = SubSeq(units, n + 1 - m, n)
        <5>1. m <= n => g[p[n + 1 - m]] = SubSeq(units, n + 1 - m, n)
          BY <1>5
        <5>2. m <= n
          BY <1>1, <2>1
        <5> QED BY <5>1, <5>2
      <4> HIDE DEF j
      <4> QED BY <3>1, <4>1
    <3> HIDE DEF j
    <3>3. /\ p[j] \in 1..L /\ units[j] = UnitAt(w, p[j])
          /\ p[j + 1] = p[j] + Len(units[j].keys)
      BY <3>1 DEF IsCut
    <3>4. p[j] \in 1..(L + 1) /\ ~ (p[j] > L)
      BY <1>1, <3>3
    <3>5. g[p[j]] = <<units[j]>> \o g[p[j + 1]]
      BY <1>3, <3>3, <3>4
    <3>6. SubSeq(units, j, n) = <<units[j]>> \o SubSeq(units, j + 1, n)
      BY <3>1, SubSeqRecursiveFirst
    <3> QED BY <3>1, <3>2, <3>5, <3>6
  <2> QED BY <2>1
<1> HIDE DEF T
<1>6. n \in T
  BY <1>1, <1>4, <1>5, Induction
<1>7. g[p[n + 1 - n]] = SubSeq(units, n + 1 - n, n)
  BY <1>1, <1>6 DEF T
<1>8. n + 1 - n = 1 /\ p[1] = 1
  BY <1>1 DEF IsCut
<1>9. SubSeq(units, 1, n) = units
  BY SubSeqFull
<1> QED BY <1>2, <1>7, <1>8, <1>9

\* The units with one key more.
OneMore(units, key) ==
  IF units # <<>> /\ Extends(units[Len(units)], key)
  THEN [units EXCEPT ![Len(units)] = Grown(units[Len(units)], key)]
  ELSE Append(units, Single(key))

\* A longer unit is well cut, and is what it was or a consonant.
LEMMA GrownProperties ==
  ASSUME NEW x \in CutUnit, NEW key \in Key, Extends(x, key)
  PROVE  /\ Grown(x, key) \in CutUnit
         /\ Grown(x, key).keys = Append(x.keys, key)
         /\ Len(Append(x.keys, key)) = Len(x.keys) + 1
         /\ x.kind \in {"consonant", "other", "vowel"}
         /\ x.kind = "vowel" => Grown(x, key).kind = "vowel" /\ Exact(Vowels, Append(x.keys, key))
         /\ x.kind # "vowel" =>
              Grown(x, key).kind = "consonant" /\ Exact(Consonants, Append(x.keys, key))
<1> DEFINE y == Grown(x, key)
           f == Append(x.keys, key)
<1>1. x.keys \in Seq(Key) /\ Len(x.keys) \in Nat
  BY LenProperties DEF CutUnit
<1>2. f \in Seq(Key) /\ Len(f) = Len(x.keys) + 1
  BY <1>1, AppendProperties
<1>3. x.kind \in {"consonant", "other", "vowel"}
  BY DEF Extends
<1>4. y = [kind |-> IF x.kind = "vowel" THEN "vowel" ELSE "consonant", keys |-> f]
  BY DEF Grown, Unit
<1>5. /\ x.kind = "vowel" => Exact(Vowels, f)
      /\ x.kind # "vowel" => Exact(Consonants, f)
  BY DEF Extends
<1> HIDE DEF y, f
<1>6. /\ y.keys = f /\ y \in [kind : UnitKinds, keys : Seq(Key)]
      /\ x.kind = "vowel" => y.kind = "vowel"
      /\ x.kind # "vowel" => y.kind = "consonant"
  BY <1>2, <1>4 DEF UnitKinds
<1>7. WellCut(y)
  <2>1. CASE x.kind = "vowel"
    BY <1>5, <1>6, <2>1 DEF WellCut
  <2>2. CASE x.kind # "vowel"
    BY <1>5, <1>6, <2>2 DEF WellCut
  <2> QED BY <2>1, <2>2
<1>8. Len(y.keys) >= 1
  BY <1>1, <1>2, <1>6
<1>9. y \in CutUnit
  BY <1>6, <1>7, <1>8 DEF CutUnit
<1> QED BY <1>2, <1>3, <1>5, <1>6, <1>9 DEF y, f

\* The two ways in which a word grows, unit by unit.
LEMMA OneMoreProperties ==
  ASSUME NEW units \in Seq(CutUnit), NEW key \in Key
  PROVE  /\ OneMore(units, key) \in Seq(CutUnit)
         /\ units # <<>> /\ Extends(units[Len(units)], key) =>
              /\ Len(OneMore(units, key)) = Len(units)
              /\ \A j \in 1..(Len(units) - 1) : OneMore(units, key)[j] = units[j]
              /\ OneMore(units, key)[Len(units)] = Grown(units[Len(units)], key)
         /\ ~ (units # <<>> /\ Extends(units[Len(units)], key)) =>
              /\ Len(OneMore(units, key)) = Len(units) + 1
              /\ \A j \in 1..Len(units) : OneMore(units, key)[j] = units[j]
              /\ OneMore(units, key)[Len(units) + 1] = Single(key)
<1> DEFINE n == Len(units)
<1>1. n \in Nat
  BY LenProperties
<1>2. CASE units # <<>> /\ Extends(units[n], key)
  <2> DEFINE g == Grown(units[n], key)
  <2>1. n \in 1..n
    BY <1>1, <1>2, EmptySeq
  <2>2. units[n] \in CutUnit
    BY <2>1, ElementOfSeq
  <2>3. g \in CutUnit
    BY <1>2, <2>2, GrownProperties
  <2>4. OneMore(units, key) = [units EXCEPT ![n] = g]
    BY <1>2 DEF OneMore
  <2> HIDE DEF g
  <2>5. /\ [units EXCEPT ![n] = g] \in Seq(CutUnit) /\ Len([units EXCEPT ![n] = g]) = n
        /\ \A j \in 1..n : [units EXCEPT ![n] = g][j] = IF j = n THEN g ELSE units[j]
    BY <2>1, <2>3, ExceptSeq
  <2> DEFINE o == OneMore(units, key)
  <2>6. o \in Seq(CutUnit) /\ Len(o) = n /\ \A j \in 1..n : o[j] = IF j = n THEN g ELSE units[j]
    BY <2>4, <2>5
  <2> HIDE DEF o
  <2>7. o[n] = g
    BY <2>1, <2>6
  <2>8. \A j \in 1..(n - 1) : o[j] = units[j]
    <3>1. \A j \in 1..(n - 1) : j \in 1..n /\ j # n
      BY <1>1
    <3> QED BY <2>6, <3>1
  <2> QED BY <1>2, <2>6, <2>7, <2>8 DEF o, g
<1>3. CASE ~ (units # <<>> /\ Extends(units[n], key))
  <2>1. OneMore(units, key) = Append(units, Single(key))
    BY <1>3 DEF OneMore
  <2>2. Single(key) \in CutUnit
    BY SingleProperties
  <2> QED BY <1>3, <2>1, <2>2, AppendProperties
<1> QED BY <1>2, <1>3

\* The cut of a word gives the cut of the word with one key more.
LEMMA CutOfMore ==
  ASSUME WordsHaveOneReading,
         NEW w \in Seq(Key), NEW key \in Key,
         NEW units \in Seq(CutUnit), NEW p, IsCut(w, units, p)
  PROVE  \E q : IsCut(Append(w, key), OneMore(units, key), q)
<1> DEFINE L == Len(w)
           n == Len(units)
           u == Append(w, key)
           o == OneMore(units, key)
<1>1. L \in Nat /\ n \in Nat
  BY LenProperties
<1>2. u \in Seq(Key) /\ Len(u) = L + 1
  BY AppendProperties
<1>3. /\ p[1] = 1 /\ p[n + 1] = L + 1
      /\ \A j \in 1..n : /\ p[j] \in 1..L
                         /\ units[j] = UnitAt(w, p[j])
                         /\ p[j + 1] = p[j] + Len(units[j].keys)
  BY DEF IsCut
<1> HIDE DEF o, u
<1>4. \A j \in 1..n : Len(units[j].keys) = L - p[j] + 1 <=> j = n
  <2>1. ASSUME NEW j \in 1..n
        PROVE  Len(units[j].keys) = L - p[j] + 1 <=> j = n
    <3>1. p[j] \in 1..L /\ p[j + 1] = p[j] + Len(units[j].keys)
      BY <1>3
    <3>2. Len(units[j].keys) \in Nat
      <4>1. units[j].keys \in Seq(Key)
        BY ElementOfSeq DEF CutUnit
      <4> QED BY <4>1, LenProperties
    <3>3. CASE j = n
      <4>1. p[n + 1] = L + 1 /\ p[n + 1] = p[n] + Len(units[n].keys) /\ p[n] \in 1..L
        BY <1>3, <3>1, <3>3
      <4>2. Len(units[n].keys) \in Nat
        BY <3>2, <3>3
      <4>3. Len(units[n].keys) = L - p[n] + 1
        <5> DEFINE k == Len(units[n].keys)
                   a == p[n]
        <5>1. L + 1 = a + k /\ a \in 1..L /\ k \in Nat
          BY <4>1, <4>2
        <5> HIDE DEF k, a
        <5>2. k = L - a + 1
          BY <1>1, <5>1
        <5> QED BY <5>2 DEF k, a
      <4> QED BY <3>3, <4>3
    <3>4. CASE j # n
      <4>1. j + 1 \in 1..n
        BY <1>1, <3>4
      <4>2. p[j + 1] \in 1..L
        BY <1>3, <4>1
      <4> QED BY <1>1, <3>1, <3>2, <3>4, <4>2
    <3> QED BY <3>3, <3>4
  <2> QED BY <2>1
<1>5. \A j \in 1..n :
        UnitAt(u, p[j]) = IF j = n /\ Extends(units[j], key) THEN Grown(units[j], key)
                          ELSE units[j]
  <2>1. ASSUME NEW j \in 1..n
        PROVE  UnitAt(u, p[j]) = IF j = n /\ Extends(units[j], key)
                                 THEN Grown(units[j], key) ELSE units[j]
    <3>1. p[j] \in 1..L /\ units[j] = UnitAt(w, p[j])
      BY <1>3
    <3>2. UnitAt(u, p[j]) =
            IF Len(units[j].keys) = L - p[j] + 1 /\ Extends(units[j], key)
            THEN Grown(units[j], key) ELSE units[j]
      BY <3>1, UnitAtOfMore DEF u
    <3> QED BY <1>4, <3>2
  <2> QED BY <2>1
<1>6. CASE units # <<>> /\ Extends(units[n], key)
  <2> DEFINE q == [j \in 1..(n + 1) |-> IF j = n + 1 THEN L + 2 ELSE p[j]]
  <2>1. n \in 1..n /\ units[n] \in CutUnit
    <3>1. n \in 1..n
      BY <1>1, <1>6, EmptySeq
    <3> QED BY <3>1, ElementOfSeq
  <2>2. /\ Len(o) = n /\ \A j \in 1..(n - 1) : o[j] = units[j]
        /\ o[n] = Grown(units[n], key)
    BY <1>6, OneMoreProperties DEF o
  <2>3. q[1] = 1 /\ q[Len(o) + 1] = Len(u) + 1
    BY <1>1, <1>2, <1>3, <2>1, <2>2
  <2>4. ASSUME NEW j \in 1..n
        PROVE  /\ q[j] \in 1..Len(u) /\ o[j] = UnitAt(u, q[j])
               /\ q[j + 1] = q[j] + Len(o[j].keys)
    <3>1. q[j] = p[j] /\ p[j] \in 1..L
      BY <1>1, <1>3
    <3>2. CASE j = n
      <4>1. o[j].keys = Append(units[n].keys, key)
            /\ Len(o[j].keys) = Len(units[n].keys) + 1
        BY <1>6, <2>1, <2>2, <3>2, GrownProperties
      <4>2. q[j + 1] = L + 2
        BY <1>1, <3>2
      <4>3. p[n + 1] = p[n] + Len(units[n].keys) /\ Len(units[n].keys) \in Nat
        <5>1. units[n].keys \in Seq(Key)
          BY <2>1 DEF CutUnit
        <5> QED BY <1>3, <2>1, <5>1, LenProperties
      <4>4. q[j + 1] = q[j] + Len(o[j].keys)
        BY <1>1, <1>3, <3>1, <3>2, <4>1, <4>2, <4>3
      <4>5. o[j] = UnitAt(u, q[j])
        BY <1>5, <1>6, <2>2, <3>1, <3>2
      <4> QED BY <1>1, <1>2, <3>1, <4>4, <4>5
    <3>3. CASE j # n
      <4>1. j \in 1..(n - 1) /\ q[j + 1] = p[j + 1]
        BY <1>1, <3>3
      <4>2. o[j] = units[j]
        BY <2>2, <4>1
      <4>3. UnitAt(u, p[j]) = units[j]
        BY <1>5, <3>3
      <4> QED BY <1>1, <1>2, <1>3, <3>1, <4>1, <4>2, <4>3
    <3> QED BY <3>2, <3>3
  <2> HIDE DEF q
  <2>5. IsCut(u, o, q)
    BY <2>2, <2>3, <2>4 DEF IsCut
  <2> QED BY <2>5 DEF u, o
<1>7. CASE ~ (units # <<>> /\ Extends(units[n], key))
  <2> DEFINE q == [j \in 1..(n + 2) |-> IF j = n + 2 THEN L + 2 ELSE p[j]]
  <2>1. /\ Len(o) = n + 1 /\ \A j \in 1..n : o[j] = units[j]
        /\ o[n + 1] = Single(key)
    BY <1>7, OneMoreProperties DEF o
  <2>2. q[1] = 1 /\ q[Len(o) + 1] = Len(u) + 1
    BY <1>1, <1>2, <1>3, <2>1
  <2>3. ASSUME NEW j \in 1..(n + 1)
        PROVE  /\ q[j] \in 1..Len(u) /\ o[j] = UnitAt(u, q[j])
               /\ q[j + 1] = q[j] + Len(o[j].keys)
    <3>1. q[j] = p[j]
      BY <1>1
    <3>2. CASE j = n + 1
      <4>1. Single(key).keys = <<key>> /\ Len(<<key>>) = 1
        BY SingleProperties, OneKey
      <4>2. q[j + 1] = L + 2
        BY <1>1, <3>2
      <4>3. p[j] = L + 1
        BY <1>3, <3>2
      <4>4. UnitAt(u, L + 1) = Single(key)
        BY UnitAtTheEnd DEF u
      <4>5. Len(o[j].keys) = 1
        BY <2>1, <3>2, <4>1
      <4>6. q[j + 1] = q[j] + Len(o[j].keys)
        BY <1>1, <3>1, <4>2, <4>3, <4>5
      <4>7. o[j] = UnitAt(u, q[j])
        BY <2>1, <3>1, <3>2, <4>3, <4>4
      <4> QED BY <1>1, <1>2, <3>1, <4>3, <4>6, <4>7
    <3>3. CASE j # n + 1
      <4>1. j \in 1..n /\ q[j + 1] = p[j + 1]
        BY <1>1, <3>3
      <4>2. o[j] = units[j]
        BY <2>1, <4>1
      <4>3. UnitAt(u, p[j]) = units[j]
        BY <1>1, <1>5, <1>7, <4>1
      <4> QED BY <1>1, <1>2, <1>3, <3>1, <4>1, <4>2, <4>3
    <3> QED BY <3>2, <3>3
  <2> HIDE DEF q
  <2>4. IsCut(u, o, q)
    BY <2>1, <2>2, <2>3 DEF IsCut
  <2> QED BY <2>4 DEF u, o
<1> QED BY <1>6, <1>7

\* Every word has a cut.
LEMMA WordsAreCut ==
  ASSUME WordsHaveOneReading
  PROVE  \A w \in Seq(Key) : \E units \in Seq(CutUnit) : \E p : IsCut(w, units, p)
<1> DEFINE HasCut(w) == \E units \in Seq(CutUnit) : \E p : IsCut(w, units, p)
           T == {m \in Nat : \A w \in Seq(Key) : Len(w) = m => HasCut(w)}
<1>1. 0 \in T
  <2>1. ASSUME NEW w \in Seq(Key), Len(w) = 0
        PROVE  HasCut(w)
    <3>1. <<>> \in Seq(CutUnit) /\ Len(<<>>) = 0
      OBVIOUS
    <3>2. IsCut(w, <<>>, [j \in {1} |-> 1])
      BY <2>1, <3>1 DEF IsCut
    <3> QED BY <3>1, <3>2
  <2> QED BY <2>1
<1>2. ASSUME NEW m \in Nat, m \in T
      PROVE  m + 1 \in T
  <2>1. ASSUME NEW w \in Seq(Key), Len(w) = m + 1
        PROVE  HasCut(w)
    <3>1. w # <<>>
      BY <2>1
    <3>2. PICK v \in Seq(Key), key \in Key : w = Append(v, key)
      BY <3>1, SequenceEmptyOrAppend
    <3>3. Len(v) = m
      <4>1. Len(w) = Len(v) + 1 /\ Len(v) \in Nat
        BY <3>2, AppendProperties, LenProperties
      <4> QED BY <2>1, <4>1
    <3>4. HasCut(v)
      <4> HIDE DEF HasCut
      <4> QED BY <1>2, <3>3
    <3>5. PICK units \in Seq(CutUnit) : \E p : IsCut(v, units, p)
      BY <3>4
    <3>6. \E q : IsCut(Append(v, key), OneMore(units, key), q)
      BY <3>5, CutOfMore
    <3>7. OneMore(units, key) \in Seq(CutUnit)
      BY OneMoreProperties
    <3> QED BY <3>2, <3>6, <3>7
  <2> HIDE DEF HasCut
  <2> QED BY <2>1
<1> HIDE DEF T
<1>3. Nat \subseteq T
  BY <1>1, <1>2, Induction
<1>4. ASSUME NEW w \in Seq(Key)
      PROVE  HasCut(w)
  <2>1. Len(w) \in T
    BY <1>3, LenProperties
  <2> HIDE DEF HasCut
  <2> QED BY <2>1 DEF T
<1> QED BY <1>4

\* The units of a word that grows by a key: the rules of the design document, which
\* cut the whole word into its longest units, can be followed key by key.
LEMMA UnitsOfMore ==
  ASSUME WordsHaveOneReading, NEW w \in Seq(Key), NEW key \in Key
  PROVE  /\ Units(w) \in Seq(CutUnit)
         /\ Units(Append(w, key)) = OneMore(Units(w), key)
<1>1. PICK units \in Seq(CutUnit) : \E p : IsCut(w, units, p)
  BY WordsAreCut
<1>2. Units(w) = units
  BY <1>1, CutIsUnits
<1>3. PICK q : IsCut(Append(w, key), OneMore(units, key), q)
  BY <1>1, CutOfMore
<1>4. Append(w, key) \in Seq(Key) /\ OneMore(units, key) \in Seq(CutUnit)
  BY AppendProperties, OneMoreProperties
<1>5. Units(Append(w, key)) = OneMore(units, key)
  BY <1>3, <1>4, CutIsUnits
<1> QED BY <1>2, <1>5

LEMMA UnitsOfNone == Units(<<>>) = <<>>
<1>1. <<>> \in Seq(Key) /\ Len(<<>>) = 0 /\ <<>> \in Seq(CutUnit)
  OBVIOUS
<1>2. IsCut(<<>>, <<>>, [j \in {1} |-> 1])
  BY <1>1 DEF IsCut
<1> QED BY <1>1, <1>2, CutIsUnits

-----------------------------------------------------------------------------
(* The text of the first units of a word *)

Symbol == Letter \cup Char

Texts(units, m) == FlattenSeq([i \in 1..m |-> Rendered(units, i)])

\* The same, had a consonant followed.
Joined(units, m) ==
  IF KindAt(units, m) = "consonant"
  THEN Texts(units, m - 1) \o <<Consonants[units[m].keys], virama>>
  ELSE Texts(units, m)

Agree(units, others, m) == \A i \in 1..m : units[i] = others[i]

\* The kinds of the units are inside the word, and "edge" is outside.
LEMMA KindInside ==
  ASSUME NEW units \in Seq(CutUnit), NEW i \in Int
  PROVE  /\ i \in 1..Len(units) => KindAt(units, i) = units[i].kind /\ units[i] \in CutUnit
         /\ i \notin 1..Len(units) => KindAt(units, i) = "edge"
<1>1. DOMAIN units = 1..Len(units)
  BY LenProperties
<1>2. i \in 1..Len(units) => units[i] \in CutUnit
  BY ElementOfSeq
<1> QED BY <1>1, <1>2 DEF KindAt

\* The types of what the keymap writes.
LEMMA SignTypes ==
  /\ {virama, anusvara, visarga, zwj} \subseteq Symbol
  /\ NoLetter \notin Letter
  /\ \A seq \in DOMAIN Consonants : Consonants[seq] \in Letter /\ Consonants[seq] \in Symbol
  /\ \A seq \in DOMAIN Vowels : Vowels[seq] \in VowelEntry
BY KeymapTypes DEF Symbol

LEMMA OptionalText ==
  ASSUME NEW letter \in Letter \cup {NoLetter}
  PROVE  Optional(letter) \in Seq(Symbol)
<1>1. CASE letter = NoLetter
  BY <1>1 DEF Optional
<1>2. CASE letter # NoLetter
  BY <1>2 DEF Optional, Symbol
<1> QED BY <1>1, <1>2

\* Text of up to three symbols.
LEMMA FewSymbols ==
  /\ <<>> \in Seq(Symbol)
  /\ \A a \in Symbol : <<a>> \in Seq(Symbol)
  /\ \A a, b \in Symbol : <<a, b>> \in Seq(Symbol) /\ <<a>> \o <<b>> = <<a, b>>
  /\ \A a, b, c \in Symbol : <<a, b, c>> \in Seq(Symbol) /\ <<a>> \o <<b, c>> = <<a, b, c>>
<1>1. <<>> \in Seq(Symbol)
  OBVIOUS
<1>2. ASSUME NEW a \in Symbol
      PROVE  <<a>> \in Seq(Symbol) /\ Len(<<a>>) = 1
  OBVIOUS
<1>3. ASSUME NEW a \in Symbol, NEW b \in Symbol
      PROVE  <<a, b>> \in Seq(Symbol) /\ <<a>> \o <<b>> = <<a, b>>
  <2>1. <<a, b>> \in Seq(Symbol) /\ Len(<<a, b>>) = 2
    OBVIOUS
  <2>2. Append(<<a>>, b) = <<a>> \o <<b>>
    BY <1>2, AppendIsConcat
  <2>3. Append(<<a>>, b) = <<a, b>>
    <3> DEFINE s == Append(<<a>>, b)
               r == <<a>>
               q == <<a, b>>
    <3>1. r \in Seq(Symbol) /\ Len(r) = 1 /\ r[1] = a
      BY <1>2
    <3>2. q \in Seq(Symbol) /\ Len(q) = 2 /\ q[1] = a /\ q[2] = b
      OBVIOUS
    <3> HIDE DEF r, q
    <3>3. /\ s \in Seq(Symbol) /\ Len(s) = Len(r) + 1 /\ s[Len(r) + 1] = b
          /\ \A i \in 1..Len(r) : s[i] = r[i]
      BY <3>1, AppendProperties DEF r
    <3> HIDE DEF s
    <3>4. Len(s) = 2 /\ s[1] = a /\ s[2] = b
      BY <3>1, <3>3
    <3>5. \A i \in 1..2 : i = 1 \/ i = 2
      OBVIOUS
    <3>6. \A i \in 1..Len(s) : s[i] = q[i]
      BY <3>2, <3>4, <3>5
    <3>7. s = q
      BY <3>2, <3>3, <3>4, <3>6, SeqEqual
    <3> QED BY <3>7 DEF s, q
  <2> QED BY <2>1, <2>2, <2>3
<1>4. ASSUME NEW a \in Symbol, NEW b \in Symbol, NEW c \in Symbol
      PROVE  <<a, b, c>> \in Seq(Symbol) /\ <<a>> \o <<b, c>> = <<a, b, c>>
  <2>1. <<a, b, c>> \in Seq(Symbol)
    OBVIOUS
  <2>2. <<b, c>> = <<b>> \o <<c>> /\ <<b>> \in Seq(Symbol) /\ <<c>> \in Seq(Symbol)
    BY <1>2, <1>3
  <2>3. <<a>> \o (<<b>> \o <<c>>) = (<<a>> \o <<b>>) \o <<c>>
    BY <1>2, <2>2, ConcatAssociative
  <2>4. <<a, b>> \o <<c>> = Append(<<a, b>>, c)
    BY <1>3, AppendIsConcat
  <2>5. Append(<<a, b>>, c) = <<a, b, c>>
    <3> DEFINE s == Append(<<a, b>>, c)
               r == <<a, b>>
               q == <<a, b, c>>
    <3>1. r \in Seq(Symbol) /\ Len(r) = 2 /\ r[1] = a /\ r[2] = b
      BY <1>3
    <3>2. q \in Seq(Symbol) /\ Len(q) = 3 /\ q[1] = a /\ q[2] = b /\ q[3] = c
      OBVIOUS
    <3> HIDE DEF r, q
    <3>3. /\ s \in Seq(Symbol) /\ Len(s) = Len(r) + 1 /\ s[Len(r) + 1] = c
          /\ \A i \in 1..Len(r) : s[i] = r[i]
      BY <3>1, AppendProperties DEF r
    <3> HIDE DEF s
    <3>4. Len(s) = 3 /\ s[1] = a /\ s[2] = b /\ s[3] = c
      BY <3>1, <3>3
    <3>5. \A i \in 1..3 : i = 1 \/ i = 2 \/ i = 3
      OBVIOUS
    <3>6. \A i \in 1..Len(s) : s[i] = q[i]
      BY <3>2, <3>4, <3>5
    <3>7. s = q
      BY <3>2, <3>3, <3>4, <3>6, SeqEqual
    <3> QED BY <3>7 DEF s, q
  <2> QED BY <1>3, <2>1, <2>2, <2>3, <2>4, <2>5
<1> QED BY <1>1, <1>2, <1>3, <1>4

\* What each unit contributes.
LEMMA RenderedCases ==
  ASSUME NEW units \in Seq(CutUnit), NEW i \in 1..Len(units)
  PROVE  LET x == units[i]
             after == KindAt(units, i + 1)
         IN /\ x.kind = "consonant" =>
                 /\ x.keys \in DOMAIN Consonants
                 /\ after \in {"consonant", "terminator"} =>
                      Rendered(units, i) = <<Consonants[x.keys], virama>>
                 /\ after = "conjunct" =>
                      Rendered(units, i) = <<Consonants[x.keys], virama, zwj>>
                 /\ after \notin {"consonant", "terminator", "conjunct"} =>
                      Rendered(units, i) = <<Consonants[x.keys]>>
            /\ x.kind = "vowel" =>
                 /\ x.keys \in DOMAIN Vowels
                 /\ KindAt(units, i - 1) = "consonant" =>
                      Rendered(units, i) = Optional(Vowels[x.keys].matra)
                 /\ KindAt(units, i - 1) # "consonant" =>
                      Rendered(units, i) = Optional(Vowels[x.keys].standalone)
            /\ x.kind = "anusvara" => Rendered(units, i) = <<anusvara>>
            /\ x.kind = "visarga" => Rendered(units, i) = <<visarga>>
            /\ x.kind = "other" => Rendered(units, i) = emit_unmapped(x.keys[1])
            /\ x.kind \in {"terminator", "conjunct"} => Rendered(units, i) = <<>>
<1> DEFINE x == units[i]
           after == KindAt(units, i + 1)
           before == KindAt(units, i - 1)
<1>1. x \in CutUnit
  BY ElementOfSeq
<1>2. /\ x.kind = "consonant" => x.keys \in DOMAIN Consonants
      /\ x.kind = "vowel" => x.keys \in DOMAIN Vowels
  BY <1>1 DEF CutUnit, WellCut, Exact
<1>3. CASE x.kind = "consonant"
  <2> DEFINE a == Consonants[x.keys]
  <2>1. a \in Symbol /\ virama \in Symbol /\ zwj \in Symbol
    BY <1>2, <1>3, SignTypes
  <2>2. Rendered(units, i) =
          <<a>> \o (CASE after \in {"consonant", "terminator"} -> <<virama>>
                      [] after = "conjunct" -> <<virama, zwj>>
                      [] OTHER -> <<>>)
    BY <1>3 DEF Rendered
  <2> HIDE DEF a, after
  <2>3. <<a>> \o <<virama>> = <<a, virama>> /\ <<a>> \o <<virama, zwj>> = <<a, virama, zwj>>
        /\ <<a>> \o <<>> = <<a>>
    BY <2>1, FewSymbols, ConcatEmptySeq
  <2>4. CASE after \in {"consonant", "terminator"}
    <3>1. Rendered(units, i) = <<a, virama>> /\ after # "conjunct"
      BY <2>2, <2>3, <2>4
    <3> QED BY <1>2, <1>3, <2>4, <3>1 DEF a, after
  <2>5. CASE after = "conjunct"
    <3>1. Rendered(units, i) = <<a, virama, zwj>> /\ after \notin {"consonant", "terminator"}
      BY <2>2, <2>3, <2>5
    <3> QED BY <1>2, <1>3, <2>5, <3>1 DEF a, after
  <2>6. CASE after \notin {"consonant", "terminator", "conjunct"}
    <3>1. Rendered(units, i) = <<a>>
      BY <2>2, <2>3, <2>6
    <3> QED BY <1>2, <1>3, <2>6, <3>1 DEF a, after
  <2> QED BY <2>4, <2>5, <2>6
<1>4. CASE x.kind = "vowel"
  <2>1. Rendered(units, i) =
          Optional(IF before = "consonant" THEN Vowels[x.keys].matra
                   ELSE Vowels[x.keys].standalone)
    BY <1>4 DEF Rendered
  <2> QED BY <1>2, <1>4, <2>1
<1>5. CASE x.kind \notin {"consonant", "vowel"}
  <2>1. /\ x.kind = "anusvara" => Rendered(units, i) = <<anusvara>>
        /\ x.kind = "visarga" => Rendered(units, i) = <<visarga>>
        /\ x.kind = "other" => Rendered(units, i) = emit_unmapped(x.keys[1])
        /\ x.kind \in {"terminator", "conjunct"} => Rendered(units, i) = <<>>
    BY <1>5 DEF Rendered, emit_unmapped
  <2> QED BY <1>5, <2>1
<1> QED BY <1>3, <1>4, <1>5

LEMMA UnmappedText ==
  ASSUME NEW key \in Key
  PROVE  emit_unmapped(key) \in Seq(Symbol)
<1>1. base_ascii(key) \in Symbol
  BY DEF base_ascii, Key, Symbol
<1> QED BY <1>1, FewSymbols DEF emit_unmapped

\* Every unit contributes text.
LEMMA RenderedText ==
  ASSUME NEW units \in Seq(CutUnit), NEW i \in 1..Len(units)
  PROVE  Rendered(units, i) \in Seq(Symbol)
<1> DEFINE x == units[i]
<1>1. x \in CutUnit
  BY ElementOfSeq
<1>2. x.kind \in UnitKinds /\ x.keys \in Seq(Key) /\ Len(x.keys) >= 1
  BY <1>1 DEF CutUnit
<1>3. CASE x.kind = "consonant"
  <2> DEFINE a == Consonants[x.keys]
  <2>1. x.keys \in DOMAIN Consonants
    BY <1>3, RenderedCases
  <2>2. a \in Symbol /\ virama \in Symbol /\ zwj \in Symbol
    BY <2>1, SignTypes
  <2>3. Rendered(units, i) = <<a>> \/ Rendered(units, i) = <<a, virama>>
        \/ Rendered(units, i) = <<a, virama, zwj>>
    BY <1>3, RenderedCases
  <2> HIDE DEF a
  <2> QED BY <2>2, <2>3, FewSymbols
<1>4. CASE x.kind = "vowel"
  <2>1. x.keys \in DOMAIN Vowels
    BY <1>4, RenderedCases
  <2>2. Vowels[x.keys] \in VowelEntry
    BY <2>1, SignTypes
  <2>3. /\ Optional(Vowels[x.keys].matra) \in Seq(Symbol)
        /\ Optional(Vowels[x.keys].standalone) \in Seq(Symbol)
    BY <2>2, OptionalText DEF VowelEntry
  <2> QED BY <1>4, <2>3, RenderedCases
<1>5. CASE x.kind = "other"
  <2>1. x.keys[1] \in Key
    <3>1. 1 \in 1..Len(x.keys)
      BY <1>2, LenProperties
    <3> QED BY <1>2, <3>1, ElementOfSeq
  <2> QED BY <1>5, <2>1, RenderedCases, UnmappedText
<1>6. CASE x.kind \in {"terminator", "conjunct"}
  BY <1>6, RenderedCases, FewSymbols
<1>7. CASE x.kind \in {"anusvara", "visarga"}
  BY <1>7, RenderedCases, FewSymbols, SignTypes
<1> QED BY <1>2, <1>3, <1>4, <1>5, <1>6, <1>7 DEF UnitKinds

\* The text of the units, one unit at a time.
LEMMA TextsStep ==
  ASSUME NEW units \in Seq(CutUnit)
  PROVE  /\ Texts(units, 0) = <<>>
         /\ \A m \in 0..Len(units) : Texts(units, m) \in Seq(Symbol)
         /\ \A m \in 1..Len(units) :
              Texts(units, m) = Texts(units, m - 1) \o Rendered(units, m)
<1> DEFINE R(m) == [i \in 1..m |-> Rendered(units, i)]
<1>1. \A m \in 0..Len(units) : R(m) \in Seq(Seq(Symbol)) /\ Len(R(m)) = m
  <2>1. ASSUME NEW m \in 0..Len(units)
        PROVE  R(m) \in Seq(Seq(Symbol)) /\ Len(R(m)) = m
    <3>1. m \in Nat /\ \A i \in 1..m : i \in 1..Len(units)
      BY LenProperties
    <3>2. \A i \in 1..m : Rendered(units, i) \in Seq(Symbol)
      BY <3>1, RenderedText
    <3>3. R(m) \in [1..m -> Seq(Symbol)]
      BY <3>2
    <3> QED BY <3>1, <3>3, SeqDef
  <2> QED BY <2>1
<1>2. R(0) = <<>>
  <2>1. R(0) \in Seq(Seq(Symbol)) /\ Len(R(0)) = 0
    BY <1>1, LenProperties
  <2> HIDE DEF R
  <2> QED BY <2>1, EmptySeq
<1>3. Texts(units, 0) = <<>>
  BY <1>2, FlattenOfNone DEF Texts
<1>4. ASSUME NEW m \in 1..Len(units)
      PROVE  Texts(units, m) = Texts(units, m - 1) \o Rendered(units, m)
  <2>1. m \in 0..Len(units) /\ m - 1 \in 0..Len(units)
    BY LenProperties
  <2>2. /\ R(m) \in Seq(Seq(Symbol)) /\ Len(R(m)) = m
        /\ R(m - 1) \in Seq(Seq(Symbol)) /\ Len(R(m - 1)) = m - 1
    BY <1>1, <2>1
  <2>3. Rendered(units, m) \in Seq(Symbol)
    BY RenderedText
  <2>4. R(m) = Append(R(m - 1), Rendered(units, m))
    <3> DEFINE a == Append(R(m - 1), Rendered(units, m))
    <3>1. /\ a \in Seq(Seq(Symbol)) /\ Len(a) = (m - 1) + 1
          /\ \A i \in 1..(m - 1) : a[i] = R(m - 1)[i]
          /\ a[(m - 1) + 1] = Rendered(units, m)
      <4> HIDE DEF R
      <4> QED BY <2>2, <2>3, AppendProperties
    <3> HIDE DEF a
    <3>2. (m - 1) + 1 = m
      BY <2>1
    <3>3. \A i \in 1..m : a[i] = R(m)[i]
      <4>1. \A i \in 1..(m - 1) : a[i] = Rendered(units, i)
        BY <3>1
      <4>2. a[m] = Rendered(units, m)
        BY <3>1, <3>2
      <4>3. \A i \in 1..m : i \in 1..(m - 1) \/ i = m
        BY <2>1
      <4> QED BY <4>1, <4>2, <4>3
    <3>4. a = R(m)
      <4> HIDE DEF R
      <4> QED BY <2>2, <3>1, <3>2, <3>3, SeqEqual
    <3> QED BY <3>4 DEF a
  <2>5. FlattenSeq(R(m)) = FlattenSeq(R(m - 1)) \o Rendered(units, m)
    <3> HIDE DEF R
    <3> QED BY <2>2, <2>3, <2>4, FlattenOfAppend
  <2> QED BY <2>5 DEF Texts
<1>5. \A m \in 0..Len(units) : Texts(units, m) \in Seq(Symbol)
  <2>1. \A m \in 0..Len(units) : FlattenSeq(R(m)) \in Seq(Symbol)
    <3>1. <<>> \in Seq(Symbol)
      BY FewSymbols
    <3> HIDE DEF R
    <3> QED BY <1>1, <3>1, FlattenOfAppend
  <2> QED BY <2>1 DEF Texts
<1> QED BY <1>3, <1>4, <1>5

\* Words that agree on their first units have the same kinds there.
LEMMA KindAgree ==
  ASSUME NEW units \in Seq(CutUnit), NEW others \in Seq(CutUnit),
         NEW m \in 0..Len(units), m <= Len(others), Agree(units, others, m),
         NEW j \in Int, j <= m
  PROVE  KindAt(units, j) = KindAt(others, j)
<1>1. Len(units) \in Nat /\ Len(others) \in Nat
  BY LenProperties
<1>2. CASE j \in 1..m
  <2>1. j \in 1..Len(units) /\ j \in 1..Len(others) /\ units[j] = others[j]
    BY <1>1, <1>2 DEF Agree
  <2> QED BY <2>1, KindInside
<1>3. CASE j \notin 1..m
  <2>1. j \notin 1..Len(units) /\ j \notin 1..Len(others)
    BY <1>1, <1>3
  <2> QED BY <2>1, KindInside
<1> QED BY <1>2, <1>3

\* What a unit contributes depends on the units up to the next one, and up to itself
\* unless it is a consonant.
LEMMA RenderedAgree ==
  ASSUME NEW units \in Seq(CutUnit), NEW others \in Seq(CutUnit),
         NEW m \in 0..Len(units), m <= Len(others), Agree(units, others, m),
         NEW i \in 1..m, i < m \/ units[i].kind # "consonant"
  PROVE  Rendered(units, i) = Rendered(others, i)
<1>1. Len(units) \in Nat /\ Len(others) \in Nat
  BY LenProperties
<1>2. /\ i \in 1..Len(units) /\ i \in 1..Len(others) /\ units[i] = others[i]
      /\ units[i] \in CutUnit
  <2>1. i \in 1..Len(units) /\ i \in 1..Len(others)
    BY <1>1
  <2> QED BY <2>1, ElementOfSeq DEF Agree
<1>3. \A j \in Int : j <= m => KindAt(units, j) = KindAt(others, j)
  BY KindAgree
<1>4. KindAt(units, i - 1) = KindAt(others, i - 1)
  <2>1. i - 1 \in Int /\ i - 1 <= m
    BY <1>1
  <2> QED BY <1>3, <2>1
<1>5. CASE i < m
  <2>1. i + 1 \in Int /\ i + 1 <= m
    BY <1>1, <1>5
  <2>2. KindAt(units, i + 1) = KindAt(others, i + 1)
    BY <1>3, <2>1
  <2> QED BY <1>2, <1>4, <2>2 DEF Rendered
<1>6. CASE units[i].kind # "consonant"
  <2>1. units[i].kind \in UnitKinds
    BY <1>2 DEF CutUnit
  <2>2. CASE units[i].kind = "vowel"
    BY <1>2, <1>4, <2>2, RenderedCases
  <2>3. CASE units[i].kind = "other"
    BY <1>2, <2>3, RenderedCases
  <2>4. CASE units[i].kind \in {"terminator", "conjunct"}
    BY <1>2, <2>4, RenderedCases
  <2>5. CASE units[i].kind = "anusvara"
    BY <1>2, <2>5, RenderedCases
  <2>6. CASE units[i].kind = "visarga"
    BY <1>2, <2>6, RenderedCases
  <2> QED BY <1>6, <2>1, <2>2, <2>3, <2>4, <2>5, <2>6 DEF UnitKinds
<1> QED BY <1>5, <1>6

\* The text of units before the last depends on these alone.
LEMMA TextsAgree ==
  ASSUME NEW units \in Seq(CutUnit), NEW others \in Seq(CutUnit),
         NEW m \in 0..Len(units), m <= Len(others), Agree(units, others, m)
  PROVE  /\ Texts(units, m - 1) = Texts(others, m - 1)
         /\ KindAt(units, m) # "consonant" => Texts(units, m) = Texts(others, m)
<1>1. Len(units) \in Nat /\ Len(others) \in Nat
  BY LenProperties
<1>2. ASSUME NEW i \in 1..(m - 1)
      PROVE  Rendered(units, i) = Rendered(others, i)
  <2>1. i \in 1..m /\ i < m
    BY <1>1
  <2> QED BY <2>1, RenderedAgree
<1>3. ASSUME KindAt(units, m) # "consonant", NEW i \in 1..m
      PROVE  Rendered(units, i) = Rendered(others, i)
  <2>1. CASE i = m
    <3>1. m \in 1..Len(units)
      BY <1>1, <2>1
    <3>2. units[i].kind # "consonant"
      BY <1>3, <2>1, <3>1, KindInside
    <3> QED BY <3>2, RenderedAgree
  <2>2. CASE i # m
    <3>1. i < m
      BY <1>1, <2>2
    <3> QED BY <3>1, RenderedAgree
  <2> QED BY <2>1, <2>2
<1>4. [i \in 1..(m - 1) |-> Rendered(units, i)] = [i \in 1..(m - 1) |-> Rendered(others, i)]
  BY <1>2
<1>5. KindAt(units, m) # "consonant" =>
        [i \in 1..m |-> Rendered(units, i)] = [i \in 1..m |-> Rendered(others, i)]
  BY <1>3
<1> QED BY <1>4, <1>5 DEF Texts

\* With a consonant to follow, so does that of the last.
LEMMA JoinedAgree ==
  ASSUME NEW units \in Seq(CutUnit), NEW others \in Seq(CutUnit),
         NEW m \in 0..Len(units), m <= Len(others), Agree(units, others, m)
  PROVE  Joined(units, m) = Joined(others, m)
<1>1. Len(units) \in Nat /\ Len(others) \in Nat /\ m \in Int
  BY LenProperties
<1>2. KindAt(units, m) = KindAt(others, m) /\ (m \in 1..Len(units) => units[m] = others[m])
  <2>1. CASE m = 0
    BY <1>1, <2>1, KindInside
  <2>2. CASE m # 0
    <3>1. m \in 1..m /\ m \in 1..Len(units) /\ m \in 1..Len(others)
      BY <1>1, <2>2
    <3>2. units[m] = others[m]
      BY <3>1 DEF Agree
    <3> QED BY <1>1, <3>1, <3>2, KindInside
  <2> QED BY <2>1, <2>2
<1>3. CASE KindAt(units, m) = "consonant"
  <2>1. units[m] = others[m]
    BY <1>1, <1>2, <1>3, KindInside
  <2>2. Texts(units, m - 1) = Texts(others, m - 1)
    BY TextsAgree
  <2> QED BY <1>2, <1>3, <2>1, <2>2 DEF Joined
<1>4. CASE KindAt(units, m) # "consonant"
  BY <1>2, <1>4, TextsAgree DEF Joined
<1> QED BY <1>3, <1>4

\* The text of a consonant and of what comes before it.
LEMMA TextsOfConsonant ==
  ASSUME NEW units \in Seq(CutUnit), NEW m \in 1..Len(units), units[m].kind = "consonant"
  PROVE  LET a == Consonants[units[m].keys]
             after == KindAt(units, m + 1)
         IN /\ units[m].keys \in DOMAIN Consonants /\ a \in Letter /\ a \in Symbol
            /\ after \in {"consonant", "terminator"} =>
                 Texts(units, m) = Texts(units, m - 1) \o <<a, virama>>
            /\ after = "conjunct" => Texts(units, m) = Texts(units, m - 1) \o <<a, virama, zwj>>
            /\ after \notin {"consonant", "terminator", "conjunct"} =>
                 Texts(units, m) = Texts(units, m - 1) \o <<a>>
            /\ Joined(units, m) = Texts(units, m - 1) \o <<a, virama>>
<1>1. Texts(units, m) = Texts(units, m - 1) \o Rendered(units, m)
  BY TextsStep
<1>2. units[m].keys \in DOMAIN Consonants
  BY RenderedCases
<1>3. Consonants[units[m].keys] \in Letter /\ Consonants[units[m].keys] \in Symbol
  BY <1>2, SignTypes
<1>4. KindAt(units, m) = "consonant"
  BY KindInside
<1>5. Joined(units, m) = Texts(units, m - 1) \o <<Consonants[units[m].keys], virama>>
  BY <1>4 DEF Joined
<1> QED BY <1>1, <1>2, <1>3, <1>5, RenderedCases

\* Before a consonant, the text is the joined one.
LEMMA JoinedBeforeConsonant ==
  ASSUME NEW units \in Seq(CutUnit), NEW m \in 1..Len(units), units[m].kind = "consonant"
  PROVE  Texts(units, m - 1) = Joined(units, m - 1)
<1>1. m - 1 \in Int /\ (m - 1) + 1 = m /\ Len(units) \in Nat
  BY LenProperties
<1>2. CASE KindAt(units, m - 1) = "consonant"
  <2>1. m - 1 \in 1..Len(units)
    BY <1>1, <1>2, KindInside
  <2>2. KindAt(units, (m - 1) + 1) = "consonant"
    BY <1>1, KindInside
  <2>3. units[m - 1].kind = "consonant"
    BY <1>1, <1>2, <2>1, KindInside
  <2> DEFINE k == m - 1
  <2>4. k \in 1..Len(units) /\ units[k].kind = "consonant" /\ KindAt(units, k + 1) = "consonant"
    BY <2>1, <2>2, <2>3
  <2> HIDE DEF k
  <2>5. Texts(units, k) = Joined(units, k)
    BY <2>4, TextsOfConsonant
  <2> QED BY <2>5 DEF k
<1>3. CASE KindAt(units, m - 1) # "consonant"
  BY <1>3 DEF Joined
<1> QED BY <1>2, <1>3

LEMMA JoinedText ==
  ASSUME NEW units \in Seq(CutUnit), NEW m \in 0..Len(units)
  PROVE  Joined(units, m) \in Seq(Symbol)
<1>1. m \in Int
  OBVIOUS
<1>2. CASE KindAt(units, m) = "consonant"
  <2>1. m \in 1..Len(units) /\ units[m].kind = "consonant"
    BY <1>1, <1>2, KindInside
  <2>2. /\ Joined(units, m) = Texts(units, m - 1) \o <<Consonants[units[m].keys], virama>>
        /\ Consonants[units[m].keys] \in Symbol
    BY <2>1, TextsOfConsonant
  <2>3. m - 1 \in 0..Len(units)
    BY <2>1, LenProperties
  <2>4. Texts(units, m - 1) \in Seq(Symbol)
    BY <2>3, TextsStep
  <2>5. <<Consonants[units[m].keys], virama>> \in Seq(Symbol)
    BY <2>2, FewSymbols, SignTypes
  <2> QED BY <2>2, <2>4, <2>5, ConcatProperties
<1>3. CASE KindAt(units, m) # "consonant"
  BY <1>3, TextsStep DEF Joined
<1> QED BY <1>2, <1>3

-----------------------------------------------------------------------------
(* What the machine has done after each word *)

\* More keys may make a longer consonant of the unit.
Starts(unit) == is_strict_prefix(Consonants, unit.keys)
LongerVowel(unit) == is_strict_prefix(Vowels, unit.keys)

LastKind(units) == KindAt(units, Len(units))

\* The unmapped units the word ends with follow no consonant: the machine is idle.
Rests(units) ==
  \E j \in 0..(Len(units) - 1) :
    /\ KindAt(units, j) \notin {"consonant", "other"}
    /\ \A k \in (j + 1)..Len(units) : units[k].kind = "other"

\* Regular, but for a last unit that may still grow into a consonant.
RegularSoFar(units) ==
  \A i \in 1..Len(units) :
    /\ i < Len(units) /\ units[i].kind = "other" => ~ Starts(units[i])
    /\ units[i].kind = "vowel" /\ KindAt(units, i - 1) = "other" =>
         \E j \in 0..(i - 2) :
           /\ KindAt(units, j) \notin {"consonant", "other"}
           /\ \A k \in (j + 1)..(i - 1) : units[k].kind = "other"
    /\ KindAt(units, i + 1) = "conjunct" /\ units[i].kind = "consonant" => ~ Starts(units[i])

\* The object s and the text w written so far are the ones of a word with these units:
\* only the last unit, and the consonant before it if it is a vowel, may be buffered.
Follows(units, s, w) ==
  LET n == Len(units)
      x == units[n]
      kind == LastKind(units)
  IN /\ kind \notin {"consonant", "vowel", "other"} => s.state = "IDLE" /\ w = Texts(units, n)
     /\ kind = "consonant" =>
          /\ w = Joined(units, n - 1)
          /\ Starts(x) => s.state = "PARTIAL_CONSONANT" /\ s.prefix = x.keys
          /\ ~ Starts(x) => s.state = "CONSONANT_PENDING" /\ s.pending = Consonants[x.keys]
     /\ kind = "vowel" /\ ~ LongerVowel(x) => s.state = "IDLE" /\ w = Texts(units, n)
     /\ kind = "vowel" /\ LongerVowel(x) =>
          /\ s.prefix = x.keys
          /\ KindAt(units, n - 1) = "consonant" =>
               /\ s.state = "PARTIAL_VOWEL"
               /\ s.pending = Consonants[units[n - 1].keys] /\ w = Joined(units, n - 2)
          /\ KindAt(units, n - 1) # "consonant" =>
               s.state = "PARTIAL_VOWEL_STANDALONE" /\ w = Texts(units, n - 1)
     /\ kind = "other" /\ Starts(x) =>
          s.state = "PARTIAL_CONSONANT" /\ s.prefix = x.keys /\ w = Joined(units, n - 1)
     /\ kind = "other" /\ ~ Starts(x) =>
          /\ w = Texts(units, n)
          /\ Rests(units) => s.state = "IDLE"
          /\ ~ Rests(units) => s.state = "CONSONANT_PENDING" /\ s.pending = NoLetter

-----------------------------------------------------------------------------
(* What the keymap says of a key that is no rule key *)

\* What matches is stored, or the start of what is.
LEMMA HeadOfLonger ==
  ASSUME NEW s \in Seq(Key), Len(s) >= 1, NEW trie, DOMAIN trie \subseteq Seq(Key),
         Matches(trie, s)
  PROVE  \E key \in DOMAIN trie : key \in Seq(Key) /\ Len(key) >= Len(s) /\ key[1] = s[1]
<1>1. CASE Exact(trie, s)
  BY <1>1, LenProperties DEF Exact
<1>2. CASE is_strict_prefix(trie, s)
  <2>1. PICK key \in DOMAIN trie : IsStrictPrefix(s, key)
    BY <1>2 DEF is_strict_prefix
  <2>2. key \in Seq(Key)
    OBVIOUS
  <2>3. Len(s) < Len(key) /\ \A i \in 1..Len(s) : s[i] = key[i]
    BY <2>1, <2>2, StrictPrefixPointwise
  <2>4. 1 \in 1..Len(s) /\ Len(key) >= Len(s)
    BY <2>2, <2>3, LenProperties
  <2> QED BY <2>2, <2>3, <2>4
<1> QED BY <1>1, <1>2 DEF Matches

\* No first key is looked up with success in both tries.
LEMMA ConsonantOrVowel ==
  ASSUME WordsHaveOneReading, NEW s \in Seq(Key), NEW r \in Seq(Key),
         Len(s) >= 1, Len(r) >= 1, r[1] = s[1]
  PROVE  ~ (Matches(Consonants, s) /\ Matches(Vowels, r))
<1> SUFFICES ASSUME Matches(Consonants, s), Matches(Vowels, r) PROVE FALSE
  OBVIOUS
<1>1. PICK c \in DOMAIN Consonants : c \in Seq(Key) /\ Len(c) >= Len(s) /\ c[1] = s[1]
  BY KeysOfTries, HeadOfLonger
<1>2. PICK v \in DOMAIN Vowels : v \in Seq(Key) /\ Len(v) >= Len(r) /\ v[1] = r[1]
  BY KeysOfTries, HeadOfLonger
<1>3. Len(c) >= 1 /\ Len(v) >= 1
  <2>1. Len(c) \in Nat /\ Len(v) \in Nat /\ Len(s) \in Nat /\ Len(r) \in Nat
    BY <1>1, <1>2, LenProperties
  <2> QED BY <1>1, <1>2, <2>1
<1>4. Exact(Consonants, c) /\ Exact(Vowels, v)
  BY DEF Exact
<1> QED BY <1>1, <1>2, <1>3, <1>4, NoSharedHead

\* What leads to a vowel is a vowel.
LEMMA VowelOnTheWay ==
  ASSUME WordsHaveOneReading, NEW s \in Seq(Key), s # <<>>, is_strict_prefix(Vowels, s)
  PROVE  Exact(Vowels, s)
<1>1. PICK v \in DOMAIN Vowels : IsStrictPrefix(s, v)
  BY DEF is_strict_prefix
<1>2. v \in Seq(Key)
  BY KeysOfTries
<1>3. Len(s) < Len(v) /\ \A i \in 1..Len(s) : s[i] = v[i]
  BY <1>1, <1>2, StrictPrefixPointwise
<1>4. Len(s) \in 1..(Len(v) - 1) /\ Len(s) \in 0..Len(v)
  BY <1>2, <1>3, EmptySeq, LenProperties
<1>5. Exact(Vowels, SubSeq(v, 1, Len(s)))
  BY <1>4 DEF WordsHaveOneReading, VowelsHaveNoGaps
<1>6. SubSeq(v, 1, Len(s)) = s
  <2>1. /\ SubSeq(v, 1, Len(s)) \in Seq(Key) /\ Len(SubSeq(v, 1, Len(s))) = Len(s)
        /\ \A j \in 1..Len(s) : SubSeq(v, 1, Len(s))[j] = v[j]
    BY <1>2, <1>4, FirstKeys
  <2> QED BY <1>3, <2>1, SeqEqual
<1> QED BY <1>5, <1>6

\* What leads to a consonant is one key.
LEMMA ShortPrefix ==
  ASSUME WordsHaveOneReading, NEW s \in Seq(Key), s # <<>>, is_strict_prefix(Consonants, s)
  PROVE  Len(s) = 1
<1>1. PICK c \in DOMAIN Consonants : IsStrictPrefix(s, c)
  BY DEF is_strict_prefix
<1>2. c \in Seq(Key) /\ Len(c) <= 2
  BY KeysOfTries DEF WordsHaveOneReading, ConsonantsAreShort
<1>3. Len(s) < Len(c) /\ Len(s) \in Nat /\ Len(c) \in Nat /\ Len(s) # 0
  BY <1>1, <1>2, StrictPrefixPointwise, LenProperties, EmptySeq
<1>4. \A a, b \in Nat : a < b /\ b <= 2 /\ a # 0 => a = 1
  OBVIOUS
<1> QED BY <1>2, <1>3, <1>4, Zenon

\* Where a unit grows, the key is no rule key.
LEMMA GrowsByOrdinary ==
  ASSUME WordsHaveOneReading, NEW x \in CutUnit, NEW key \in Key, Extends(x, key)
  PROVE  KeyClass(key) = "ordinary"
<1> DEFINE f == Append(x.keys, key)
<1>1. f \in DOMAIN Consonants \cup DOMAIN Vowels
  BY DEF Extends, Exact
<1>2. x.keys \in Seq(Key)
  BY DEF CutUnit
<1>3. f \in Seq(Key) /\ Len(f) = Len(x.keys) + 1 /\ f[Len(x.keys) + 1] = key
  BY <1>2, AppendProperties
<1>4. DOMAIN f = 1..Len(f) /\ Len(x.keys) \in Nat
  BY <1>2, <1>3, LenProperties
<1> HIDE DEF f
<1>5. Len(x.keys) + 1 \in DOMAIN f
  BY <1>3, <1>4
<1>6. KeyClass(f[Len(x.keys) + 1]) = "ordinary"
  BY <1>1, <1>5 DEF WordsHaveOneReading, RuleKeysStandAlone
<1> QED BY <1>3, <1>6

\* What the tries answer for an ordinary key by itself.
LEMMA SingleKinds ==
  ASSUME WordsHaveOneReading, NEW key \in Key, KeyClass(key) = "ordinary"
  PROVE  /\ Single(key).keys = <<key>> /\ <<key>> \in Seq(Key) /\ <<key>> # <<>>
         /\ Single(key).kind \in {"consonant", "vowel", "other"}
         /\ Single(key).kind = "consonant" =>
              Exact(Consonants, <<key>>) /\ ~ Matches(Vowels, <<key>>)
         /\ Single(key).kind = "vowel" =>
              Exact(Vowels, <<key>>) /\ ~ Matches(Consonants, <<key>>)
         /\ Single(key).kind = "other" => ~ Exact(Consonants, <<key>>) /\ ~ Matches(Vowels, <<key>>)
<1>1. <<key>> \in Seq(Key) /\ Len(<<key>>) = 1 /\ <<key>> # <<>>
  BY OneKey
<1>2. ~ (Matches(Consonants, <<key>>) /\ Matches(Vowels, <<key>>))
  <2> DEFINE one == <<key>>
  <2>1. one \in Seq(Key) /\ Len(one) >= 1
    BY <1>1
  <2> HIDE DEF one
  <2>2. ~ (Matches(Consonants, one) /\ Matches(Vowels, one))
    BY <2>1, ConsonantOrVowel
  <2> QED BY <2>2 DEF one
<1>3. Matches(Vowels, <<key>>) => Exact(Vowels, <<key>>)
  BY <1>1, VowelOnTheWay DEF Matches
<1>4. /\ Single(key).keys = <<key>>
      /\ Single(key).kind \in {"consonant", "vowel", "other"}
      /\ Single(key).kind = "consonant" <=> Exact(Consonants, <<key>>)
      /\ Single(key).kind = "vowel" => Exact(Vowels, <<key>>)
      /\ Single(key).kind = "other" => ~ Exact(Vowels, <<key>>)
  BY SingleProperties
<1>5. Single(key).kind = "other" => ~ Exact(Consonants, <<key>>)
  BY <1>4
<1> QED BY <1>1, <1>2, <1>3, <1>4, <1>5 DEF Matches

-----------------------------------------------------------------------------
(* The handlers *)

\* An ordinary key that finds the object idle.
LEMMA IdleStep ==
  ASSUME WordsHaveOneReading, NEW key \in Key, KeyClass(key) = "ordinary",
         NEW s, s.state = "IDLE"
  PROVE  LET h == handle(s, key)
             x == Single(key)
         IN /\ x.kind = "consonant" /\ ~ Starts(x) =>
                 /\ h.t.state = "CONSONANT_PENDING" /\ h.t.pending = Consonants[x.keys]
                 /\ h.out = <<>>
            /\ x.kind # "vowel" /\ Starts(x) =>
                 h.t.state = "PARTIAL_CONSONANT" /\ h.t.prefix = x.keys /\ h.out = <<>>
            /\ x.kind = "vowel" /\ ~ LongerVowel(x) =>
                 h.t.state = "IDLE" /\ h.out = Optional(Vowels[x.keys].standalone)
            /\ x.kind = "vowel" /\ LongerVowel(x) =>
                 /\ h.t.state = "PARTIAL_VOWEL_STANDALONE" /\ h.t.prefix = x.keys
                 /\ h.out = <<>>
            /\ x.kind = "other" /\ ~ Starts(x) =>
                 h.t.state = "IDLE" /\ h.out = emit_unmapped(key)
<1> DEFINE h == handle(s, key)
           x == Single(key)
           one == <<key>>
<1>1. /\ x.keys = one
      /\ x.kind \in {"consonant", "vowel", "other"}
      /\ x.kind = "consonant" => Exact(Consonants, one) /\ ~ Matches(Vowels, one)
      /\ x.kind = "vowel" => Exact(Vowels, one) /\ ~ Matches(Consonants, one)
      /\ x.kind = "other" => ~ Exact(Consonants, one) /\ ~ Matches(Vowels, one)
  BY SingleKinds
<1>2. h = from_idle(s, key)
  BY DEF handle
<1>3. /\ Starts(x) = is_strict_prefix(Consonants, one)
      /\ LongerVowel(x) = is_strict_prefix(Vowels, one)
  BY <1>1 DEF Starts, LongerVowel
<1> HIDE DEF h, x
<1>4. CASE x.kind = "consonant" /\ ~ Starts(x)
  <2>1. h = Result(Self("CONSONANT_PENDING", Consonants[one], s.prefix), <<>>)
    BY <1>1, <1>2, <1>3, <1>4 DEF from_idle, Complete, Matches
  <2> QED BY <1>1, <1>4, <2>1 DEF h, x, Result, Self
<1>5. CASE x.kind # "vowel" /\ Starts(x)
  <2>1. h = Result(Self("PARTIAL_CONSONANT", s.pending, one), <<>>)
    BY <1>1, <1>2, <1>3, <1>5 DEF from_idle, Complete, Matches
  <2> QED BY <1>1, <1>5, <2>1 DEF h, x, Result, Self
<1>6. CASE x.kind = "vowel" /\ ~ LongerVowel(x)
  <2>1. h = Result(s, standalone_of(one))
    BY <1>1, <1>2, <1>3, <1>6 DEF from_idle, Complete, Matches
  <2>2. standalone_of(one) = Optional(Vowels[one].standalone)
    BY <1>1, <1>6 DEF standalone_of
  <2> QED BY <1>1, <1>6, <2>1, <2>2 DEF h, x, Result
<1>7. CASE x.kind = "vowel" /\ LongerVowel(x)
  <2>1. h = Result(Self("PARTIAL_VOWEL_STANDALONE", s.pending, one), <<>>)
    BY <1>1, <1>2, <1>3, <1>7 DEF from_idle, Complete, Matches
  <2> QED BY <1>1, <1>7, <2>1 DEF h, x, Result, Self
<1>8. CASE x.kind = "other" /\ ~ Starts(x)
  <2>1. h = Result(s, emit_unmapped(key))
    BY <1>1, <1>2, <1>3, <1>8 DEF from_idle, Complete, Matches
  <2> QED BY <1>1, <1>8, <2>1 DEF h, x, Result
<1> QED BY <1>1, <1>4, <1>5, <1>6, <1>7, <1>8 DEF h, x

\* An ordinary key that finds a consonant pending, or none in that state.
LEMMA PendingStep ==
  ASSUME WordsHaveOneReading, NEW key \in Key, KeyClass(key) = "ordinary",
         NEW s, s.state = "CONSONANT_PENDING"
  PROVE  LET h == handle(s, key)
             x == Single(key)
             joined == commit_with_virama(Optional(s.pending))
         IN /\ x.kind = "consonant" /\ ~ Starts(x) =>
                 /\ h.t.state = "CONSONANT_PENDING" /\ h.t.pending = Consonants[x.keys]
                 /\ h.out = joined
            /\ x.kind # "vowel" /\ Starts(x) =>
                 h.t.state = "PARTIAL_CONSONANT" /\ h.t.prefix = x.keys /\ h.out = joined
            /\ x.kind = "vowel" /\ ~ LongerVowel(x) =>
                 /\ h.t.state = "IDLE"
                 /\ h.out = Optional(s.pending) \o Optional(Vowels[x.keys].matra)
            /\ x.kind = "vowel" /\ LongerVowel(x) =>
                 /\ h.t.state = "PARTIAL_VOWEL" /\ h.t.prefix = x.keys
                 /\ h.t.pending = s.pending /\ h.out = <<>>
            /\ x.kind = "other" /\ ~ Starts(x) =>
                 /\ h.t.state = "CONSONANT_PENDING" /\ h.t.pending = NoLetter
                 /\ h.out = Optional(s.pending) \o emit_unmapped(key)
<1> DEFINE h == handle(s, key)
           x == Single(key)
           one == <<key>>
           joined == commit_with_virama(Optional(s.pending))
<1>1. /\ x.keys = one
      /\ x.kind \in {"consonant", "vowel", "other"}
      /\ x.kind = "consonant" => Exact(Consonants, one) /\ ~ Matches(Vowels, one)
      /\ x.kind = "vowel" => Exact(Vowels, one) /\ ~ Matches(Consonants, one)
      /\ x.kind = "other" => ~ Exact(Consonants, one) /\ ~ Matches(Vowels, one)
  BY SingleKinds
<1>2. h = from_consonant_pending(s, key)
  BY DEF handle
<1>3. /\ Starts(x) = is_strict_prefix(Consonants, one)
      /\ LongerVowel(x) = is_strict_prefix(Vowels, one)
  BY <1>1 DEF Starts, LongerVowel
<1> HIDE DEF h, x
<1>4. CASE x.kind = "consonant" /\ ~ Starts(x)
  <2>1. h = Result(Self(s.state, Consonants[one], s.prefix), joined)
    BY <1>1, <1>2, <1>3, <1>4 DEF from_consonant_pending, Complete, Matches
  <2> HIDE DEF joined
  <2>2. /\ h.t.state = "CONSONANT_PENDING" /\ h.t.pending = Consonants[x.keys]
        /\ h.out = joined
    BY <1>1, <2>1 DEF Result, Self
  <2> QED BY <1>4, <2>2 DEF h, x, joined
<1>5. CASE x.kind # "vowel" /\ Starts(x)
  <2>1. h = Result(Self("PARTIAL_CONSONANT", NoLetter, one), joined)
    BY <1>1, <1>2, <1>3, <1>5 DEF from_consonant_pending, Complete, Matches
  <2> HIDE DEF joined
  <2>2. h.t.state = "PARTIAL_CONSONANT" /\ h.t.prefix = x.keys /\ h.out = joined
    BY <1>1, <2>1 DEF Result, Self
  <2>3. ~ (x.kind = "consonant" /\ ~ Starts(x)) /\ x.kind # "vowel"
        /\ ~ (x.kind = "other" /\ ~ Starts(x))
    BY <1>5
  <2> QED BY <2>2, <2>3 DEF h, x, joined
<1>6. CASE x.kind = "vowel" /\ ~ LongerVowel(x)
  <2>1. h = Result(Self("IDLE", NoLetter, s.prefix), emit_consonant_matra(s, Vowels[one]))
    BY <1>1, <1>2, <1>3, <1>6 DEF from_consonant_pending, Complete, Matches
  <2> QED BY <1>1, <1>6, <2>1 DEF h, x, Result, Self, emit_consonant_matra
<1>7. CASE x.kind = "vowel" /\ LongerVowel(x)
  <2>1. h = Result(Self("PARTIAL_VOWEL", s.pending, one), <<>>)
    BY <1>1, <1>2, <1>3, <1>7 DEF from_consonant_pending, Complete, Matches
  <2> QED BY <1>1, <1>7, <2>1 DEF h, x, Result, Self
<1>8. CASE x.kind = "other" /\ ~ Starts(x)
  <2>1. h = Result(Self(s.state, NoLetter, s.prefix), Optional(s.pending) \o emit_unmapped(key))
    BY <1>1, <1>2, <1>3, <1>8 DEF from_consonant_pending, Complete, Matches
  <2> QED BY <1>1, <1>8, <2>1 DEF h, x, Result, Self
<1> QED BY <1>1, <1>4, <1>5, <1>6, <1>7, <1>8 DEF h, x, joined

-----------------------------------------------------------------------------
(* A word that is regular was so before its last key *)

\* A new unit does not mend the ones before it.
LEMMA RegularBeforeAppend ==
  ASSUME NEW units \in Seq(CutUnit), NEW others \in Seq(CutUnit),
         Len(others) = Len(units) + 1, Agree(units, others, Len(units)), RegularSoFar(others)
  PROVE  RegularSoFar(units)
<1> DEFINE n == Len(units)
<1>1. n \in Nat
  BY LenProperties
<1>2. \A j \in Int : j <= n => KindAt(units, j) = KindAt(others, j)
  BY <1>1, KindAgree
<1>3. ASSUME NEW i \in 1..n
      PROVE  /\ i < n /\ units[i].kind = "other" => ~ Starts(units[i])
             /\ units[i].kind = "vowel" /\ KindAt(units, i - 1) = "other" =>
                  \E j \in 0..(i - 2) :
                    /\ KindAt(units, j) \notin {"consonant", "other"}
                    /\ \A k \in (j + 1)..(i - 1) : units[k].kind = "other"
             /\ KindAt(units, i + 1) = "conjunct" /\ units[i].kind = "consonant" =>
                  ~ Starts(units[i])
  <2>1. i \in 1..Len(others) /\ i < Len(others) /\ units[i] = others[i]
    BY <1>1 DEF Agree
  <2>2. units[i].kind = "other" => ~ Starts(units[i])
    BY <2>1 DEF RegularSoFar
  <2>3. ASSUME units[i].kind = "vowel", KindAt(units, i - 1) = "other"
        PROVE  \E j \in 0..(i - 2) :
                 /\ KindAt(units, j) \notin {"consonant", "other"}
                 /\ \A k \in (j + 1)..(i - 1) : units[k].kind = "other"
    <3>1. KindAt(others, i - 1) = "other"
      <4>1. i - 1 \in Int /\ i - 1 <= n
        BY <1>1
      <4> QED BY <1>2, <2>3, <4>1
    <3>2. PICK j \in 0..(i - 2) :
            /\ KindAt(others, j) \notin {"consonant", "other"}
            /\ \A k \in (j + 1)..(i - 1) : others[k].kind = "other"
      BY <2>1, <2>3, <3>1 DEF RegularSoFar
    <3>3. j \in Int /\ j <= n
      BY <1>1
    <3>4. KindAt(units, j) = KindAt(others, j)
      BY <1>2, <3>3
    <3>5. \A k \in (j + 1)..(i - 1) : units[k] = others[k]
      <4>1. \A k \in (j + 1)..(i - 1) : k \in 1..n
        BY <1>1
      <4> QED BY <4>1 DEF Agree
    <3> QED BY <3>2, <3>4, <3>5
  <2>4. ASSUME KindAt(units, i + 1) = "conjunct", units[i].kind = "consonant"
        PROVE  ~ Starts(units[i])
    <3>1. i + 1 \in Int
      OBVIOUS
    <3>2. i + 1 \in 1..n
      BY <2>4, <3>1, KindInside
    <3>3. KindAt(others, i + 1) = "conjunct"
      <4>1. i + 1 <= n
        BY <1>1, <3>2
      <4> QED BY <1>2, <2>4, <3>1, <4>1
    <3> QED BY <2>1, <2>4, <3>3 DEF RegularSoFar
  <2> QED BY <2>2, <2>3, <2>4
<1> QED BY <1>3 DEF RegularSoFar

\* Nor does a longer one.
LEMMA RegularBeforeGrowth ==
  ASSUME NEW units \in Seq(CutUnit), NEW others \in Seq(CutUnit),
         Len(units) \in Nat \ {0},
         Len(others) = Len(units), Agree(units, others, Len(units) - 1),
         units[Len(units)].kind \in {"consonant", "vowel", "other"},
         units[Len(units)].kind = "vowel" => others[Len(units)].kind = "vowel",
         RegularSoFar(others)
  PROVE  RegularSoFar(units)
<1> DEFINE n == Len(units)
<1>1. n \in Nat /\ n >= 1 /\ n - 1 \in 0..n
  OBVIOUS
<1>2. \A j \in Int : j <= n - 1 => KindAt(units, j) = KindAt(others, j)
  <2> DEFINE m == n - 1
  <2>1. m \in 0..Len(units) /\ m <= Len(others) /\ Agree(units, others, m)
    BY <1>1
  <2> HIDE DEF m
  <2>2. \A j \in Int : j <= m => KindAt(units, j) = KindAt(others, j)
    BY <2>1, KindAgree
  <2> QED BY <2>2 DEF m
<1>3. ASSUME NEW i \in 1..n
      PROVE  /\ i < n /\ units[i].kind = "other" => ~ Starts(units[i])
             /\ units[i].kind = "vowel" /\ KindAt(units, i - 1) = "other" =>
                  \E j \in 0..(i - 2) :
                    /\ KindAt(units, j) \notin {"consonant", "other"}
                    /\ \A k \in (j + 1)..(i - 1) : units[k].kind = "other"
             /\ KindAt(units, i + 1) = "conjunct" /\ units[i].kind = "consonant" =>
                  ~ Starts(units[i])
  <2>1. i \in 1..Len(others) /\ (i < n => i \in 1..(n - 1) /\ units[i] = others[i])
    BY <1>1 DEF Agree
  <2>2. i < n /\ units[i].kind = "other" => ~ Starts(units[i])
    BY <2>1 DEF RegularSoFar
  <2>3. ASSUME units[i].kind = "vowel", KindAt(units, i - 1) = "other"
        PROVE  \E j \in 0..(i - 2) :
                 /\ KindAt(units, j) \notin {"consonant", "other"}
                 /\ \A k \in (j + 1)..(i - 1) : units[k].kind = "other"
    <3>1. KindAt(others, i - 1) = "other"
      <4>1. i - 1 \in Int /\ i - 1 <= n - 1
        BY <1>1
      <4> QED BY <1>2, <2>3, <4>1
    <3>2. others[i].kind = "vowel"
      <4>1. CASE i = n
        BY <2>3, <4>1
      <4>2. CASE i # n
        <5>1. i < n
          BY <1>1, <4>2
        <5> QED BY <2>1, <2>3, <5>1
      <4> QED BY <4>1, <4>2
    <3>3. PICK j \in 0..(i - 2) :
            /\ KindAt(others, j) \notin {"consonant", "other"}
            /\ \A k \in (j + 1)..(i - 1) : others[k].kind = "other"
      BY <2>1, <3>1, <3>2 DEF RegularSoFar
    <3>4. j \in Int /\ j <= n - 1
      BY <1>1
    <3>5. KindAt(units, j) = KindAt(others, j)
      BY <1>2, <3>4
    <3>6. \A k \in (j + 1)..(i - 1) : units[k] = others[k]
      <4>1. \A k \in (j + 1)..(i - 1) : k \in 1..(n - 1)
        BY <1>1
      <4> QED BY <4>1 DEF Agree
    <3> QED BY <3>3, <3>5, <3>6
  <2>4. ASSUME KindAt(units, i + 1) = "conjunct", units[i].kind = "consonant"
        PROVE  ~ Starts(units[i])
    <3>1. i + 1 \in Int
      OBVIOUS
    <3>2. i + 1 \in 1..n /\ units[i + 1].kind = "conjunct"
      BY <2>4, <3>1, KindInside
    <3>3. i + 1 # n
      BY <3>2
    <3>4. i + 1 <= n - 1 /\ i < n
      BY <1>1, <3>2, <3>3
    <3>5. KindAt(others, i + 1) = "conjunct"
      BY <1>2, <2>4, <3>1, <3>4
    <3> QED BY <2>1, <2>4, <3>4, <3>5 DEF RegularSoFar
  <2> QED BY <2>2, <2>3, <2>4
<1> QED BY <1>3 DEF RegularSoFar

\* Whether the machine is idle after one unmapped unit more.
LEMMA RestsAppend ==
  ASSUME NEW units \in Seq(CutUnit), NEW others \in Seq(CutUnit),
         Len(others) = Len(units) + 1, Agree(units, others, Len(units)),
         others[Len(others)].kind = "other"
  PROVE  Rests(others) <=> \/ LastKind(units) \notin {"consonant", "other"}
                           \/ LastKind(units) = "other" /\ Rests(units)
<1> DEFINE n == Len(units)
<1>1. n \in Nat /\ n \in Int /\ n <= n /\ n \in 0..n
  BY LenProperties
<1>2. \A j \in Int : j <= n => KindAt(units, j) = KindAt(others, j)
  BY <1>1, KindAgree
<1>3. ASSUME Rests(others)
      PROVE  \/ LastKind(units) \notin {"consonant", "other"}
             \/ LastKind(units) = "other" /\ Rests(units)
  <2>1. PICK j \in 0..(Len(others) - 1) :
          /\ KindAt(others, j) \notin {"consonant", "other"}
          /\ \A k \in (j + 1)..Len(others) : others[k].kind = "other"
    BY <1>3 DEF Rests
  <2>2. j \in 0..n
    BY <1>1
  <2>3. KindAt(units, j) = KindAt(others, j)
    BY <1>1, <1>2, <2>2
  <2>4. CASE j = n
    BY <2>1, <2>3, <2>4 DEF LastKind
  <2>5. CASE j # n
    <3>1. \A k \in (j + 1)..n : k \in (j + 1)..Len(others) /\ k \in 1..n
      BY <1>1
    <3>2. \A k \in (j + 1)..n : units[k].kind = "other"
      BY <2>1, <3>1 DEF Agree
    <3>3. n \in (j + 1)..n /\ n \in 1..n /\ j \in 0..(n - 1)
      BY <1>1, <2>2, <2>5
    <3>4. LastKind(units) = "other"
      BY <1>1, <3>2, <3>3, KindInside DEF LastKind
    <3> QED BY <2>1, <2>3, <3>2, <3>3, <3>4 DEF Rests
  <2> QED BY <2>4, <2>5
<1>4. ASSUME LastKind(units) \notin {"consonant", "other"}
      PROVE  Rests(others)
  <2>1. KindAt(others, n) \notin {"consonant", "other"}
    BY <1>1, <1>2, <1>4 DEF LastKind
  <2>2. n \in 0..(Len(others) - 1) /\ \A k \in (n + 1)..Len(others) : k = Len(others)
    BY <1>1
  <2>3. \A k \in (n + 1)..Len(others) : others[k].kind = "other"
    BY <2>2
  <2> QED BY <2>1, <2>2, <2>3 DEF Rests
<1>5. ASSUME Rests(units)
      PROVE  Rests(others)
  <2>1. PICK j \in 0..(n - 1) :
          /\ KindAt(units, j) \notin {"consonant", "other"}
          /\ \A k \in (j + 1)..n : units[k].kind = "other"
    BY <1>5 DEF Rests
  <2>2. j \in 0..(Len(others) - 1) /\ j \in Int /\ j <= n
    BY <1>1
  <2>3. KindAt(others, j) \notin {"consonant", "other"}
    BY <1>2, <2>1, <2>2
  <2>4. \A k \in (j + 1)..Len(others) : k = Len(others) \/ (k \in (j + 1)..n /\ k \in 1..n)
    BY <1>1, <2>2
  <2>5. \A k \in (j + 1)..Len(others) : others[k].kind = "other"
    BY <2>1, <2>4 DEF Agree
  <2> QED BY <2>2, <2>3, <2>5 DEF Rests
<1> QED BY <1>3, <1>4, <1>5

-----------------------------------------------------------------------------
(* The text of a vowel *)

LEMMA TextsOfVowel ==
  ASSUME NEW units \in Seq(CutUnit), NEW m \in 1..Len(units), units[m].kind = "vowel"
  PROVE  /\ units[m].keys \in DOMAIN Vowels
         /\ Optional(Vowels[units[m].keys].standalone) \in Seq(Symbol)
         /\ Optional(Vowels[units[m].keys].matra) \in Seq(Symbol)
         /\ KindAt(units, m - 1) # "consonant" =>
              Texts(units, m) = Texts(units, m - 1) \o Optional(Vowels[units[m].keys].standalone)
         /\ KindAt(units, m - 1) = "consonant" =>
              /\ m - 1 \in 1..Len(units) /\ m - 2 \in 0..Len(units)
              /\ units[m - 1].kind = "consonant"
              /\ Consonants[units[m - 1].keys] \in Letter
              /\ Optional(Consonants[units[m - 1].keys]) \in Seq(Symbol)
              /\ Texts(units, m) = Joined(units, m - 2) \o
                   (Optional(Consonants[units[m - 1].keys])
                      \o Optional(Vowels[units[m].keys].matra))
<1> DEFINE a == Consonants[units[m - 1].keys]
           sign == Optional(Vowels[units[m].keys].matra)
           alone == Optional(Vowels[units[m].keys].standalone)
<1>1. units[m].keys \in DOMAIN Vowels
  BY RenderedCases
<1>2. Vowels[units[m].keys] \in VowelEntry
  BY <1>1, SignTypes
<1>3. alone \in Seq(Symbol) /\ sign \in Seq(Symbol)
  BY <1>2, OptionalText DEF VowelEntry
<1>4. Texts(units, m) = Texts(units, m - 1) \o Rendered(units, m)
  BY TextsStep
<1>5. CASE KindAt(units, m - 1) # "consonant"
  BY <1>1, <1>3, <1>4, <1>5, RenderedCases
<1>6. CASE KindAt(units, m - 1) = "consonant"
  <2> DEFINE k == m - 1
  <2>1. k \in Int /\ k + 1 = m /\ m - 2 = k - 1 /\ KindAt(units, k) = "consonant"
        /\ Len(units) \in Nat
    BY <1>6, LenProperties
  <2> HIDE DEF k
  <2>2. k \in 1..Len(units) /\ units[k].kind = "consonant"
    BY <2>1, KindInside
  <2>3. m - 2 \in 0..Len(units)
    BY <2>1, <2>2
  <2>4. KindAt(units, k + 1) = "vowel"
    BY <2>1, KindInside
  <2>5. /\ Consonants[units[k].keys] \in Letter /\ Consonants[units[k].keys] \in Symbol
        /\ Texts(units, k) = Texts(units, k - 1) \o <<Consonants[units[k].keys]>>
    BY <2>2, <2>4, TextsOfConsonant
  <2>6. Texts(units, k - 1) = Joined(units, k - 1)
    BY <2>2, JoinedBeforeConsonant
  <2>7. Joined(units, m - 2) \in Seq(Symbol) /\ Joined(units, m - 2) = Joined(units, k - 1)
    BY <2>1, <2>3, JoinedText
  <2>8. Optional(Consonants[units[k].keys]) = <<Consonants[units[k].keys]>>
    BY <2>5, SignTypes DEF Optional
  <2>9. Optional(Consonants[units[k].keys]) \in Seq(Symbol)
    BY <2>5, OptionalText
  <2>10. Rendered(units, m) = sign
    BY <1>6, RenderedCases
  <2>11. Texts(units, m) = (Joined(units, m - 2) \o Optional(Consonants[units[k].keys])) \o sign
    BY <1>4, <2>5, <2>6, <2>7, <2>8, <2>10 DEF k
  <2>12. Texts(units, m) = Joined(units, m - 2) \o (Optional(Consonants[units[k].keys]) \o sign)
    <3> DEFINE before == Joined(units, m - 2)
               letter == Optional(Consonants[units[k].keys])
    <3>1. before \in Seq(Symbol) /\ letter \in Seq(Symbol) /\ sign \in Seq(Symbol)
      BY <1>3, <2>7, <2>9
    <3>2. Texts(units, m) = (before \o letter) \o sign
      BY <2>11
    <3> HIDE DEF before, letter, sign
    <3>3. (before \o letter) \o sign = before \o (letter \o sign)
      BY <3>1, ConcatAssociative
    <3> QED BY <3>2, <3>3 DEF before, letter
  <2> QED BY <1>1, <1>3, <1>6, <2>2, <2>3, <2>5, <2>9, <2>12 DEF k
<1> QED BY <1>5, <1>6

-----------------------------------------------------------------------------
(* One key more: the buffer is settled, and the key handled *)

\* The object r and the text w, with everything before the next unit settled.
Settled(units, r, w) ==
  /\ LastKind(units) = "consonant" =>
       /\ r.state = "CONSONANT_PENDING" /\ r.pending = Consonants[units[Len(units)].keys]
       /\ w = Joined(units, Len(units) - 1)
  /\ LastKind(units) # "consonant" =>
       /\ w = Texts(units, Len(units))
       /\ LastKind(units) = "other" /\ ~ Rests(units) =>
            r.state = "CONSONANT_PENDING" /\ r.pending = NoLetter
       /\ ~ (LastKind(units) = "other" /\ ~ Rests(units)) => r.state = "IDLE"

\* The last unit of a word that has one.
LEMMA LastUnit ==
  ASSUME NEW units \in Seq(CutUnit)
  PROVE  /\ Len(units) \in Nat
         /\ LastKind(units) # "edge" =>
              /\ Len(units) \in 1..Len(units) /\ units # <<>>
              /\ LastKind(units) = units[Len(units)].kind
              /\ units[Len(units)] \in CutUnit
              /\ Len(units) - 1 \in 0..Len(units)
<1> DEFINE n == Len(units)
<1>1. n \in Nat
  BY LenProperties
<1>2. ASSUME LastKind(units) # "edge"
      PROVE  /\ n \in 1..n /\ units # <<>>
             /\ LastKind(units) = units[n].kind
             /\ units[n] \in CutUnit
             /\ n - 1 \in 0..n
  <2>1. n \in Int /\ n \in 1..n
    BY <1>1, <1>2, KindInside DEF LastKind
  <2>2. LastKind(units) = units[n].kind /\ units[n] \in CutUnit
    BY <2>1, KindInside DEF LastKind
  <2> QED BY <2>1, <2>2, EmptySeq
<1> QED BY <1>1, <1>2

\* What was written is text.
LEMMA FollowsText ==
  ASSUME NEW units \in Seq(CutUnit), NEW s, NEW w, Follows(units, s, w)
  PROVE  w \in Seq(Symbol)
<1> DEFINE n == Len(units)
           x == units[n]
           kind == LastKind(units)
<1>1. n \in Nat /\ n \in 0..n
  BY LastUnit
<1>2. Texts(units, n) \in Seq(Symbol)
  BY <1>1, TextsStep
<1>3. CASE kind \notin {"consonant", "vowel", "other"}
  BY <1>2, <1>3 DEF Follows
<1>4. CASE kind \in {"consonant", "vowel", "other"}
  <2>1. n \in 1..n /\ n - 1 \in 0..n /\ x.kind = kind
    BY <1>4, LastUnit
  <2>2. Texts(units, n - 1) \in Seq(Symbol) /\ Joined(units, n - 1) \in Seq(Symbol)
    BY <2>1, TextsStep, JoinedText
  <2>3. CASE kind # "vowel"
    BY <1>2, <1>4, <2>2, <2>3 DEF Follows
  <2>4. CASE kind = "vowel" /\ ~ LongerVowel(x)
    BY <1>2, <2>4 DEF Follows
  <2>5. CASE kind = "vowel" /\ LongerVowel(x) /\ KindAt(units, n - 1) # "consonant"
    BY <2>2, <2>5 DEF Follows
  <2>6. CASE kind = "vowel" /\ LongerVowel(x) /\ KindAt(units, n - 1) = "consonant"
    <3>1. n - 2 \in 0..n
      BY <2>1, <2>6, TextsOfVowel
    <3>2. Joined(units, n - 2) \in Seq(Symbol)
      BY <3>1, JoinedText
    <3> QED BY <2>6, <3>2 DEF Follows
  <2> QED BY <2>3, <2>4, <2>5, <2>6
<1> QED BY <1>3, <1>4

\* The keys of a unit, and where they are stored.
LEMMA CutKeys ==
  ASSUME NEW x \in CutUnit
  PROVE  /\ x.keys \in Seq(Key) /\ x.keys # <<>>
         /\ x.kind = "consonant" => x.keys \in DOMAIN Consonants /\ Exact(Consonants, x.keys)
         /\ x.kind = "vowel" => x.keys \in DOMAIN Vowels /\ Exact(Vowels, x.keys)
<1>1. x.keys \in Seq(Key) /\ Len(x.keys) >= 1
  BY DEF CutUnit
<1>2. x.keys # <<>>
  BY <1>1, EmptySeq
<1> QED BY <1>1, <1>2 DEF CutUnit, WellCut, Exact

\* A key that does not make a longer unit of the last one is not taken into the buffer.
LEMMA NoLonger ==
  ASSUME WordsHaveOneReading, NEW x \in CutUnit, NEW key \in Key, ~ Extends(x, key)
  PROVE  /\ x.kind = "consonant" => ~ Matches(Consonants, Append(x.keys, key))
         /\ x.kind = "vowel" => ~ Matches(Vowels, Append(x.keys, key))
<1> DEFINE f == Append(x.keys, key)
<1>1. x.keys \in Seq(Key) /\ x.keys # <<>>
  BY CutKeys
<1>2. f \in Seq(Key) /\ Len(f) = Len(x.keys) + 1 /\ Len(x.keys) \in Nat
  BY <1>1, AppendProperties, LenProperties
<1>3. f # <<>>
  BY <1>2, EmptySeq
<1>4. ~ is_strict_prefix(Consonants, f)
  BY <1>1, KeysLeft
<1>5. /\ x.kind = "consonant" => ~ Exact(Consonants, f)
      /\ x.kind = "vowel" => ~ Exact(Vowels, f)
  BY DEF Extends
<1>6. is_strict_prefix(Vowels, f) => Exact(Vowels, f)
  <2> HIDE DEF f
  <2> QED BY <1>2, <1>3, VowelOnTheWay
<1> QED BY <1>4, <1>5, <1>6 DEF Matches

\* The prefix a buffered consonant falls back to is all of it.
LEMMA OneKeyBuffer ==
  ASSUME NEW e \in Seq(Key), Len(e) = 1
  PROVE  <<Head(e)>> = e
<1> DEFINE one == <<Head(e)>>
<1>1. Head(e) = e[1] /\ e[1] \in Key
  OBVIOUS
<1>2. one \in Seq(Key) /\ Len(one) = 1 /\ one[1] = e[1]
  BY <1>1
<1> HIDE DEF one
<1>3. one = e
  BY <1>2, SeqEqual
<1> QED BY <1>3 DEF one

\* A key that does not extend the buffer finds it settled, at once or by the re-feed.
LEMMA Settles ==
  ASSUME WordsHaveOneReading, NEW units \in Seq(CutUnit),
         NEW key \in Key, KeyClass(key) = "ordinary",
         NEW s, NEW w, Follows(units, s, w),
         ~ (units # <<>> /\ Extends(units[Len(units)], key)),
         ~ (LastKind(units) = "other" /\ Starts(units[Len(units)]))
  PROVE  \E r : \E o \in Seq(Symbol) :
           /\ feed_impl(s, key).t = handle(r, key).t
           /\ \/ o = <<>> /\ feed_impl(s, key).out = handle(r, key).out
              \/ feed_impl(s, key).out = o \o handle(r, key).out
           /\ Settled(units, r, w \o o)
<1> DEFINE n == Len(units)
           x == units[n]
           kind == LastKind(units)
           Fits(r, o) ==
             /\ feed_impl(s, key).t = handle(r, key).t
             /\ \/ o = <<>> /\ feed_impl(s, key).out = handle(r, key).out
                \/ feed_impl(s, key).out = o \o handle(r, key).out
             /\ Settled(units, r, w \o o)
<1>1. SUFFICES \E r : \E o \in Seq(Symbol) : Fits(r, o)
  OBVIOUS
<1>2. n \in Nat /\ w \in Seq(Symbol) /\ w \o <<>> = w /\ <<>> \in Seq(Symbol)
  BY LastUnit, FollowsText, ConcatEmptySeq, FewSymbols
<1>3. kind # "edge" => /\ n \in 1..n /\ units # <<>> /\ kind = x.kind /\ x \in CutUnit
                       /\ n - 1 \in 0..n
  BY LastUnit
<1>4. ASSUME s.state \notin Partial, Settled(units, s, w)
      PROVE  \E r : \E o \in Seq(Symbol) : Fits(r, o)
  <2>1. feed_impl(s, key) = handle(s, key)
    BY <1>4 DEF feed_impl, Refeeds
  <2>2. Fits(s, <<>>)
    BY <1>2, <1>4, <2>1
  <2> HIDE DEF Fits
  <2> QED BY <1>2, <2>2
<1>5. ASSUME s.state \in Partial, ~ Matches(Buffered(s), Append(s.prefix, key)),
             settle(s).out \in Seq(Symbol), Settled(units, settle(s).t, w \o settle(s).out)
      PROVE  \E r : \E o \in Seq(Symbol) : Fits(r, o)
  <2> DEFINE r == settle(s).t
             o == settle(s).out
  <2>1. Refeeds(s, key)
    BY <1>5 DEF Refeeds
  <2>2. feed_impl(s, key) = Result(handle(r, key).t, o \o handle(r, key).out)
    BY <2>1 DEF feed_impl
  <2>3. feed_impl(s, key).t = handle(r, key).t
        /\ feed_impl(s, key).out = o \o handle(r, key).out
    <3> HIDE DEF r, o
    <3> QED BY <2>2 DEF Result
  <2>4. Fits(r, o)
    BY <1>5, <2>3
  <2> HIDE DEF Fits
  <2> QED BY <1>5, <2>4
<1> HIDE DEF Fits
<1>6. CASE kind \notin {"consonant", "vowel", "other"}
  <2>1. s.state = "IDLE" /\ w = Texts(units, n)
    BY <1>6 DEF Follows
  <2>2. Settled(units, s, w)
    BY <1>6, <2>1 DEF Settled
  <2>3. s.state \notin Partial
    BY <2>1 DEF Partial
  <2> QED BY <1>4, <2>2, <2>3
<1>7. CASE kind = "consonant"
  <2>1. x \in CutUnit /\ x.kind = "consonant" /\ units # <<>>
    BY <1>3, <1>7
  <2>2. w = Joined(units, n - 1)
    BY <1>7 DEF Follows
  <2>3. CASE ~ Starts(x)
    <3>1. s.state = "CONSONANT_PENDING" /\ s.pending = Consonants[x.keys]
      BY <1>7, <2>3 DEF Follows
    <3>2. Settled(units, s, w)
      BY <1>7, <2>2, <3>1 DEF Settled
    <3>3. s.state \notin Partial
      BY <3>1 DEF Partial
    <3> QED BY <1>4, <3>2, <3>3
  <2>4. CASE Starts(x)
    <3>1. s.state = "PARTIAL_CONSONANT" /\ s.prefix = x.keys
      BY <1>7, <2>4 DEF Follows
    <3>2. x.keys \in Seq(Key) /\ x.keys # <<>> /\ Exact(Consonants, x.keys)
      BY <2>1, CutKeys
    <3>3. Len(x.keys) = 1
      BY <2>4, <3>2, ShortPrefix DEF Starts
    <3>4. first_of(s) = x.keys
      BY <3>1, <3>2, <3>3, OneKeyBuffer DEF first_of
    <3>5. settle(s) = Result(Self("CONSONANT_PENDING", Consonants[x.keys], <<>>), <<>>)
      BY <3>1, <3>2, <3>4 DEF settle
    <3>6. /\ settle(s).t.state = "CONSONANT_PENDING" /\ settle(s).t.pending = Consonants[x.keys]
          /\ settle(s).out = <<>>
      BY <3>5 DEF Result, Self
    <3>7. Settled(units, settle(s).t, w)
      BY <1>7, <2>2, <3>6 DEF Settled
    <3>8. ~ Matches(Consonants, Append(x.keys, key))
      BY <2>1, NoLonger
    <3>9. s.state \in Partial /\ ~ Matches(Buffered(s), Append(s.prefix, key))
      BY <3>1, <3>8 DEF Partial, Buffered
    <3> QED BY <1>2, <1>5, <3>6, <3>7, <3>9
  <2> QED BY <2>3, <2>4
<1>8. CASE kind = "vowel"
  <2>1. x \in CutUnit /\ x.kind = "vowel" /\ units # <<>> /\ n \in 1..n
    BY <1>3, <1>8
  <2>2. CASE ~ LongerVowel(x)
    <3>1. s.state = "IDLE" /\ w = Texts(units, n)
      BY <1>8, <2>2 DEF Follows
    <3>2. Settled(units, s, w)
      BY <1>8, <3>1 DEF Settled
    <3>3. s.state \notin Partial
      BY <3>1 DEF Partial
    <3> QED BY <1>4, <3>2, <3>3
  <2>3. CASE LongerVowel(x)
    <3>1. s.prefix = x.keys
      BY <1>8, <2>3 DEF Follows
    <3>2. Exact(Vowels, x.keys) /\ ~ Matches(Vowels, Append(x.keys, key))
      BY <2>1, CutKeys, NoLonger
    <3>3. CASE KindAt(units, n - 1) = "consonant"
      <4>1. /\ s.state = "PARTIAL_VOWEL"
            /\ s.pending = Consonants[units[n - 1].keys] /\ w = Joined(units, n - 2)
        BY <1>8, <2>3, <3>3 DEF Follows
      <4>2. settle(s) = Result(Fresh, Optional(s.pending) \o Optional(Vowels[x.keys].matra))
        BY <3>1, <3>2, <4>1 DEF settle, emit_consonant_matra
      <4>3. settle(s).t.state = "IDLE"
            /\ settle(s).out = Optional(s.pending) \o Optional(Vowels[x.keys].matra)
        BY <4>2 DEF Result, Fresh, Self
      <4>4. /\ Optional(s.pending) \in Seq(Symbol) /\ Optional(Vowels[x.keys].matra) \in Seq(Symbol)
            /\ Texts(units, n) = w \o (Optional(s.pending) \o Optional(Vowels[x.keys].matra))
        BY <2>1, <3>3, <4>1, TextsOfVowel
      <4>5. settle(s).out \in Seq(Symbol) /\ w \o settle(s).out = Texts(units, n)
        BY <4>3, <4>4, ConcatProperties
      <4>6. Settled(units, settle(s).t, w \o settle(s).out)
        BY <1>8, <4>3, <4>5 DEF Settled
      <4>7. s.state \in Partial /\ ~ Matches(Buffered(s), Append(s.prefix, key))
        BY <3>1, <3>2, <4>1 DEF Partial, Buffered
      <4> QED BY <1>5, <4>5, <4>6, <4>7
    <3>4. CASE KindAt(units, n - 1) # "consonant"
      <4>1. s.state = "PARTIAL_VOWEL_STANDALONE" /\ w = Texts(units, n - 1)
        BY <1>8, <2>3, <3>4 DEF Follows
      <4>2. settle(s) = Result(Self("IDLE", s.pending, <<>>), Optional(Vowels[x.keys].standalone))
        BY <3>1, <3>2, <4>1 DEF settle, standalone_of
      <4>3. settle(s).t.state = "IDLE" /\ settle(s).out = Optional(Vowels[x.keys].standalone)
        BY <4>2 DEF Result, Self
      <4>4. /\ settle(s).out \in Seq(Symbol) /\ w \o settle(s).out = Texts(units, n)
        BY <2>1, <3>4, <4>1, <4>3, TextsOfVowel
      <4>5. Settled(units, settle(s).t, w \o settle(s).out)
        BY <1>8, <4>3, <4>4 DEF Settled
      <4>6. s.state \in Partial /\ ~ Matches(Buffered(s), Append(s.prefix, key))
        BY <3>1, <3>2, <4>1 DEF Partial, Buffered
      <4> QED BY <1>5, <4>4, <4>5, <4>6
    <3> QED BY <3>3, <3>4
  <2> QED BY <2>2, <2>3
<1>9. CASE kind = "other"
  <2>1. ~ Starts(x)
    BY <1>9
  <2>2. /\ w = Texts(units, n)
        /\ Rests(units) => s.state = "IDLE"
        /\ ~ Rests(units) => s.state = "CONSONANT_PENDING" /\ s.pending = NoLetter
    BY <1>9, <2>1 DEF Follows
  <2>3. Settled(units, s, w)
    BY <1>9, <2>2 DEF Settled
  <2>4. s.state \notin Partial
    BY <2>2 DEF Partial
  <2> QED BY <1>4, <2>3, <2>4
<1> QED BY <1>6, <1>7, <1>8, <1>9

-----------------------------------------------------------------------------
(* Where the machine is after a unit of its own *)

\* When the object follows a word whose last unit is the next one.
LEMMA NowFollows ==
  ASSUME NEW units \in Seq(CutUnit), NEW n \in Nat, Len(units) = n + 1, NEW s, NEW w
  PROVE  LET x == units[n + 1]
             kind == x.kind
         IN /\ LastKind(units) = kind /\ n + 1 \in 1..Len(units) /\ (n + 1) - 1 = n
            /\ (n + 1) - 2 = n - 1
            /\ kind \notin {"consonant", "vowel", "other"} /\ s.state = "IDLE"
                 /\ w = Texts(units, n + 1) => Follows(units, s, w)
            /\ kind = "consonant" /\ ~ Starts(x) /\ s.state = "CONSONANT_PENDING"
                 /\ s.pending = Consonants[x.keys] /\ w = Joined(units, n) => Follows(units, s, w)
            /\ kind \in {"consonant", "other"} /\ Starts(x) /\ s.state = "PARTIAL_CONSONANT"
                 /\ s.prefix = x.keys /\ w = Joined(units, n) => Follows(units, s, w)
            /\ kind = "vowel" /\ ~ LongerVowel(x) /\ s.state = "IDLE"
                 /\ w = Texts(units, n + 1) => Follows(units, s, w)
            /\ kind = "vowel" /\ LongerVowel(x) /\ KindAt(units, n) = "consonant"
                 /\ s.prefix = x.keys /\ s.state = "PARTIAL_VOWEL"
                 /\ s.pending = Consonants[units[n].keys] /\ w = Joined(units, n - 1)
                 => Follows(units, s, w)
            /\ kind = "vowel" /\ LongerVowel(x) /\ KindAt(units, n) # "consonant"
                 /\ s.prefix = x.keys /\ s.state = "PARTIAL_VOWEL_STANDALONE"
                 /\ w = Texts(units, n) => Follows(units, s, w)
            /\ kind = "other" /\ ~ Starts(x) /\ w = Texts(units, n + 1)
                 /\ (Rests(units) => s.state = "IDLE")
                 /\ (~ Rests(units) => s.state = "CONSONANT_PENDING" /\ s.pending = NoLetter)
                 => Follows(units, s, w)
<1> DEFINE m == Len(units)
           x == units[m]
<1>1. m = n + 1 /\ m \in Nat /\ m \in 1..m /\ m \in Int /\ m - 1 = n /\ m - 2 = n - 1
  OBVIOUS
<1>2. LastKind(units) = x.kind
  BY <1>1, KindInside DEF LastKind
<1>3. ASSUME x.kind \notin {"consonant", "vowel", "other"}, s.state = "IDLE", w = Texts(units, m)
      PROVE  Follows(units, s, w)
  BY <1>2, <1>3 DEF Follows
<1>4. ASSUME x.kind = "consonant", ~ Starts(x), s.state = "CONSONANT_PENDING",
             s.pending = Consonants[x.keys], w = Joined(units, m - 1)
      PROVE  Follows(units, s, w)
  BY <1>2, <1>4 DEF Follows
<1>5. ASSUME x.kind \in {"consonant", "other"}, Starts(x), s.state = "PARTIAL_CONSONANT",
             s.prefix = x.keys, w = Joined(units, m - 1)
      PROVE  Follows(units, s, w)
  BY <1>2, <1>5 DEF Follows
<1>6. ASSUME x.kind = "vowel", ~ LongerVowel(x), s.state = "IDLE", w = Texts(units, m)
      PROVE  Follows(units, s, w)
  BY <1>2, <1>6 DEF Follows
<1>7. ASSUME x.kind = "vowel", LongerVowel(x), KindAt(units, m - 1) = "consonant",
             s.prefix = x.keys, s.state = "PARTIAL_VOWEL",
             s.pending = Consonants[units[m - 1].keys], w = Joined(units, m - 2)
      PROVE  Follows(units, s, w)
  BY <1>2, <1>7 DEF Follows
<1>8. ASSUME x.kind = "vowel", LongerVowel(x), KindAt(units, m - 1) # "consonant",
             s.prefix = x.keys, s.state = "PARTIAL_VOWEL_STANDALONE", w = Texts(units, m - 1)
      PROVE  Follows(units, s, w)
  BY <1>2, <1>8 DEF Follows
<1>9. ASSUME x.kind = "other", ~ Starts(x), w = Texts(units, m),
             Rests(units) => s.state = "IDLE",
             ~ Rests(units) => s.state = "CONSONANT_PENDING" /\ s.pending = NoLetter
      PROVE  Follows(units, s, w)
  BY <1>2, <1>9 DEF Follows
<1> HIDE DEF m
<1> QED BY <1>1, <1>2, <1>3, <1>4, <1>5, <1>6, <1>7, <1>8, <1>9

\* What one more unit leaves of the word before it.
LEMMA SameBefore ==
  ASSUME NEW units \in Seq(CutUnit), NEW others \in Seq(CutUnit), NEW n \in Nat,
         Len(units) = n, n <= Len(others), Agree(units, others, n)
  PROVE  /\ KindAt(others, n) = LastKind(units)
         /\ LastKind(units) # "consonant" =>
              /\ Texts(units, n) = Texts(others, n) /\ Texts(others, n) = Joined(others, n)
              /\ Texts(others, n) \in Seq(Symbol)
         /\ LastKind(units) = "consonant" =>
              /\ n \in 1..Len(others) /\ others[n] = units[n] /\ others[n].kind = "consonant"
              /\ n - 1 \in 0..Len(others)
              /\ Joined(units, n - 1) = Joined(others, n - 1)
              /\ Joined(others, n - 1) = Texts(others, n - 1)
              /\ Texts(others, n - 1) \in Seq(Symbol)
<1>1. n \in 0..Len(units) /\ n \in Int /\ Len(others) \in Nat /\ n \in 0..Len(others)
  BY LenProperties
<1>2. KindAt(others, n) = LastKind(units)
  BY <1>1, KindAgree DEF LastKind
<1>3. ASSUME LastKind(units) # "consonant"
      PROVE  /\ Texts(units, n) = Texts(others, n) /\ Texts(others, n) = Joined(others, n)
             /\ Texts(others, n) \in Seq(Symbol)
  <2>1. Texts(units, n) = Texts(others, n)
    BY <1>1, <1>3, TextsAgree DEF LastKind
  <2>2. Texts(others, n) = Joined(others, n)
    BY <1>2, <1>3 DEF Joined
  <2>3. Texts(others, n) \in Seq(Symbol)
    BY <1>1, TextsStep
  <2> QED BY <2>1, <2>2, <2>3
<1>4. ASSUME LastKind(units) = "consonant"
      PROVE  /\ n \in 1..Len(others) /\ others[n] = units[n] /\ others[n].kind = "consonant"
             /\ n - 1 \in 0..Len(others)
             /\ Joined(units, n - 1) = Joined(others, n - 1)
             /\ Joined(others, n - 1) = Texts(others, n - 1)
             /\ Texts(others, n - 1) \in Seq(Symbol)
  <2>1. n \in 1..n /\ n \in 1..Len(others) /\ units[n].kind = "consonant"
    BY <1>1, <1>4, LastUnit
  <2>2. others[n] = units[n]
    BY <2>1 DEF Agree
  <2>3. Joined(others, n - 1) = Texts(others, n - 1)
    BY <2>1, <2>2, JoinedBeforeConsonant
  <2>4. n - 1 \in 0..Len(others) /\ n - 1 \in 0..Len(units) /\ n - 1 <= Len(others)
    BY <1>1, <2>1
  <2>5. Agree(units, others, n - 1)
    <3>1. \A i \in 1..(n - 1) : i \in 1..n
      BY <1>1
    <3> QED BY <3>1 DEF Agree
  <2>6. Joined(units, n - 1) = Joined(others, n - 1)
    <3> DEFINE m == n - 1
    <3>1. m \in 0..Len(units) /\ m <= Len(others) /\ Agree(units, others, m)
      BY <2>4, <2>5
    <3> HIDE DEF m
    <3>2. Joined(units, m) = Joined(others, m)
      BY <3>1, JoinedAgree
    <3> QED BY <3>2 DEF m
  <2>7. Texts(others, n - 1) \in Seq(Symbol)
    BY <2>4, TextsStep
  <2> QED BY <2>1, <2>2, <2>3, <2>4, <2>6, <2>7
<1> QED BY <1>2, <1>3, <1>4

\* A vowel after an unmapped key is regular only if the machine was idle.
LEMMA RestsBeforeVowel ==
  ASSUME NEW units \in Seq(CutUnit), NEW others \in Seq(CutUnit), NEW n \in Nat,
         Len(units) = n, Len(others) = n + 1, Agree(units, others, n),
         RegularSoFar(others), LastKind(units) = "other", others[n + 1].kind = "vowel"
  PROVE  Rests(units)
<1>1. n \in 1..n /\ n \in 0..Len(units) /\ n <= Len(others)
  BY LastUnit
<1>2. \A j \in Int : j <= n => KindAt(units, j) = KindAt(others, j)
  BY <1>1, KindAgree
<1> DEFINE m == n + 1
<1>3. m \in 1..Len(others) /\ m - 1 = n /\ m - 2 = n - 1 /\ others[m].kind = "vowel"
  OBVIOUS
<1>4. KindAt(others, n) = "other"
  BY <1>2 DEF LastKind
<1> HIDE DEF m
<1>5. PICK j \in 0..(m - 2) :
        /\ KindAt(others, j) \notin {"consonant", "other"}
        /\ \A k \in (j + 1)..(m - 1) : others[k].kind = "other"
  BY <1>3, <1>4 DEF RegularSoFar
<1>6. j \in 0..(n - 1) /\ j \in Int /\ j <= n
  BY <1>3
<1>7. KindAt(units, j) \notin {"consonant", "other"}
  BY <1>2, <1>5, <1>6
<1>8. \A k \in (j + 1)..n : k \in 1..n
  BY <1>6
<1>9. \A k \in (j + 1)..n : units[k].kind = "other"
  BY <1>3, <1>5, <1>8 DEF Agree
<1> QED BY <1>6, <1>7, <1>9 DEF Rests

\* A key that starts a unit of its own, from a settled object.
LEMMA OrdinaryStep ==
  ASSUME WordsHaveOneReading, NEW units \in Seq(CutUnit), NEW others \in Seq(CutUnit),
         NEW n \in Nat, Len(units) = n, Len(others) = n + 1, Agree(units, others, n),
         NEW key \in Key, KeyClass(key) = "ordinary", others[n + 1] = Single(key),
         RegularSoFar(others), NEW r, NEW w, Settled(units, r, w)
  PROVE  handle(r, key).out \in Seq(Symbol)
         /\ Follows(others, handle(r, key).t, w \o handle(r, key).out)
<1> DEFINE h == handle(r, key)
           x == Single(key)
           kind == LastKind(units)
           alone == Optional(Vowels[x.keys].standalone)
           sign == Optional(Vowels[x.keys].matra)
<1>1. /\ x.keys = <<key>> /\ x.kind \in {"consonant", "vowel", "other"}
      /\ n + 1 \in 1..Len(others) /\ others[n + 1].kind = x.kind /\ n <= Len(others)
      /\ LastKind(others) = x.kind
  <2>1. x.keys = <<key>> /\ x.kind \in {"consonant", "vowel", "other"}
    BY SingleKinds
  <2>2. n + 1 \in 1..Len(others) /\ LastKind(others) = others[n + 1].kind
    BY NowFollows
  <2>3. n <= Len(others)
    OBVIOUS
  <2> QED BY <2>1, <2>2, <2>3
<1>2. emit_unmapped(key) \in Seq(Symbol) /\ <<>> \in Seq(Symbol)
  BY UnmappedText, FewSymbols
<1>3. x.kind = "vowel" => alone \in Seq(Symbol) /\ sign \in Seq(Symbol)
  BY <1>1, TextsOfVowel
<1>4. x.kind = "other" => Texts(others, n + 1) = Texts(others, n) \o emit_unmapped(key)
  <2> DEFINE m == n + 1
  <2>1. m \in 1..Len(others) /\ m - 1 = n /\ others[m] = x
    BY <1>1
  <2> HIDE DEF m
  <2>2. Texts(others, m) = Texts(others, n) \o Rendered(others, m)
    BY <2>1, TextsStep
  <2>3. x.kind = "other" => Rendered(others, m) = emit_unmapped(x.keys[1])
    BY <2>1, RenderedCases
  <2>4. x.keys[1] = key
    BY <1>1
  <2> QED BY <2>2, <2>3, <2>4 DEF m
<1>5. x.kind = "vowel" /\ kind # "consonant" => Texts(others, n + 1) = Texts(others, n) \o alone
  <2> DEFINE m == n + 1
  <2>1. m \in 1..Len(others) /\ m - 1 = n /\ others[m] = x /\ KindAt(others, n) = kind
    BY <1>1, SameBefore
  <2> HIDE DEF m
  <2>2. x.kind = "vowel" /\ kind # "consonant" => Texts(others, m) = Texts(others, n) \o alone
    BY <2>1, TextsOfVowel
  <2> QED BY <2>2 DEF m
<1>6. CASE kind = "other" /\ ~ Rests(units)
  <2>1. r.state = "CONSONANT_PENDING" /\ r.pending = NoLetter /\ w = Texts(units, n)
    BY <1>6 DEF Settled
  <2>2. /\ w = Texts(others, n) /\ Texts(others, n) = Joined(others, n) /\ w \in Seq(Symbol)
        /\ w \o <<>> = w
    BY <1>1, <1>6, <2>1, SameBefore, ConcatEmptySeq
  <2>3. x.kind # "vowel"
    BY <1>1, <1>6, RestsBeforeVowel
  <2>4. Optional(r.pending) = <<>> /\ commit_with_virama(Optional(r.pending)) = <<>>
        /\ <<>> \o emit_unmapped(key) = emit_unmapped(key)
    BY <1>2, <2>1, ConcatEmptySeq DEF Optional, commit_with_virama
  <2>5. CASE x.kind = "consonant" /\ ~ Starts(x)
    <3>1. h.t.state = "CONSONANT_PENDING" /\ h.t.pending = Consonants[x.keys] /\ h.out = <<>>
      BY <2>1, <2>4, <2>5, PendingStep
    <3> HIDE DEF h
    <3>2. Follows(others, h.t, w)
      BY <2>2, <2>5, <3>1, NowFollows
    <3> QED BY <1>2, <2>2, <3>1, <3>2 DEF h
  <2>6. CASE Starts(x)
    <3>1. h.t.state = "PARTIAL_CONSONANT" /\ h.t.prefix = x.keys /\ h.out = <<>>
      BY <2>1, <2>3, <2>4, <2>6, PendingStep
    <3> HIDE DEF h
    <3>2. Follows(others, h.t, w)
      BY <1>1, <2>2, <2>3, <2>6, <3>1, NowFollows
    <3> QED BY <1>2, <2>2, <3>1, <3>2 DEF h
  <2>7. CASE x.kind = "other" /\ ~ Starts(x)
    <3>1. /\ h.t.state = "CONSONANT_PENDING" /\ h.t.pending = NoLetter
          /\ h.out = emit_unmapped(key)
      BY <2>1, <2>4, <2>7, PendingStep
    <3>2. ~ Rests(others)
      BY <1>1, <1>6, <2>7, RestsAppend
    <3>3. Texts(others, n + 1) = w \o h.out
      BY <1>4, <2>2, <2>7, <3>1
    <3> HIDE DEF h
    <3>4. Follows(others, h.t, w \o h.out)
      BY <2>7, <3>1, <3>2, <3>3, NowFollows
    <3> QED BY <1>2, <3>1, <3>4 DEF h
  <2> QED BY <1>1, <2>3, <2>5, <2>6, <2>7
<1>7. CASE kind # "consonant" /\ ~ (kind = "other" /\ ~ Rests(units))
  <2>1. r.state = "IDLE" /\ w = Texts(units, n)
    BY <1>7 DEF Settled
  <2>2. /\ w = Texts(others, n) /\ Texts(others, n) = Joined(others, n) /\ w \in Seq(Symbol)
        /\ w \o <<>> = w /\ KindAt(others, n) # "consonant"
    BY <1>1, <1>7, <2>1, SameBefore, ConcatEmptySeq
  <2>3. CASE x.kind = "consonant" /\ ~ Starts(x)
    <3>1. h.t.state = "CONSONANT_PENDING" /\ h.t.pending = Consonants[x.keys] /\ h.out = <<>>
      BY <2>1, <2>3, IdleStep
    <3> HIDE DEF h
    <3>2. Follows(others, h.t, w)
      BY <2>2, <2>3, <3>1, NowFollows
    <3> QED BY <1>2, <2>2, <3>1, <3>2 DEF h
  <2>4. CASE x.kind # "vowel" /\ Starts(x)
    <3>1. h.t.state = "PARTIAL_CONSONANT" /\ h.t.prefix = x.keys /\ h.out = <<>>
      BY <2>1, <2>4, IdleStep
    <3> HIDE DEF h
    <3>2. Follows(others, h.t, w)
      BY <1>1, <2>2, <2>4, <3>1, NowFollows
    <3> QED BY <1>2, <2>2, <3>1, <3>2 DEF h
  <2>5. CASE x.kind = "vowel" /\ ~ LongerVowel(x)
    <3>1. h.t.state = "IDLE" /\ h.out = alone
      BY <2>1, <2>5, IdleStep
    <3>2. Texts(others, n + 1) = w \o h.out
      BY <1>5, <1>7, <2>2, <2>5, <3>1
    <3> HIDE DEF h
    <3>3. Follows(others, h.t, w \o h.out)
      BY <2>5, <3>1, <3>2, NowFollows
    <3> QED BY <1>3, <2>5, <3>1, <3>3 DEF h
  <2>6. CASE x.kind = "vowel" /\ LongerVowel(x)
    <3>1. h.t.state = "PARTIAL_VOWEL_STANDALONE" /\ h.t.prefix = x.keys /\ h.out = <<>>
      BY <2>1, <2>6, IdleStep
    <3> HIDE DEF h
    <3>2. Follows(others, h.t, w)
      BY <2>2, <2>6, <3>1, NowFollows
    <3> QED BY <1>2, <2>2, <3>1, <3>2 DEF h
  <2>7. CASE x.kind = "other" /\ ~ Starts(x)
    <3>1. h.t.state = "IDLE" /\ h.out = emit_unmapped(key)
      BY <2>1, <2>7, IdleStep
    <3>2. Rests(others)
      BY <1>1, <1>7, <2>7, RestsAppend
    <3>3. Texts(others, n + 1) = w \o h.out
      BY <1>4, <2>2, <2>7, <3>1
    <3> HIDE DEF h
    <3>4. Follows(others, h.t, w \o h.out)
      BY <2>7, <3>1, <3>2, <3>3, NowFollows
    <3> QED BY <1>2, <3>1, <3>4 DEF h
  <2> QED BY <1>1, <2>3, <2>4, <2>5, <2>6, <2>7
<1>8. CASE kind = "consonant"
  <2> DEFINE a == Consonants[others[n].keys]
  <2>1. /\ n \in 1..Len(others) /\ others[n] = units[n] /\ others[n].kind = "consonant"
        /\ n - 1 \in 0..Len(others) /\ KindAt(others, n) = "consonant"
        /\ Joined(others, n - 1) = Texts(others, n - 1)
        /\ Texts(others, n - 1) \in Seq(Symbol)
    BY <1>1, <1>8, SameBefore
  <2>2. r.state = "CONSONANT_PENDING" /\ r.pending = a /\ w = Texts(others, n - 1)
    BY <1>1, <1>8, SameBefore DEF Settled
  <2>3. /\ a \in Letter /\ a \in Symbol /\ virama \in Symbol
        /\ Joined(others, n) = w \o <<a, virama>>
        /\ x.kind = "other" => Texts(others, n) = w \o <<a>>
    <3>1. KindAt(others, n + 1) = x.kind
      BY <1>1, KindInside
    <3>2. /\ a \in Letter /\ a \in Symbol
          /\ Joined(others, n) = Texts(others, n - 1) \o <<a, virama>>
          /\ x.kind = "other" => Texts(others, n) = Texts(others, n - 1) \o <<a>>
      BY <2>1, <3>1, TextsOfConsonant
    <3> QED BY <2>2, <3>2, SignTypes
  <2>4. Optional(r.pending) = <<a>> /\ <<a>> \in Seq(Symbol) /\ <<a, virama>> \in Seq(Symbol)
        /\ w \in Seq(Symbol) /\ w \o <<>> = w
    BY <2>1, <2>2, <2>3, SignTypes, FewSymbols, ConcatEmptySeq DEF Optional
  <2> HIDE DEF a
  <2>5. commit_with_virama(Optional(r.pending)) = <<a, virama>>
    <3> DEFINE one == <<a>>
    <3>1. one \in Seq(Symbol) /\ one # <<>> /\ one \o <<virama>> = <<a, virama>>
      BY <2>3, <2>4, FewSymbols
    <3> HIDE DEF one
    <3>2. commit_with_virama(one) = Append(one, virama) /\ Append(one, virama) = one \o <<virama>>
      BY <2>3, <3>1, AppendIsConcat DEF commit_with_virama
    <3> QED BY <2>4, <3>1, <3>2 DEF one
  <2>6. CASE x.kind = "consonant" /\ ~ Starts(x)
    <3>1. /\ h.t.state = "CONSONANT_PENDING" /\ h.t.pending = Consonants[x.keys]
          /\ h.out = <<a, virama>>
      BY <2>2, <2>5, <2>6, PendingStep
    <3> HIDE DEF h
    <3>2. Follows(others, h.t, w \o h.out)
      BY <2>3, <2>6, <3>1, NowFollows
    <3> QED BY <2>4, <3>1, <3>2 DEF h
  <2>7. CASE x.kind # "vowel" /\ Starts(x)
    <3>1. h.t.state = "PARTIAL_CONSONANT" /\ h.t.prefix = x.keys /\ h.out = <<a, virama>>
      BY <2>2, <2>5, <2>7, PendingStep
    <3> HIDE DEF h
    <3>2. Follows(others, h.t, w \o h.out)
      BY <1>1, <2>3, <2>7, <3>1, NowFollows
    <3> QED BY <2>4, <3>1, <3>2 DEF h
  <2>8. CASE x.kind = "vowel" /\ ~ LongerVowel(x)
    <3>1. h.t.state = "IDLE" /\ h.out = Optional(a) \o sign
      BY <2>2, <2>8, PendingStep
    <3>2. Texts(others, n + 1) = w \o (Optional(a) \o sign)
      <4> DEFINE m == n + 1
      <4>1. m \in 1..Len(others) /\ m - 1 = n /\ m - 2 = n - 1 /\ others[m] = x
        BY <1>1
      <4> HIDE DEF m
      <4>2. Texts(others, m) = Joined(others, n - 1) \o (Optional(a) \o sign)
        BY <2>1, <2>8, <4>1, TextsOfVowel DEF a
      <4> QED BY <2>1, <2>2, <4>2 DEF m
    <3>3. h.out \in Seq(Symbol)
      <4> DEFINE one == Optional(a)
      <4>1. one \in Seq(Symbol) /\ sign \in Seq(Symbol) /\ h.out = one \o sign
        BY <1>3, <2>2, <2>4, <2>8, <3>1
      <4> HIDE DEF one, sign, h
      <4>2. one \o sign \in Seq(Symbol)
        BY <4>1, ConcatProperties
      <4> QED BY <4>1, <4>2
    <3> HIDE DEF h
    <3>4. Follows(others, h.t, w \o h.out)
      BY <2>8, <3>1, <3>2, NowFollows
    <3> QED BY <3>3, <3>4 DEF h
  <2>9. CASE x.kind = "vowel" /\ LongerVowel(x)
    <3>1. /\ h.t.state = "PARTIAL_VOWEL" /\ h.t.prefix = x.keys /\ h.t.pending = a
          /\ h.out = <<>>
      BY <2>2, <2>9, PendingStep
    <3> HIDE DEF h
    <3>2. Follows(others, h.t, w)
      BY <2>1, <2>2, <2>9, <3>1, NowFollows DEF a
    <3> QED BY <1>2, <2>4, <3>1, <3>2 DEF h
  <2>10. CASE x.kind = "other" /\ ~ Starts(x)
    <3>1. /\ h.t.state = "CONSONANT_PENDING" /\ h.t.pending = NoLetter
          /\ h.out = <<a>> \o emit_unmapped(key)
      BY <2>2, <2>4, <2>10, PendingStep
    <3>2. ~ Rests(others)
      BY <1>1, <1>8, <2>10, RestsAppend
    <3>3. h.out \in Seq(Symbol)
      BY <1>2, <2>4, <3>1, ConcatProperties
    <3>4. Texts(others, n + 1) = w \o h.out
      <4> DEFINE one == <<a>>
                 key_text == emit_unmapped(key)
      <4>1. one \in Seq(Symbol) /\ key_text \in Seq(Symbol) /\ h.out = one \o key_text
        BY <1>2, <2>4, <3>1
      <4>2. Texts(others, n + 1) = (w \o one) \o key_text
        BY <1>4, <2>3, <2>10
      <4> HIDE DEF one, key_text, h
      <4>3. (w \o one) \o key_text = w \o (one \o key_text)
        BY <2>4, <4>1, ConcatAssociative
      <4> QED BY <4>1, <4>2, <4>3
    <3> HIDE DEF h
    <3>5. Follows(others, h.t, w \o h.out)
      BY <2>10, <3>1, <3>2, <3>4, NowFollows
    <3> QED BY <3>3, <3>5 DEF h
  <2> QED BY <1>1, <2>6, <2>7, <2>8, <2>9, <2>10
<1> QED BY <1>6, <1>7, <1>8

\* A key that starts a unit of its own, from the buffered object.
LEMMA OrdinaryKey ==
  ASSUME WordsHaveOneReading, NEW units \in Seq(CutUnit), NEW others \in Seq(CutUnit),
         NEW n \in Nat, Len(units) = n, Len(others) = n + 1, Agree(units, others, n),
         NEW key \in Key, KeyClass(key) = "ordinary", others[n + 1] = Single(key),
         ~ (units # <<>> /\ Extends(units[n], key)),
         RegularSoFar(others), NEW s, NEW w, Follows(units, s, w)
  PROVE  Follows(others, feed_impl(s, key).t, w \o feed_impl(s, key).out)
<1>1. ~ (LastKind(units) = "other" /\ Starts(units[n]))
  <2> SUFFICES ASSUME LastKind(units) = "other", Starts(units[n]) PROVE FALSE
    OBVIOUS
  <2>1. n \in 1..n /\ units[n].kind = "other"
    BY LastUnit
  <2>2. n \in 1..Len(others) /\ n < Len(others) /\ others[n] = units[n]
    BY <2>1 DEF Agree
  <2> QED BY <2>1, <2>2 DEF RegularSoFar
<1>2. PICK r : \E o \in Seq(Symbol) :
        /\ feed_impl(s, key).t = handle(r, key).t
        /\ \/ o = <<>> /\ feed_impl(s, key).out = handle(r, key).out
           \/ feed_impl(s, key).out = o \o handle(r, key).out
        /\ Settled(units, r, w \o o)
  BY <1>1, Settles
<1>3. PICK o \in Seq(Symbol) :
        /\ feed_impl(s, key).t = handle(r, key).t
        /\ \/ o = <<>> /\ feed_impl(s, key).out = handle(r, key).out
           \/ feed_impl(s, key).out = o \o handle(r, key).out
        /\ Settled(units, r, w \o o)
  BY <1>2
<1> DEFINE before == w \o o
           new == handle(r, key).out
           more == feed_impl(s, key).out
<1>4. Settled(units, r, before)
  BY <1>3
<1> HIDE DEF before
<1>5. new \in Seq(Symbol) /\ Follows(others, handle(r, key).t, before \o new)
  BY <1>4, OrdinaryStep
<1>6. w \in Seq(Symbol)
  BY FollowsText
<1> HIDE DEF new
<1>7. w \o more = before \o new
  <2>1. CASE o = <<>> /\ more = new
    <3>1. before = w
      BY <1>6, <2>1, ConcatEmptySeq DEF before
    <3> QED BY <2>1, <3>1
  <2>2. CASE more = o \o new
    <3>1. w \o (o \o new) = (w \o o) \o new
      <4> HIDE DEF more
      <4>1. new \in Seq(Symbol) /\ w \in Seq(Symbol) /\ o \in Seq(Symbol)
        BY <1>5, <1>6
      <4>2. (w \o o) \o new = w \o (o \o new)
        BY <4>1, ConcatAssociative
      <4> QED BY <4>2
    <3> QED BY <2>2, <3>1 DEF before
  <2> QED BY <1>3, <2>1, <2>2 DEF new
<1>8. feed_impl(s, key).t = handle(r, key).t
  BY <1>3
<1> HIDE DEF more
<1>9. Follows(others, feed_impl(s, key).t, w \o more)
  BY <1>5, <1>7, <1>8
<1> QED BY <1>9 DEF more

\* What a commit would write.
LEMMA SoftText ==
  ASSUME WordsHaveOneReading, NEW units \in Seq(CutUnit), NEW s, NEW w, Follows(units, s, w),
         ~ (LastKind(units) = "other" /\ Starts(units[Len(units)]))
  PROVE  LET n == Len(units)
             a == Consonants[units[n].keys]
         IN /\ soft_commit(s) \in Seq(Symbol)
            /\ LastKind(units) = "consonant" =>
                 /\ soft_commit(s) = <<a>> /\ w = Joined(units, n - 1)
                 /\ s.state \in {"CONSONANT_PENDING", "PARTIAL_CONSONANT"}
                 /\ ~ Starts(units[n]) => s.state = "CONSONANT_PENDING" /\ s.pending = a
            /\ LastKind(units) # "consonant" =>
                 /\ w \o soft_commit(s) = Texts(units, n)
                 /\ s.state # "PARTIAL_CONSONANT"
                 /\ s.state = "CONSONANT_PENDING" => s.pending = NoLetter /\ soft_commit(s) = <<>>
<1> DEFINE n == Len(units)
           x == units[n]
           kind == LastKind(units)
           a == Consonants[x.keys]
           soft == soft_commit(s)
<1>1. w \in Seq(Symbol) /\ w \o <<>> = w /\ <<>> \in Seq(Symbol)
  BY FollowsText, ConcatEmptySeq, FewSymbols
<1>2. kind # "edge" => n \in 1..n /\ kind = x.kind /\ x \in CutUnit
  BY LastUnit
<1>3. /\ s.state = "IDLE" => soft = <<>>
      /\ s.state = "CONSONANT_PENDING" => soft = Optional(s.pending)
      /\ s.state = "PARTIAL_CONSONANT" => soft = first_consonant(s)
  BY DEF soft_commit
<1>4. CASE kind = "consonant"
  <2>1. x \in CutUnit /\ x.kind = "consonant" /\ x.keys \in Seq(Key) /\ x.keys # <<>>
        /\ Exact(Consonants, x.keys) /\ a \in Letter /\ a \in Symbol /\ a # NoLetter
    BY <1>2, <1>4, CutKeys, SignTypes
  <2>2. w = Joined(units, n - 1) /\ <<a>> \in Seq(Symbol)
    BY <1>4, <2>1, FewSymbols DEF Follows
  <2>3. CASE ~ Starts(x)
    <3>1. s.state = "CONSONANT_PENDING" /\ s.pending = a
      BY <1>4, <2>3 DEF Follows
    <3>2. soft = <<a>>
      BY <1>3, <2>1, <3>1 DEF Optional
    <3> QED BY <1>4, <2>2, <3>1, <3>2
  <2>4. CASE Starts(x)
    <3>1. s.state = "PARTIAL_CONSONANT" /\ s.prefix = x.keys
      BY <1>4, <2>4 DEF Follows
    <3>2. Len(x.keys) = 1
      BY <2>1, <2>4, ShortPrefix DEF Starts
    <3>3. first_of(s) = x.keys
      BY <2>1, <3>1, <3>2, OneKeyBuffer DEF first_of
    <3>4. first_consonant(s) = <<a>>
      BY <2>1, <3>3 DEF first_consonant
    <3> QED BY <1>3, <1>4, <2>2, <2>4, <3>1, <3>4
  <2> QED BY <2>3, <2>4
<1>5. CASE kind = "vowel" /\ LongerVowel(x)
  <2>1. x \in CutUnit /\ x.kind = "vowel" /\ n \in 1..n /\ Exact(Vowels, x.keys)
    BY <1>2, <1>5, CutKeys
  <2>2. s.prefix = x.keys
    BY <1>5 DEF Follows
  <2>3. CASE KindAt(units, n - 1) = "consonant"
    <3>1. /\ s.state = "PARTIAL_VOWEL"
          /\ s.pending = Consonants[units[n - 1].keys] /\ w = Joined(units, n - 2)
      BY <1>5, <2>3 DEF Follows
    <3>2. soft = Optional(s.pending) \o Optional(Vowels[x.keys].matra)
      BY <2>1, <2>2, <3>1 DEF soft_commit, emit_consonant_matra
    <3>3. /\ Optional(s.pending) \in Seq(Symbol) /\ Optional(Vowels[x.keys].matra) \in Seq(Symbol)
          /\ Texts(units, n) = w \o (Optional(s.pending) \o Optional(Vowels[x.keys].matra))
      BY <2>1, <2>3, <3>1, TextsOfVowel
    <3>4. soft \in Seq(Symbol) /\ w \o soft = Texts(units, n)
      BY <3>2, <3>3, ConcatProperties
    <3> QED BY <1>5, <3>1, <3>4
  <2>4. CASE KindAt(units, n - 1) # "consonant"
    <3>1. s.state = "PARTIAL_VOWEL_STANDALONE" /\ w = Texts(units, n - 1)
      BY <1>5, <2>4 DEF Follows
    <3>2. soft = Optional(Vowels[x.keys].standalone)
      BY <2>1, <2>2, <3>1 DEF soft_commit, standalone_of
    <3>3. soft \in Seq(Symbol) /\ w \o soft = Texts(units, n)
      BY <2>1, <2>4, <3>1, <3>2, TextsOfVowel
    <3> QED BY <1>5, <3>1, <3>3
  <2> QED BY <2>3, <2>4
<1>6. CASE kind # "consonant" /\ ~ (kind = "vowel" /\ LongerVowel(x))
  <2>1. w = Texts(units, n)
        /\ (s.state = "IDLE" \/ (s.state = "CONSONANT_PENDING" /\ s.pending = NoLetter))
    BY <1>6 DEF Follows
  <2>2. soft = <<>>
    BY <1>3, <2>1 DEF Optional
  <2> QED BY <1>1, <1>6, <2>1, <2>2
<1> QED BY <1>4, <1>5, <1>6

\* A rule key.
LEMMA RuleKey ==
  ASSUME WordsHaveOneReading, NEW units \in Seq(CutUnit), NEW others \in Seq(CutUnit),
         NEW n \in Nat, Len(units) = n, Len(others) = n + 1, Agree(units, others, n),
         NEW key \in Key, KeyClass(key) # "ordinary", others[n + 1] = Single(key),
         RegularSoFar(others), NEW s, NEW w, Follows(units, s, w)
  PROVE  Follows(others, feed_impl(s, key).t, w \o feed_impl(s, key).out)
<1> DEFINE h == handle(s, key)
           x == Single(key)
           kind == LastKind(units)
           class == KeyClass(key)
           soft == soft_commit(s)
           a == Consonants[units[n].keys]
<1>1. feed_impl(s, key) = h
  BY DEF feed_impl, Refeeds
<1>2. class \in {"terminator", "conjunct", "anusvara", "visarga"} /\ x.kind = class
  BY KeyClasses, SingleProperties
<1>3. /\ n + 1 \in 1..Len(others) /\ others[n + 1].kind = class /\ n <= Len(others)
      /\ KindAt(others, n + 1) = class
  <2>1. n + 1 \in 1..Len(others) /\ n <= Len(others)
    OBVIOUS
  <2> QED BY <1>2, <2>1, KindInside
<1>4. ~ (kind = "other" /\ Starts(units[n]))
  <2> SUFFICES ASSUME kind = "other", Starts(units[n]) PROVE FALSE
    OBVIOUS
  <2>1. n \in 1..n /\ units[n].kind = "other"
    BY LastUnit
  <2>2. n \in 1..Len(others) /\ n < Len(others) /\ others[n] = units[n]
    BY <2>1 DEF Agree
  <2> QED BY <2>1, <2>2 DEF RegularSoFar
<1>5. /\ soft \in Seq(Symbol)
      /\ kind = "consonant" =>
           /\ soft = <<a>> /\ w = Joined(units, n - 1)
           /\ s.state \in {"CONSONANT_PENDING", "PARTIAL_CONSONANT"}
           /\ ~ Starts(units[n]) => s.state = "CONSONANT_PENDING" /\ s.pending = a
      /\ kind # "consonant" =>
           /\ w \o soft = Texts(units, n)
           /\ s.state # "PARTIAL_CONSONANT"
           /\ s.state = "CONSONANT_PENDING" => s.pending = NoLetter /\ soft = <<>>
  BY <1>4, SoftText
<1>6. w \in Seq(Symbol)
  BY FollowsText
<1>7. /\ class \in {"terminator", "conjunct"} => Texts(others, n + 1) = Texts(others, n)
      /\ class = "anusvara" => Texts(others, n + 1) = Texts(others, n) \o <<anusvara>>
      /\ class = "visarga" => Texts(others, n + 1) = Texts(others, n) \o <<visarga>>
  <2> DEFINE m == n + 1
  <2>1. m \in 1..Len(others) /\ m - 1 = n /\ others[m].kind = class /\ n \in 0..Len(others)
    BY <1>3
  <2> HIDE DEF m
  <2>2. Texts(others, m) = Texts(others, n) \o Rendered(others, m)
        /\ Texts(others, n) \in Seq(Symbol)
    BY <2>1, TextsStep
  <2>3. /\ class \in {"terminator", "conjunct"} => Rendered(others, m) = <<>>
        /\ class = "anusvara" => Rendered(others, m) = <<anusvara>>
        /\ class = "visarga" => Rendered(others, m) = <<visarga>>
    BY <2>1, RenderedCases
  <2>4. Texts(others, n) \o <<>> = Texts(others, n)
    BY <2>2, ConcatEmptySeq
  <2> QED BY <2>2, <2>3, <2>4 DEF m
<1>8. ASSUME h.t.state = "IDLE", w \o h.out = Texts(others, n + 1)
      PROVE  Follows(others, feed_impl(s, key).t, w \o feed_impl(s, key).out)
  <2> HIDE DEF h
  <2>1. Follows(others, h.t, w \o h.out)
    BY <1>2, <1>3, <1>8, NowFollows
  <2> QED BY <1>1, <2>1
<1>9. /\ class = "terminator" => h = handle_hard_terminator(s)
      /\ class = "conjunct" => h = handle_conjunct(s)
      /\ class = "anusvara" => h = handle_sign(s, anusvara)
      /\ class = "visarga" => h = handle_sign(s, visarga)
  BY DEF handle
<1> HIDE DEF h, class, soft
<1>10. ASSUME NEW sign \in Symbol
       PROVE  w \o Append(soft, sign) = (w \o soft) \o <<sign>>
  <2> DEFINE one == <<sign>>
  <2>1. Append(soft, sign) = soft \o one /\ one \in Seq(Symbol)
    BY <1>5, AppendIsConcat, FewSymbols
  <2> HIDE DEF one
  <2>2. (w \o soft) \o one = w \o (soft \o one)
    BY <1>5, <1>6, <2>1, ConcatAssociative
  <2> QED BY <2>1, <2>2 DEF one
<1>11. CASE kind # "consonant"
  <2>1. Texts(others, n) = w \o soft
    BY <1>3, <1>5, <1>11, SameBefore
  <2>2. CASE class = "terminator"
    <3>1. h = Result(Fresh, soft)
      BY <1>5, <1>9, <1>11, <2>2 DEF handle_hard_terminator, commit_with_virama, soft
    <3>2. h.t.state = "IDLE" /\ h.out = soft
      BY <3>1 DEF Result, Fresh, Self
    <3> QED BY <1>7, <1>8, <2>1, <2>2, <3>2
  <2>3. CASE class = "conjunct"
    <3>1. h = Result(Fresh, soft)
      BY <1>5, <1>9, <1>11, <2>3 DEF handle_conjunct, soft
    <3>2. h.t.state = "IDLE" /\ h.out = soft
      BY <3>1 DEF Result, Fresh, Self
    <3> QED BY <1>7, <1>8, <2>1, <2>3, <3>2
  <2>4. ASSUME NEW sign \in Symbol, h = handle_sign(s, sign),
               Texts(others, n + 1) = Texts(others, n) \o <<sign>>
        PROVE  Follows(others, feed_impl(s, key).t, w \o feed_impl(s, key).out)
    <3>1. h.t.state = "IDLE" /\ h.out = Append(soft, sign)
      BY <2>4 DEF handle_sign, Result, Fresh, Self, soft
    <3>2. w \o Append(soft, sign) = (w \o soft) \o <<sign>>
      BY <1>10
    <3> QED BY <1>8, <2>1, <2>4, <3>1, <3>2
  <2>5. CASE class \in {"anusvara", "visarga"}
    BY <1>7, <1>9, <2>4, <2>5, SignTypes
  <2> QED BY <1>2, <2>2, <2>3, <2>4, <2>5 DEF class
<1>12. CASE kind = "consonant"
  <2>1. /\ n \in 1..Len(others) /\ others[n] = units[n] /\ others[n].kind = "consonant"
        /\ w = Texts(others, n - 1)
    BY <1>3, <1>5, <1>12, SameBefore
  <2>2. /\ a \in Letter /\ a \in Symbol /\ a # NoLetter
        /\ class = "terminator" => Texts(others, n) = w \o <<a, virama>>
        /\ class = "conjunct" => Texts(others, n) = w \o <<a, virama, zwj>>
        /\ class \in {"anusvara", "visarga"} => Texts(others, n) = w \o <<a>>
    BY <1>3, <2>1, TextsOfConsonant, SignTypes
  <2> HIDE DEF a
  <2>3. soft = <<a>> /\ <<a>> \in Seq(Symbol) /\ virama \in Symbol /\ zwj \in Symbol
    BY <1>5, <1>12, <2>2, SignTypes, FewSymbols
  <2>4. CASE class = "terminator"
    <3>1. h.t.state = "IDLE" /\ h.out = commit_with_virama(soft)
      BY <1>5, <1>9, <1>12, <2>4 DEF handle_hard_terminator, Result, Fresh, Self, soft
    <3>2. commit_with_virama(soft) = <<a, virama>>
      <4>1. <<a>> \o <<virama>> = <<a, virama>> /\ soft # <<>>
        BY <2>2, <2>3, FewSymbols, EmptySeq
      <4>2. Append(soft, virama) = soft \o <<virama>>
        BY <2>3, AppendIsConcat
      <4> QED BY <2>3, <4>1, <4>2 DEF commit_with_virama
    <3> QED BY <1>7, <1>8, <2>2, <2>4, <3>1, <3>2
  <2>5. CASE class = "conjunct"
    <3>1. ~ Starts(units[n])
      <4>1. KindAt(others, n + 1) = "conjunct"
        BY <1>3, <2>5
      <4> QED BY <2>1, <4>1 DEF RegularSoFar
    <3>2. s.state = "CONSONANT_PENDING" /\ s.pending = a
      BY <1>5, <1>12, <3>1
    <3>3. h.t.state = "IDLE" /\ h.out = <<a, virama, zwj>>
      BY <1>9, <2>2, <2>5, <3>2 DEF handle_conjunct, Result, Self
    <3> QED BY <1>7, <1>8, <2>2, <2>5, <3>3
  <2>6. ASSUME NEW sign \in Symbol, h = handle_sign(s, sign), class \in {"anusvara", "visarga"},
               Texts(others, n + 1) = Texts(others, n) \o <<sign>>
        PROVE  Follows(others, feed_impl(s, key).t, w \o feed_impl(s, key).out)
    <3>1. h.t.state = "IDLE" /\ h.out = Append(soft, sign)
      BY <2>6 DEF handle_sign, Result, Fresh, Self, soft
    <3>2. w \o Append(soft, sign) = (w \o soft) \o <<sign>>
      BY <1>10
    <3>3. w \o soft = Texts(others, n)
      BY <2>2, <2>3, <2>6
    <3> QED BY <1>8, <2>6, <3>1, <3>2, <3>3
  <2>7. CASE class \in {"anusvara", "visarga"}
    BY <1>7, <1>9, <2>6, <2>7, SignTypes
  <2> QED BY <1>2, <2>4, <2>5, <2>7 DEF class
<1> QED BY <1>11, <1>12

\* A key that makes a longer unit of the last one.
LEMMA GrowKey ==
  ASSUME WordsHaveOneReading, NEW units \in Seq(CutUnit), NEW others \in Seq(CutUnit),
         NEW n \in Nat, Len(units) = n + 1, Len(others) = n + 1, Agree(units, others, n),
         NEW key \in Key, Extends(units[n + 1], key),
         others[n + 1] = Grown(units[n + 1], key), NEW s, NEW w, Follows(units, s, w)
  PROVE  Follows(others, feed_impl(s, key).t, w \o feed_impl(s, key).out)
<1> DEFINE h == handle(s, key)
           x == units[n + 1]
           y == others[n + 1]
           longer == Append(x.keys, key)
<1>1. /\ n + 1 \in 1..Len(units) /\ n + 1 \in 1..Len(others) /\ n \in 0..Len(units)
      /\ n <= Len(others) /\ n \in 0..Len(others) /\ n \in Int
  OBVIOUS
<1>2. x \in CutUnit /\ LastKind(units) = x.kind
  BY <1>1, ElementOfSeq, NowFollows
<1>3. /\ KeyClass(key) = "ordinary" /\ y.keys = longer
      /\ x.kind \in {"consonant", "other", "vowel"}
      /\ x.kind = "vowel" => y.kind = "vowel" /\ Exact(Vowels, longer)
      /\ x.kind # "vowel" => y.kind = "consonant" /\ Exact(Consonants, longer)
  BY <1>2, GrowsByOrdinary, GrownProperties
<1>4. x.keys \in Seq(Key) /\ x.keys # <<>> /\ longer \in Seq(Key)
  BY <1>2, CutKeys, AppendProperties
<1>5. IsStrictPrefix(x.keys, longer) /\ ~ is_strict_prefix(Consonants, longer)
  BY <1>4, PrefixReflexive, StrictPrefixOfAppend, KeysLeft
<1>6. w \in Seq(Symbol) /\ w \o <<>> = w
  BY FollowsText, ConcatEmptySeq
<1> HIDE DEF longer
<1>7. ASSUME s.state \in Partial, s.prefix = x.keys, Exact(Buffered(s), longer)
      PROVE  feed_impl(s, key) = h
  BY <1>7 DEF feed_impl, Refeeds, Matches, longer
<1>8. CASE x.kind \in {"consonant", "other"}
  <2>1. Starts(x)
    BY <1>3, <1>5, <1>8 DEF Starts, is_strict_prefix, Exact
  <2>2. s.state = "PARTIAL_CONSONANT" /\ s.prefix = x.keys /\ w = Joined(units, n)
    <3>1. (n + 1) - 1 = n
      OBVIOUS
    <3> QED BY <1>2, <1>8, <2>1, <3>1 DEF Follows
  <2>3. feed_impl(s, key) = h
    BY <1>3, <1>7, <1>8, <2>2 DEF Partial, Buffered
  <2>4. h = from_partial_consonant(s, key)
    BY <1>3, <2>2 DEF handle
  <2>5. h = Result(Self("CONSONANT_PENDING", Consonants[longer], <<>>), <<>>)
    BY <1>5, <2>2, <2>4 DEF from_partial_consonant, longer
  <2>6. h.t.state = "CONSONANT_PENDING" /\ h.t.pending = Consonants[y.keys] /\ h.out = <<>>
    BY <1>3, <2>5 DEF Result, Self
  <2>7. ~ Starts(y)
    BY <1>3, <1>5 DEF Starts
  <2>8. w = Joined(others, n)
    BY <1>1, <2>2, JoinedAgree
  <2> HIDE DEF h
  <2>9. Follows(others, h.t, w)
    BY <1>3, <1>8, <2>6, <2>7, <2>8, NowFollows
  <2> QED BY <1>6, <2>3, <2>6, <2>9
<1>9. CASE x.kind = "vowel"
  <2>1. LongerVowel(x)
    BY <1>3, <1>5, <1>9 DEF LongerVowel, is_strict_prefix, Exact
  <2>2. KindAt(others, n) = KindAt(units, n)
    BY <1>1, KindAgree
  <2>3. y.kind = "vowel" /\ y.keys = longer
    BY <1>3, <1>9
  <2>4. LongerVowel(y) = is_strict_prefix(Vowels, longer)
    BY <2>3 DEF LongerVowel
  <2>5. s.prefix = x.keys
    BY <1>2, <1>9, <2>1 DEF Follows
  <2> DEFINE alone == Optional(Vowels[y.keys].standalone)
             sign == Optional(Vowels[y.keys].matra)
  <2>6. CASE KindAt(units, n) = "consonant"
    <3>1. n \in 1..Len(units) /\ n \in 1..n /\ others[n] = units[n]
      BY <1>1, <2>6, KindInside DEF Agree
    <3> DEFINE a == Consonants[others[n].keys]
    <3>2. /\ s.state = "PARTIAL_VOWEL" /\ s.pending = a /\ w = Joined(units, n - 1)
      <4>1. (n + 1) - 1 = n /\ (n + 1) - 2 = n - 1
        OBVIOUS
      <4> QED BY <1>2, <1>9, <2>1, <2>6, <3>1, <4>1 DEF Follows
    <3>3. w = Joined(others, n - 1)
      <4> DEFINE m == n - 1
      <4>1. m \in 0..Len(units) /\ m <= Len(others) /\ \A i \in 1..m : i \in 1..n
        BY <1>1, <3>1
      <4>2. Agree(units, others, m)
        BY <4>1 DEF Agree
      <4> HIDE DEF m
      <4>3. Joined(units, m) = Joined(others, m)
        BY <4>1, <4>2, JoinedAgree
      <4> QED BY <3>2, <4>3 DEF m
    <3>4. feed_impl(s, key) = h
      BY <1>3, <1>7, <1>9, <2>5, <3>2 DEF Partial, Buffered
    <3>5. h = from_partial_vowel(s, key)
      BY <1>3, <3>2 DEF handle
    <3> HIDE DEF a
    <3>6. CASE LongerVowel(y)
      <4>1. h = Result(Self("PARTIAL_VOWEL", a, longer), <<>>)
        BY <2>4, <2>5, <3>2, <3>5, <3>6 DEF from_partial_vowel, longer
      <4>2. /\ h.t.state = "PARTIAL_VOWEL" /\ h.t.prefix = y.keys /\ h.t.pending = a
            /\ h.out = <<>>
        BY <2>3, <4>1 DEF Result, Self
      <4> HIDE DEF h
      <4>3. Follows(others, h.t, w)
        BY <2>2, <2>3, <2>6, <3>3, <3>6, <4>2, NowFollows DEF a
      <4> QED BY <1>6, <3>4, <4>2, <4>3
    <3>7. CASE ~ LongerVowel(y)
      <4>1. h = Result(Fresh, Optional(s.pending) \o sign)
        BY <2>3, <2>4, <2>5, <3>2, <3>5, <3>7
        DEF from_partial_vowel, emit_consonant_matra, longer
      <4>2. h.t.state = "IDLE" /\ h.out = Optional(a) \o sign
        BY <3>2, <4>1 DEF Result, Fresh, Self
      <4>3. Texts(others, n + 1) = w \o (Optional(a) \o sign)
        <5> DEFINE m == n + 1
        <5>1. /\ m \in 1..Len(others) /\ m - 1 = n /\ m - 2 = n - 1 /\ others[m].keys = y.keys
              /\ others[m].kind = "vowel" /\ KindAt(others, n) = "consonant"
          BY <1>1, <2>2, <2>3, <2>6
        <5> HIDE DEF m, y
        <5>2. Texts(others, m) = Joined(others, n - 1) \o (Optional(a) \o sign)
          BY <5>1, TextsOfVowel DEF a
        <5> QED BY <3>3, <5>2 DEF m
      <4> HIDE DEF h
      <4>4. Follows(others, h.t, w \o h.out)
        BY <2>3, <3>7, <4>2, <4>3, NowFollows
      <4> QED BY <3>4, <4>4
    <3> QED BY <3>6, <3>7
  <2>7. CASE KindAt(units, n) # "consonant"
    <3>1. s.state = "PARTIAL_VOWEL_STANDALONE" /\ w = Texts(units, n)
      <4>1. (n + 1) - 1 = n
        OBVIOUS
      <4> QED BY <1>2, <1>9, <2>1, <2>7, <4>1 DEF Follows
    <3>2. w = Texts(others, n)
      BY <1>1, <2>7, <3>1, TextsAgree
    <3>3. feed_impl(s, key) = h
      BY <1>3, <1>7, <1>9, <2>5, <3>1 DEF Partial, Buffered
    <3>4. h = from_partial_vowel_standalone(s, key)
      BY <1>3, <3>1 DEF handle
    <3>5. CASE LongerVowel(y)
      <4>1. h = Result(Self("PARTIAL_VOWEL_STANDALONE", s.pending, longer), <<>>)
        BY <2>4, <2>5, <3>1, <3>4, <3>5 DEF from_partial_vowel_standalone, longer
      <4>2. h.t.state = "PARTIAL_VOWEL_STANDALONE" /\ h.t.prefix = y.keys /\ h.out = <<>>
        BY <2>3, <4>1 DEF Result, Self
      <4> HIDE DEF h
      <4>3. Follows(others, h.t, w)
        BY <2>2, <2>3, <2>7, <3>2, <3>5, <4>2, NowFollows
      <4> QED BY <1>6, <3>3, <4>2, <4>3
    <3>6. CASE ~ LongerVowel(y)
      <4>1. h = Result(Self("IDLE", s.pending, <<>>), alone)
        BY <1>3, <1>9, <2>3, <2>4, <2>5, <3>1, <3>4, <3>6
        DEF from_partial_vowel_standalone, standalone_of, longer
      <4>2. h.t.state = "IDLE" /\ h.out = alone
        BY <4>1 DEF Result, Self
      <4>3. Texts(others, n + 1) = w \o alone
        <5> DEFINE m == n + 1
        <5>1. /\ m \in 1..Len(others) /\ m - 1 = n /\ others[m].keys = y.keys
              /\ others[m].kind = "vowel" /\ KindAt(others, n) # "consonant"
          BY <1>1, <2>2, <2>3, <2>7
        <5> HIDE DEF m, y
        <5>2. Texts(others, m) = Texts(others, n) \o alone
          BY <5>1, TextsOfVowel
        <5> QED BY <3>2, <5>2 DEF m
      <4> HIDE DEF h
      <4>4. Follows(others, h.t, w \o h.out)
        BY <2>3, <3>6, <4>2, <4>3, NowFollows
      <4> QED BY <3>3, <4>4
    <3> QED BY <3>5, <3>6
  <2> QED BY <2>6, <2>7
<1> QED BY <1>3, <1>8, <1>9

\* Any key, read after any word.
LEMMA FollowsOneMore ==
  ASSUME WordsHaveOneReading, NEW units \in Seq(CutUnit), NEW key \in Key, NEW s, NEW w,
         RegularSoFar(units) => Follows(units, s, w), RegularSoFar(OneMore(units, key))
  PROVE  Follows(OneMore(units, key), feed_impl(s, key).t, w \o feed_impl(s, key).out)
<1> DEFINE others == OneMore(units, key)
           n == Len(units)
<1>1. n \in Nat
  BY LastUnit
<1>2. others \in Seq(CutUnit)
  BY OneMoreProperties
<1>3. CASE units # <<>> /\ Extends(units[n], key)
  <2>1. n # 0
    BY <1>3, EmptySeq
  <2> DEFINE m == n - 1
  <2>2. m \in Nat /\ n = m + 1 /\ n \in Nat \ {0} /\ n \in 1..n
    BY <1>1, <2>1
  <2>3. Len(others) = n /\ Agree(units, others, m) /\ others[n] = Grown(units[n], key)
    BY <1>3, OneMoreProperties DEF Agree
  <2>4. units[n] \in CutUnit
    BY <2>2, ElementOfSeq
  <2>5. /\ units[n].kind \in {"consonant", "other", "vowel"}
        /\ units[n].kind = "vowel" => others[n].kind = "vowel"
    BY <1>3, <2>3, <2>4, GrownProperties
  <2>6. RegularSoFar(units)
    <3> HIDE DEF others
    <3> QED BY <1>2, <2>2, <2>3, <2>5, RegularBeforeGrowth DEF others
  <2>7. Follows(units, s, w)
    BY <2>6
  <2> HIDE DEF m, others
  <2>8. Len(units) = m + 1 /\ Len(others) = m + 1 /\ Extends(units[m + 1], key)
        /\ others[m + 1] = Grown(units[m + 1], key)
    BY <1>3, <2>2, <2>3
  <2>9. Follows(others, feed_impl(s, key).t, w \o feed_impl(s, key).out)
    BY <1>2, <2>2, <2>3, <2>7, <2>8, GrowKey
  <2> QED BY <2>9 DEF others
<1>4. CASE ~ (units # <<>> /\ Extends(units[n], key))
  <2>1. Len(others) = n + 1 /\ Agree(units, others, n) /\ others[n + 1] = Single(key)
    BY <1>4, OneMoreProperties DEF Agree
  <2> HIDE DEF others
  <2>2. RegularSoFar(others)
    BY DEF others
  <2>3. Follows(units, s, w)
    BY <1>2, <2>1, <2>2, RegularBeforeAppend
  <2>4. Follows(others, feed_impl(s, key).t, w \o feed_impl(s, key).out)
    <3>1. CASE KeyClass(key) = "ordinary"
      BY <1>1, <1>2, <1>4, <2>1, <2>2, <2>3, <3>1, OrdinaryKey
    <3>2. CASE KeyClass(key) # "ordinary"
      BY <1>1, <1>2, <2>1, <2>2, <2>3, <3>2, RuleKey
    <3> QED BY <3>1, <3>2
  <2> QED BY <2>4 DEF others
<1> QED BY <1>3, <1>4

\* A word that is regular is so up to its last unit, which then starts no consonant.
LEMMA RegularIsSoFar ==
  ASSUME NEW units \in Seq(CutUnit), Regular(units)
  PROVE  RegularSoFar(units) /\ ~ (LastKind(units) = "other" /\ Starts(units[Len(units)]))
<1>1. DOMAIN units = 1..Len(units)
  BY LenProperties
<1>2. RegularSoFar(units)
  BY <1>1 DEF Regular, RegularSoFar, Starts
<1>3. ~ (LastKind(units) = "other" /\ Starts(units[Len(units)]))
  BY <1>1, LastUnit DEF Regular, Starts
<1> QED BY <1>2, <1>3

\* What a commit at the end writes is the text of all units.
LEMMA CommitCompletes ==
  ASSUME WordsHaveOneReading, NEW units \in Seq(CutUnit), NEW s, NEW w,
         Follows(units, s, w), Regular(units)
  PROVE  w \o soft_commit(s) = Texts(units, Len(units))
<1> DEFINE n == Len(units)
           a == Consonants[units[n].keys]
           soft == soft_commit(s)
<1>1. ~ (LastKind(units) = "other" /\ Starts(units[n]))
  BY RegularIsSoFar
<1>2. /\ LastKind(units) = "consonant" => soft = <<a>> /\ w = Joined(units, n - 1)
      /\ LastKind(units) # "consonant" => w \o soft = Texts(units, n)
  BY <1>1, SoftText
<1>3. CASE LastKind(units) = "consonant"
  <2>1. n \in 1..n /\ units[n].kind = "consonant" /\ n \in Nat
    BY <1>3, LastUnit
  <2>2. KindAt(units, n + 1) = "edge"
    <3>1. n + 1 \in Int /\ n + 1 \notin 1..n
      BY <2>1
    <3> QED BY <3>1, KindInside
  <2>3. Texts(units, n) = Texts(units, n - 1) \o <<a>>
    BY <2>1, <2>2, TextsOfConsonant
  <2>4. Joined(units, n - 1) = Texts(units, n - 1)
    BY <2>1, JoinedBeforeConsonant
  <2> QED BY <1>2, <1>3, <2>3, <2>4
<1> QED BY <1>2, <1>3

-----------------------------------------------------------------------------
(* The theorem *)

\* The induction: what the object has buffered, and what it has written, are those of
\* the units the word is cut into so far, as long as the word stays regular.
SpelledSoFar ==
  /\ text \in Seq(Key)
  /\ RegularSoFar(Units(text)) => Follows(Units(text), t, written)

LEMMA SpelledAtTheStart == Start => SpelledSoFar
<1> SUFFICES ASSUME Start PROVE SpelledSoFar
  OBVIOUS
<1>1. text = <<>> /\ written = <<>> /\ t = Fresh
  BY DEF Start, Init
<1>2. Units(text) = <<>>
  BY <1>1, UnitsOfNone
<1> DEFINE none == Units(text)
<1>3. none \in Seq(CutUnit) /\ Len(none) = 0
  BY <1>2
<1> HIDE DEF none
<1>4. LastKind(none) = "edge" /\ Texts(none, 0) = <<>>
  <2>1. 0 \notin 1..0 /\ 0 \in Int
    OBVIOUS
  <2> QED BY <1>3, <2>1, KindInside, TextsStep DEF LastKind
<1>5. t.state = "IDLE"
  BY <1>1 DEF Fresh, Self
<1>6. Follows(none, t, written)
  BY <1>1, <1>3, <1>4, <1>5 DEF Follows
<1>7. text \in Seq(Key)
  BY <1>1
<1> QED BY <1>6, <1>7 DEF none, SpelledSoFar

\* Every keystroke keeps it.
LEMMA SpelledStep ==
  ASSUME WordsHaveOneReading, SpelledSoFar, [\E key \in TypedKeys : Type(key)]_word_vars
  PROVE  SpelledSoFar'
<1>1. CASE UNCHANGED word_vars
  BY <1>1 DEF SpelledSoFar, word_vars
<1>2. ASSUME NEW key \in TypedKeys, Type(key)
      PROVE  SpelledSoFar'
  <2>1. key \in Key
    BY TypingTypes
  <2> DEFINE units == Units(text)
             s == t
             w == written
  <2>2. /\ t' = feed_impl(t, key).t /\ text' = Append(text, key)
        /\ written' = written \o feed_impl(t, key).out
    BY <1>2 DEF Type, Feed
  <2>3. text \in Seq(Key) /\ (RegularSoFar(units) => Follows(units, t, written))
    BY DEF SpelledSoFar
  <2>4. text' \in Seq(Key)
    BY <2>1, <2>2, <2>3, AppendProperties
  <2>5. units \in Seq(CutUnit) /\ Units(text') = OneMore(units, key)
    BY <2>1, <2>2, <2>3, UnitsOfMore
  <2> HIDE DEF units
  <2>6. RegularSoFar(OneMore(units, key)) => Follows(OneMore(units, key), t', written')
    BY <2>1, <2>2, <2>3, <2>5, FollowsOneMore
  <2>7. RegularSoFar(Units(text')) => Follows(Units(text'), t', written')
    BY <2>5, <2>6
  <2> QED BY <2>4, <2>7 DEF SpelledSoFar
<1> QED BY <1>1, <1>2

\* Where it holds, a commit completes the word as the rules spell it.
LEMMA SpelledAtTheEnd ==
  ASSUME WordsHaveOneReading, SpelledSoFar
  PROVE  WritesWhatIsSpelled
<1> SUFFICES ASSUME Regular(Units(text)) PROVE transliterate_string = Spelling(text)
  BY DEF WritesWhatIsSpelled
<1> DEFINE units == Units(text)
<1>1. units \in Seq(CutUnit)
  <2>1. text \in Seq(Key)
    BY DEF SpelledSoFar
  <2>2. virama \in Letter /\ terminator_key \in Key
    BY KeymapTypes
  <2> QED BY <2>1, <2>2, UnitsOfMore
<1>2. Regular(units) /\ RegularSoFar(units)
  BY <1>1, RegularIsSoFar
<1>3. Follows(units, t, written)
  BY <1>2 DEF SpelledSoFar
<1>4. Spelling(text) = Texts(units, Len(units))
  <2>1. DOMAIN units = 1..Len(units)
    BY <1>1, LenProperties
  <2>2. Spelling(text) = FlattenSeq([i \in DOMAIN units |-> Rendered(units, i)])
    BY DEF Spelling
  <2> HIDE DEF units
  <2> QED BY <2>1, <2>2 DEF Texts
<1> HIDE DEF units
<1>5. written \o soft_commit(t) = Texts(units, Len(units))
  BY <1>1, <1>2, <1>3, CommitCompletes
<1> QED BY <1>4, <1>5 DEF transliterate_string

\* A keystroke at a time, without ever looking ahead, transliterate_string writes every
\* regular word as the longest-match rules spell it, whatever the keymap, as long as
\* longest match is the only reading its words have: no vowel key with a gap before it,
\* no consonant of three keys, no rule key inside another key, and no key that starts
\* both a consonant and a vowel.
THEOREM WordsAlwaysSpelled ==
  ASSUME WordsHaveOneReading
  PROVE  WordSpec => []WritesWhatIsSpelled
<1>1. Start => SpelledSoFar
  BY SpelledAtTheStart
<1>2. SpelledSoFar /\ [\E key \in TypedKeys : Type(key)]_word_vars => SpelledSoFar'
  BY SpelledStep
<1>3. SpelledSoFar => WritesWhatIsSpelled
  BY SpelledAtTheEnd
<1> QED BY <1>1, <1>2, <1>3, PTL DEF WordSpec
=============================================================================
