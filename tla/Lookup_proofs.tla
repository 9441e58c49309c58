--------------------------- MODULE Lookup_proofs ---------------------------
(***************************************************************************)
(* Prefixes of sequences, key by key: the facts the proofs about tries and *)
(* keymaps share.                                                          *)
(***************************************************************************)
EXTENDS Lookup, SequenceTheorems, TLAPS

-----------------------------------------------------------------------------
(* Prefixes *)

\* A strict prefix, key by key.
LEMMA StrictPrefixPointwise ==
  ASSUME NEW S, NEW s \in Seq(S), NEW t \in Seq(S)
  PROVE  IsStrictPrefix(s, t) <=>
           Len(s) < Len(t) /\ \A i \in 1..Len(s) : s[i] = t[i]
<1>1. SubSeq(s, 1, Len(s)) = s
  BY SubSeqFull
<1>2. ASSUME Len(s) <= Len(t)
      PROVE  /\ SubSeq(t, 1, Len(s)) \in Seq(S)
             /\ Len(SubSeq(t, 1, Len(s))) = Len(s)
             /\ \A i \in 1..Len(s) : SubSeq(t, 1, Len(s))[i] = t[i]
  <2>1. \A i \in 1..Len(s) : t[i] \in S
    BY <1>2, ElementOfSeq, LenProperties
  <2>2. /\ SubSeq(t, 1, Len(s)) \in Seq(S)
        /\ Len(SubSeq(t, 1, Len(s))) = IF 1 <= Len(s) THEN Len(s) - 1 + 1 ELSE 0
        /\ \A i \in 1..(Len(s) - 1 + 1) : SubSeq(t, 1, Len(s))[i] = t[1 + i - 1]
    <3>1. 1 \in Int /\ Len(s) \in Int
      BY LenProperties
    <3> QED BY <3>1, <2>1, SubSeqProperties
  <2> QED BY <2>2, LenProperties
<1>3. ASSUME IsStrictPrefix(s, t)
      PROVE  Len(s) < Len(t) /\ \A i \in 1..Len(s) : s[i] = t[i]
  <2>1. Len(s) <= Len(t) /\ s = SubSeq(t, 1, Len(s)) /\ s # t
    BY <1>1, <1>3 DEF IsStrictPrefix, IsPrefix
  <2>2. \A i \in 1..Len(s) : s[i] = t[i]
    BY <2>1, <1>2
  <2>3. Len(s) # Len(t)
    BY <2>1, <2>2, SeqEqual
  <2> QED BY <2>1, <2>2, <2>3, LenProperties
<1>4. ASSUME Len(s) < Len(t), \A i \in 1..Len(s) : s[i] = t[i]
      PROVE  IsStrictPrefix(s, t)
  <2>1. Len(s) <= Len(t) /\ s # t
    BY <1>4, LenProperties
  <2>2. s = SubSeq(t, 1, Len(s))
    BY <2>1, <1>2, <1>4, SeqEqual
  <2> QED BY <1>1, <2>1, <2>2 DEF IsStrictPrefix, IsPrefix
<1> QED BY <1>3, <1>4

\* Front drops the last key and keeps the others.
LEMMA FrontProperties ==
  ASSUME NEW S, NEW s \in Seq(S), s # <<>>
  PROVE  /\ Front(s) \in Seq(S)
         /\ Len(Front(s)) = Len(s) - 1
         /\ \A i \in 1..(Len(s) - 1) : Front(s)[i] = s[i]
<1>1. 1 \in Int /\ Len(s) - 1 \in Int /\ Len(s) >= 1
  BY EmptySeq, LenProperties
<1>2. \A i \in 1..(Len(s) - 1) : s[i] \in S
  BY <1>1, ElementOfSeq, LenProperties
<1>3. /\ SubSeq(s, 1, Len(s) - 1) \in Seq(S)
      /\ Len(SubSeq(s, 1, Len(s) - 1)) = IF 1 <= Len(s) - 1 THEN Len(s) - 1 - 1 + 1 ELSE 0
      /\ \A i \in 1..(Len(s) - 1 - 1 + 1) : SubSeq(s, 1, Len(s) - 1)[i] = s[1 + i - 1]
  BY <1>1, <1>2, SubSeqProperties
<1>4. /\ Len(SubSeq(s, 1, Len(s) - 1)) = Len(s) - 1
      /\ \A i \in 1..(Len(s) - 1) : SubSeq(s, 1, Len(s) - 1)[i] = s[i]
  <2>1. Len(s) \in Nat
    BY LenProperties
  <2>2. \A n \in Nat : n >= 1 =>
          /\ n - 1 - 1 + 1 = n - 1
          /\ (IF 1 <= n - 1 THEN n - 1 - 1 + 1 ELSE 0) = n - 1
          /\ \A i \in 1..(n - 1) : 1 + i - 1 = i
    OBVIOUS
  <2>3. /\ Len(s) - 1 - 1 + 1 = Len(s) - 1
        /\ (IF 1 <= Len(s) - 1 THEN Len(s) - 1 - 1 + 1 ELSE 0) = Len(s) - 1
        /\ \A i \in 1..(Len(s) - 1) : 1 + i - 1 = i
    BY <1>1, <2>1, <2>2, Zenon
  <2> QED BY <1>3, <2>3
<1> QED BY <1>3, <1>4 DEF Front

\* The first n keys of a sequence.
LEMMA FirstKeys ==
  ASSUME NEW S, NEW s \in Seq(S), NEW n \in 0..Len(s)
  PROVE  /\ SubSeq(s, 1, n) \in Seq(S)
         /\ Len(SubSeq(s, 1, n)) = n
         /\ \A i \in 1..n : SubSeq(s, 1, n)[i] = s[i]
<1>1. 1 \in Int /\ n \in Int /\ Len(s) \in Nat
  BY LenProperties
<1>2. \A i \in 1..n : s[i] \in S
  BY <1>1, ElementOfSeq
<1>3. /\ SubSeq(s, 1, n) \in Seq(S)
      /\ Len(SubSeq(s, 1, n)) = IF 1 <= n THEN n - 1 + 1 ELSE 0
      /\ \A i \in 1..(n - 1 + 1) : SubSeq(s, 1, n)[i] = s[1 + i - 1]
  BY <1>1, <1>2, SubSeqProperties
<1>4. /\ (IF 1 <= n THEN n - 1 + 1 ELSE 0) = n /\ n - 1 + 1 = n
      /\ \A i \in 1..n : 1 + i - 1 = i
  BY <1>1
<1> QED BY <1>3, <1>4

\* A prefix, key by key.
LEMMA PrefixPointwise ==
  ASSUME NEW S, NEW s \in Seq(S), NEW t \in Seq(S)
  PROVE  IsPrefix(s, t) <=> Len(s) <= Len(t) /\ \A i \in 1..Len(s) : s[i] = t[i]
<1>1. SubSeq(s, 1, Len(s)) = s
  BY SubSeqFull
<1>2. ASSUME Len(s) <= Len(t)
      PROVE  SubSeq(t, 1, Len(s)) = s <=> \A i \in 1..Len(s) : s[i] = t[i]
  <2>1. Len(s) \in 0..Len(t)
    BY <1>2, LenProperties
  <2>2. /\ SubSeq(t, 1, Len(s)) \in Seq(S)
        /\ Len(SubSeq(t, 1, Len(s))) = Len(s)
        /\ \A i \in 1..Len(s) : SubSeq(t, 1, Len(s))[i] = t[i]
    BY <2>1, FirstKeys
  <2>3. (\A i \in 1..Len(s) : s[i] = t[i]) => SubSeq(t, 1, Len(s)) = s
    BY <2>2, SeqEqual
  <2> QED BY <2>2, <2>3
<1> QED BY <1>1, <1>2 DEF IsPrefix

LEMMA PrefixReflexive ==
  ASSUME NEW S, NEW s \in Seq(S)
  PROVE  IsPrefix(s, s)
BY PrefixPointwise, LenProperties

LEMMA PrefixTransitive ==
  ASSUME NEW S, NEW s \in Seq(S), NEW t \in Seq(S), NEW u \in Seq(S),
         IsPrefix(s, t), IsPrefix(t, u)
  PROVE  IsPrefix(s, u)
<1>1. Len(s) <= Len(t) /\ \A i \in 1..Len(s) : s[i] = t[i]
  BY PrefixPointwise
<1>2. Len(t) <= Len(u) /\ \A i \in 1..Len(t) : t[i] = u[i]
  BY PrefixPointwise
<1>3. Len(s) \in Nat /\ Len(t) \in Nat /\ Len(u) \in Nat
  BY LenProperties
<1>4. Len(s) <= Len(u) /\ \A i \in 1..Len(s) : s[i] = u[i]
  BY <1>1, <1>2, <1>3
<1> QED BY <1>4, PrefixPointwise

LEMMA StrictOrEqual ==
  ASSUME NEW S, NEW s \in Seq(S), NEW t \in Seq(S)
  PROVE  IsPrefix(s, t) <=> s = t \/ IsStrictPrefix(s, t)
BY PrefixReflexive DEF IsStrictPrefix

\* The first n keys of a sequence are a prefix of it, and every prefix is of this form.
LEMMA FirstKeysArePrefix ==
  ASSUME NEW S, NEW s \in Seq(S), NEW n \in 0..Len(s)
  PROVE  IsPrefix(SubSeq(s, 1, n), s)
<1> DEFINE u == SubSeq(s, 1, n)
<1>1. u \in Seq(S) /\ Len(u) = n /\ \A i \in 1..n : u[i] = s[i]
  BY FirstKeys
<1>2. n <= Len(s)
  BY LenProperties
<1> HIDE DEF u
<1>3. IsPrefix(u, s)
  BY <1>1, <1>2, PrefixPointwise
<1> QED BY <1>3 DEF u

LEMMA PrefixIsFirstKeys ==
  ASSUME NEW S, NEW s \in Seq(S), NEW t \in Seq(S), IsPrefix(s, t)
  PROVE  Len(s) \in 0..Len(t) /\ s = SubSeq(t, 1, Len(s))
<1>1. Len(s) <= Len(t) /\ \A i \in 1..Len(s) : s[i] = t[i]
  BY PrefixPointwise
<1>2. Len(s) \in 0..Len(t)
  BY <1>1, LenProperties
<1>3. /\ SubSeq(t, 1, Len(s)) \in Seq(S)
      /\ Len(SubSeq(t, 1, Len(s))) = Len(s)
      /\ \A i \in 1..Len(s) : SubSeq(t, 1, Len(s))[i] = t[i]
  BY <1>2, FirstKeys
<1> QED BY <1>1, <1>2, <1>3, SeqEqual

\* One key more: the new sequence is its only new prefix.
LEMMA PrefixOfAppend ==
  ASSUME NEW S, NEW p \in Seq(S), NEW s \in Seq(S), NEW key \in S,
         IsPrefix(p, Append(s, key))
  PROVE  IsPrefix(p, s) \/ p = Append(s, key)
<1> DEFINE u == Append(s, key)
<1>1. /\ u \in Seq(S)
      /\ Len(u) = Len(s) + 1
      /\ \A i \in 1..Len(s) : u[i] = s[i]
  BY AppendProperties
<1> HIDE DEF u
<1>6. IsPrefix(p, u)
  BY DEF u
<1>2. Len(p) <= Len(s) + 1 /\ \A i \in 1..Len(p) : p[i] = u[i]
  BY <1>1, <1>6, PrefixPointwise
<1>3. Len(p) \in Nat /\ Len(s) \in Nat
  BY LenProperties
<1>4. CASE Len(p) = Len(s) + 1
  <2>1. p = u
    BY <1>1, <1>2, <1>4, SeqEqual
  <2> QED BY <2>1 DEF u
<1>5. CASE Len(p) <= Len(s)
  <2>1. \A i \in 1..Len(p) : p[i] = s[i]
    BY <1>1, <1>2, <1>3, <1>5
  <2> QED BY <1>5, <2>1, PrefixPointwise
<1> QED BY <1>2, <1>3, <1>4, <1>5 DEF u

\* Following a sequence one key further is what a strict prefix allows.
LEMMA StrictPrefixOfAppend ==
  ASSUME NEW S, NEW s \in Seq(S), NEW key \in S, NEW t \in Seq(S),
         IsPrefix(Append(s, key), t)
  PROVE  IsStrictPrefix(s, t)
<1> DEFINE u == Append(s, key)
<1>1. /\ u \in Seq(S)
      /\ Len(u) = Len(s) + 1
      /\ \A i \in 1..Len(s) : u[i] = s[i]
  BY AppendProperties
<1> HIDE DEF u
<1>6. IsPrefix(u, t)
  BY DEF u
<1>2. Len(s) + 1 <= Len(t) /\ \A i \in 1..(Len(s) + 1) : u[i] = t[i]
  BY <1>1, <1>6, PrefixPointwise
<1>3. Len(s) \in Nat /\ Len(t) \in Nat
  BY LenProperties
<1>4. Len(s) < Len(t) /\ \A i \in 1..Len(s) : s[i] = t[i]
  BY <1>1, <1>2, <1>3
<1> QED BY <1>4, StrictPrefixPointwise

LEMMA NextOfStrictPrefix ==
  ASSUME NEW S, NEW s \in Seq(S), NEW t \in Seq(S), IsStrictPrefix(s, t)
  PROVE  /\ t[Len(s) + 1] \in S
         /\ IsPrefix(Append(s, t[Len(s) + 1]), t)
<1>1. Len(s) < Len(t) /\ \A i \in 1..Len(s) : s[i] = t[i]
  BY StrictPrefixPointwise
<1>2. Len(s) \in Nat /\ Len(t) \in Nat
  BY LenProperties
<1>3. Len(s) + 1 \in 1..Len(t)
  BY <1>1, <1>2
<1>4. t[Len(s) + 1] \in S
  BY <1>3, ElementOfSeq
<1> DEFINE u == Append(s, t[Len(s) + 1])
<1>5. /\ u \in Seq(S)
      /\ Len(u) = Len(s) + 1
      /\ u[Len(s) + 1] = t[Len(s) + 1]
      /\ \A i \in 1..Len(s) : u[i] = s[i]
  BY <1>4, AppendProperties
<1>6. Len(u) <= Len(t) /\ \A i \in 1..Len(u) : u[i] = t[i]
  BY <1>1, <1>2, <1>5
<1>7. IsPrefix(u, t)
  BY <1>5, <1>6, PrefixPointwise
<1> QED BY <1>4, <1>7

\* The head of what is left moves to what was read.
LEMMA ShiftConcat ==
  ASSUME NEW S, NEW s \in Seq(S), NEW r \in Seq(S), r # <<>>
  PROVE  /\ Head(r) \in S /\ Tail(r) \in Seq(S) /\ Append(s, Head(r)) \in Seq(S)
         /\ Append(s, Head(r)) \o Tail(r) = s \o r
<1>1. Head(r) \in S /\ Tail(r) \in Seq(S)
  BY HeadTailProperties
<1>2. r = <<Head(r)>> \o Tail(r)
  BY HeadTailProperties
<1>3. <<Head(r)>> \in Seq(S)
  BY <1>1
<1>4. (s \o <<Head(r)>>) \o Tail(r) = s \o (<<Head(r)>> \o Tail(r))
  BY <1>1, <1>3, ConcatAssociative
<1>5. Append(s, Head(r)) = s \o <<Head(r)>>
  BY <1>1, AppendIsConcat
<1> QED BY <1>1, <1>2, <1>4, <1>5, AppendProperties

LEMMA PrefixOfConcat ==
  ASSUME NEW S, NEW s \in Seq(S), NEW r \in Seq(S)
  PROVE  IsPrefix(s, s \o r)
<1>1. /\ s \o r \in Seq(S) /\ Len(s \o r) = Len(s) + Len(r)
      /\ \A i \in 1..Len(s) : (s \o r)[i] = s[i]
  BY ConcatProperties, LenProperties
<1>2. Len(s) <= Len(s \o r)
  BY <1>1, LenProperties
<1> QED BY <1>1, <1>2, PrefixPointwise
=============================================================================
