------------------------------- MODULE ZlibLemmas -------------------------------
(***************************************************************************)
(* Lemmas that the proofs about def and inf share: prefixes of sequences,  *)
(* what streams decode to (ZFormat), and what stdio's calls do to a file   *)
(* (Stdio).  What is shown of the recursive function Decoded rests on the  *)
(* least number of a set, LeastNat.                                        *)
(***************************************************************************)
EXTENDS ZFormat, Stdio, WellFoundedInduction, SequenceTheorems, TLAPS

\* A set of natural numbers that is not empty has a least element.
LEMMA LeastNat ==
  ASSUME NEW S \in SUBSET Nat, S # {}
  PROVE  \E n \in S : \A m \in S : n <= m
<1> DEFINE R == OpToRel(<, Nat)
<1>1. IsWellFoundedOn(R, Nat)
  BY NatLessThanWellFounded, PTL
<1>2. \A x, y \in Nat : x < y => <<x, y>> \in R
  BY SMT DEF OpToRel
<1> HIDE DEF R
<1>3. PICK x \in S : \A y \in S : <<y, x>> \notin R
  BY <1>1, WFMin, Zenon
<1>4. \A y \in S : ~ (y < x)
  BY <1>2, <1>3
<1> QED
  BY <1>4

\* What holds of 0, and of n if it holds of n - 1, holds of all numbers to N.
LEMMA InductionUpTo ==
  ASSUME NEW N \in Nat, NEW S, 0 \in S, \A n \in 1 .. N : n - 1 \in S => n \in S
  PROVE  \A n \in 0 .. N : n \in S
<1> DEFINE Left == {n \in 0 .. N : n \notin S}
<1> SUFFICES ASSUME Left # {} PROVE FALSE
  OBVIOUS
<1>1. Left \in SUBSET Nat
  OBVIOUS
<1>2. PICK n \in Left : \A m \in Left : n <= m
  <2> HIDE DEF Left
  <2> QED
    BY <1>1, LeastNat
<1>3. n \in 1 .. N /\ n - 1 \in 0 .. N /\ ~ (n <= n - 1)
  BY <1>2
<1>4. n - 1 \in S
  BY <1>2, <1>3
<1> QED
  BY <1>2, <1>3, <1>4

--------------------------------------------------------------------------------
(* Prefixes.                                                               *)

\* A prefix is the shorter one, and agrees as far as it goes.
LEMMA PrefixByItems ==
  ASSUME NEW S, NEW s \in Seq(S), NEW t \in Seq(S)
  PROVE  IsPrefix(s, t) <=> Len(s) <= Len(t) /\ \A i \in 1 .. Len(s) : s[i] = t[i]
<1>1. SubSeq(s, 1, Len(s)) = s
  BY SubSeqFull
<1>2. Len(s) \in Nat /\ Len(t) \in Nat
  BY LenProperties
<1>3. ASSUME Len(s) <= Len(t)
      PROVE  /\ SubSeq(t, 1, Len(s)) \in Seq(S) /\ Len(SubSeq(t, 1, Len(s))) = Len(s)
             /\ \A i \in 1 .. Len(s) : SubSeq(t, 1, Len(s))[i] = t[i]
  <2>1. \A i \in 1 .. Len(s) : t[i] \in S
    BY <1>2, <1>3, ElementOfSeq
  <2>2. 1 \in Int /\ Len(s) \in Int
    BY <1>2
  <2> DEFINE n == Len(s)
  <2>3. /\ SubSeq(t, 1, n) \in Seq(S)
        /\ Len(SubSeq(t, 1, n)) = IF 1 <= n THEN n - 1 + 1 ELSE 0
        /\ \A i \in 1 .. n - 1 + 1 : SubSeq(t, 1, n)[i] = t[1 + i - 1]
    BY <2>1, <2>2, SubSeqProperties
  <2> QED
    BY <1>2, <2>3
<1>4. ASSUME Len(s) <= Len(t), \A i \in 1 .. Len(s) : s[i] = t[i]
      PROVE  s = SubSeq(t, 1, Len(s))
  BY <1>3, <1>4, SeqEqual
<1>5. ASSUME Len(s) <= Len(t), s = SubSeq(t, 1, Len(s))
      PROVE  \A i \in 1 .. Len(s) : s[i] = t[i]
  BY <1>3, <1>5
<1> QED
  BY <1>1, <1>4, <1>5 DEF IsPrefix

\* A prefix of a prefix is one.
LEMMA PrefixTransitive ==
  ASSUME NEW S, NEW s \in Seq(S), NEW t \in Seq(S), NEW u \in Seq(S),
         IsPrefix(s, t), IsPrefix(t, u)
  PROVE  IsPrefix(s, u)
<1>1. Len(s) \in Nat /\ Len(t) \in Nat /\ Len(u) \in Nat
  BY LenProperties
<1>2. Len(s) <= Len(t) /\ \A i \in 1 .. Len(s) : s[i] = t[i]
  BY PrefixByItems
<1>3. Len(t) <= Len(u) /\ \A i \in 1 .. Len(t) : t[i] = u[i]
  BY PrefixByItems
<1>4. Len(s) <= Len(u) /\ \A i \in 1 .. Len(s) : s[i] = u[i]
  BY <1>1, <1>2, <1>3
<1> QED
  BY <1>4, PrefixByItems

\* What a sequence begins with is a prefix of it, as is the sequence itself.
LEMMA PrefixOfConcat ==
  ASSUME NEW S, NEW s \in Seq(S), NEW t \in Seq(S)
  PROVE  IsPrefix(s, s \o t) /\ IsPrefix(s, s)
<1>1. /\ s \o t \in Seq(S) /\ Len(s \o t) = Len(s) + Len(t)
      /\ \A i \in 1 .. Len(s) + Len(t) : (s \o t)[i] = IF i <= Len(s) THEN s[i] ELSE t[i - Len(s)]
  BY ConcatProperties
<1>2. Len(s) \in Nat /\ Len(t) \in Nat
  BY LenProperties
<1>3. Len(s) <= Len(s \o t) /\ \A i \in 1 .. Len(s) : s[i] = (s \o t)[i]
  BY <1>1, <1>2
<1>4. IsPrefix(s, s \o t)
  BY <1>1, <1>3, PrefixByItems
<1>5. IsPrefix(s, s)
  BY <1>2, PrefixByItems
<1> QED
  BY <1>4, <1>5

\* The first n items of a sequence.
LEMMA FirstItems ==
  ASSUME NEW S, NEW s \in Seq(S), NEW n \in 0 .. Len(s)
  PROVE  /\ SubSeq(s, 1, n) \in Seq(S) /\ Len(SubSeq(s, 1, n)) = n
         /\ \A i \in 1 .. n : SubSeq(s, 1, n)[i] = s[i]
         /\ IsPrefix(SubSeq(s, 1, n), s)
<1>1. Len(s) \in Nat
  BY LenProperties
<1>2. \A i \in 1 .. n : s[i] \in S
  BY <1>1, ElementOfSeq
<1>3. 1 \in Int /\ n \in Int
  BY <1>1
<1>4. /\ SubSeq(s, 1, n) \in Seq(S)
      /\ Len(SubSeq(s, 1, n)) = IF 1 <= n THEN n - 1 + 1 ELSE 0
      /\ \A i \in 1 .. n - 1 + 1 : SubSeq(s, 1, n)[i] = s[1 + i - 1]
  BY <1>2, <1>3, SubSeqProperties
<1>5. /\ Len(SubSeq(s, 1, n)) = n
      /\ \A i \in 1 .. n : SubSeq(s, 1, n)[i] = s[i]
  BY <1>1, <1>4
<1>6. Len(SubSeq(s, 1, n)) <= Len(s)
  BY <1>1, <1>5
<1> QED
  BY <1>4, <1>5, <1>6, PrefixByItems

\* What is appended to the second of two sequences is appended to both.
LEMMA ConcatAppend ==
  ASSUME NEW S, NEW s \in Seq(S), NEW t \in Seq(S), NEW e \in S
  PROVE  s \o Append(t, e) = Append(s \o t, e)
<1>1. s \o t \in Seq(S) /\ <<e>> \in Seq(S)
  <2>1. s \o t \in Seq(S)
    BY ConcatProperties
  <2> QED
    BY <2>1
<1>2. Append(t, e) = t \o <<e>>
  BY AppendIsConcat
<1>3. Append(s \o t, e) = (s \o t) \o <<e>>
  BY <1>1, AppendIsConcat
<1>4. (s \o t) \o <<e>> = s \o (t \o <<e>>)
  BY <1>1, ConcatAssociative
<1> QED
  BY <1>2, <1>3, <1>4

\* Moving the head of the second of two sequences to the end of the first.
LEMMA MoveHead ==
  ASSUME NEW S, NEW s \in Seq(S), NEW t \in Seq(S), t # <<>>
  PROVE  /\ Head(t) \in S /\ Tail(t) \in Seq(S) /\ Len(Tail(t)) = Len(t) - 1
         /\ Append(s, Head(t)) \in Seq(S) /\ Append(s, Head(t)) \o Tail(t) = s \o t
<1>1. /\ Head(t) \in S /\ Tail(t) \in Seq(S) /\ Len(Tail(t)) = Len(t) - 1
      /\ \A i \in 1 .. Len(Tail(t)) : Tail(t)[i] = t[i + 1]
  BY HeadTailProperties
<1>0. Head(t) = t[1]
  OBVIOUS
<1> DEFINE h == Head(t)
           r == Tail(t)
<1>2. h = t[1]
  BY <1>0
<1>3. Len(s) \in Nat /\ Len(t) \in Nat \ {0}
  <2>1. Len(s) \in Nat /\ Len(t) \in Nat /\ Len(t) # 0
    BY LenProperties, EmptySeq
  <2> QED
    BY <2>1
<1>4. /\ h \in S /\ r \in Seq(S) /\ Len(r) = Len(t) - 1
      /\ \A i \in 1 .. Len(r) : r[i] = t[i + 1]
  BY <1>1
<1> HIDE DEF h, r
<1>5. /\ Append(s, h) \in Seq(S) /\ Len(Append(s, h)) = Len(s) + 1
      /\ \A i \in 1 .. Len(s) : Append(s, h)[i] = s[i]
      /\ Append(s, h)[Len(s) + 1] = h
  BY <1>4, AppendProperties
<1> DEFINE a == Append(s, h)
<1>6. /\ a \in Seq(S) /\ Len(a) = Len(s) + 1 /\ a[Len(s) + 1] = h
      /\ \A i \in 1 .. Len(s) : a[i] = s[i]
  BY <1>5
<1> HIDE DEF a
<1>7. /\ a \o r \in Seq(S) /\ Len(a \o r) = Len(a) + Len(r)
      /\ \A i \in 1 .. Len(a) + Len(r) : (a \o r)[i] = IF i <= Len(a) THEN a[i] ELSE r[i - Len(a)]
  BY <1>4, <1>6, ConcatProperties
<1>8. /\ s \o t \in Seq(S) /\ Len(s \o t) = Len(s) + Len(t)
      /\ \A i \in 1 .. Len(s) + Len(t) : (s \o t)[i] = IF i <= Len(s) THEN s[i] ELSE t[i - Len(s)]
  BY ConcatProperties
<1>9. Len(a) + Len(r) = Len(s) + Len(t)
  BY <1>3, <1>4, <1>6
<1>10. ASSUME NEW i \in 1 .. Len(s) + Len(t) PROVE (a \o r)[i] = (s \o t)[i]
  <2>1. CASE i <= Len(s)
    BY <1>3, <1>6, <1>7, <1>8, <1>9, <2>1
  <2>2. CASE i = Len(s) + 1
    <3>1. i <= Len(a) /\ ~(i <= Len(s)) /\ i - Len(s) = 1
      BY <1>3, <1>6, <2>2
    <3> QED
      BY <1>2, <1>6, <1>7, <1>8, <1>9, <2>2, <3>1
  <2>3. CASE i > Len(s) + 1
    <3>1. /\ ~(i <= Len(a)) /\ ~(i <= Len(s)) /\ i - Len(a) \in 1 .. Len(r)
          /\ (i - Len(a)) + 1 = i - Len(s)
      BY <1>3, <1>4, <1>6, <2>3
    <3> QED
      BY <1>4, <1>7, <1>8, <1>9, <3>1
  <2>4. i <= Len(s) \/ i = Len(s) + 1 \/ i > Len(s) + 1
    BY <1>3
  <2> QED
    BY <2>1, <2>2, <2>3, <2>4
<1>11. a \o r = s \o t
  BY <1>7, <1>8, <1>9, <1>10, SeqEqual
<1> QED
  BY <1>1, <1>6, <1>11 DEF a, h, r

\* The first n items stay the same when one is appended.
LEMMA FirstItemsOfAppend ==
  ASSUME NEW S, NEW s \in Seq(S), NEW e \in S, NEW n \in 0 .. Len(s)
  PROVE  SubSeq(Append(s, e), 1, n) = SubSeq(s, 1, n)
<1> DEFINE t == Append(s, e)
<1>1. /\ t \in Seq(S) /\ Len(t) = Len(s) + 1 /\ \A i \in 1 .. Len(s) : t[i] = s[i]
  BY AppendProperties
<1> HIDE DEF t
<1>2. Len(s) \in Nat
  BY LenProperties
<1>3. /\ SubSeq(s, 1, n) \in Seq(S) /\ Len(SubSeq(s, 1, n)) = n
      /\ \A i \in 1 .. n : SubSeq(s, 1, n)[i] = s[i]
  BY FirstItems
<1>4. n \in 0 .. Len(t)
  BY <1>1, <1>2
<1>5. /\ SubSeq(t, 1, n) \in Seq(S) /\ Len(SubSeq(t, 1, n)) = n
      /\ \A i \in 1 .. n : SubSeq(t, 1, n)[i] = t[i]
  BY <1>1, <1>4, FirstItems
<1>6. \A i \in 1 .. n : SubSeq(t, 1, n)[i] = SubSeq(s, 1, n)[i]
  BY <1>1, <1>2, <1>3, <1>5
<1>7. SubSeq(t, 1, n) = SubSeq(s, 1, n)
  <2> DEFINE v == SubSeq(t, 1, n)
             w == SubSeq(s, 1, n)
  <2>1. v \in Seq(S) /\ w \in Seq(S) /\ Len(v) = Len(w) /\ \A i \in 1 .. Len(v) : v[i] = w[i]
    BY <1>3, <1>5, <1>6
  <2> HIDE DEF v, w
  <2>2. v = w
    BY <2>1, SeqEqual
  <2> QED
    BY <2>2 DEF v, w
<1> QED
  BY <1>7 DEF t

\* The first n + 1 items are the first n and the next one.
LEMMA OneMore ==
  ASSUME NEW S, NEW s \in Seq(S), NEW n \in 0 .. Len(s), n < Len(s)
  PROVE  /\ n + 1 \in 1 .. Len(s) /\ s[n + 1] \in S
         /\ SubSeq(s, 1, n + 1) = Append(SubSeq(s, 1, n), s[n + 1])
<1>1. Len(s) \in Nat /\ n \in Nat
  BY LenProperties
<1>2. n + 1 \in 1 .. Len(s) /\ n + 1 \in 0 .. Len(s)
  BY <1>1
<1>3. s[n + 1] \in S
  BY <1>2, ElementOfSeq
<1> DEFINE a == SubSeq(s, 1, n)
           b == SubSeq(s, 1, n + 1)
           e == s[n + 1]
           c == Append(a, e)
<1>4. a \in Seq(S) /\ Len(a) = n /\ \A i \in 1 .. n : a[i] = s[i]
  BY FirstItems
<1>5. b \in Seq(S) /\ Len(b) = n + 1 /\ \A i \in 1 .. n + 1 : b[i] = s[i]
  BY <1>2, FirstItems
<1> HIDE DEF a, b
<1>6. /\ c \in Seq(S) /\ Len(c) = n + 1 /\ c[n + 1] = s[n + 1]
      /\ \A i \in 1 .. n : c[i] = s[i]
  BY <1>3, <1>4, AppendProperties
<1> HIDE DEF c
<1>7. \A i \in 1 .. n + 1 : b[i] = c[i]
  BY <1>1, <1>5, <1>6
<1>8. b = c
  BY <1>5, <1>6, <1>7, SeqEqual
<1> QED
  BY <1>2, <1>3, <1>8 DEF a, b, c

--------------------------------------------------------------------------------
(* Decoding.  The provers know a recursive function by its CHOOSE only, so *)
(* that it satisfies its equation comes first.                             *)

\* Decoded is defined: the recursion has a solution up to every position.
LEMMA DecodedEquation ==
  ASSUME NEW s, Len(s) \in Nat
  PROVE  Decoded(s) = [n \in 0 .. Len(s) |-> IF n = 0 THEN <<>> ELSE Decoded(s)[n - 1] \o s[n].bytes]
<1> DEFINE Solves(f, m) == f = [n \in 0 .. m |-> IF n = 0 THEN <<>> ELSE f[n - 1] \o s[n].bytes]
           Unsolved == {m \in Nat : ~ \E f : Solves(f, m)}
<1>1. Unsolved = {}
  <2> SUFFICES ASSUME Unsolved # {} PROVE FALSE
    OBVIOUS
  <2>1. PICK m \in Unsolved : \A k \in Unsolved : m <= k
    <3>1. Unsolved \in SUBSET Nat
      OBVIOUS
    <3> HIDE DEF Unsolved
    <3> QED
      BY <3>1, LeastNat
  <2>2. m # 0
    <3>1. Solves([n \in 0 .. 0 |-> <<>>], 0)
      OBVIOUS
    <3> QED
      BY <3>1
  <2>3. PICK f : Solves(f, m - 1)
    <3>1. m - 1 \in Nat /\ ~ (m <= m - 1)
      BY <2>1, <2>2
    <3>2. m - 1 \notin Unsolved
      BY <2>1, <3>1
    <3> HIDE DEF Solves
    <3> QED
      BY <3>1, <3>2
  <2> DEFINE g == [n \in 0 .. m |-> IF n = m THEN f[m - 1] \o s[m].bytes ELSE f[n]]
  <2>4. \A n \in 0 .. m : g[n] = IF n = 0 THEN <<>> ELSE g[n - 1] \o s[n].bytes
    <3> SUFFICES ASSUME NEW n \in 0 .. m
                 PROVE  g[n] = IF n = 0 THEN <<>> ELSE g[n - 1] \o s[n].bytes
      OBVIOUS
    <3>1. CASE n = m
      BY <2>1, <2>2, <3>1
    <3>2. CASE n # m
      <4>1. g[n] = f[n] /\ n \in 0 .. m - 1
        BY <2>1, <3>2
      <4>2. f[n] = IF n = 0 THEN <<>> ELSE f[n - 1] \o s[n].bytes
        BY <2>3, <4>1
      <4>3. n # 0 => g[n - 1] = f[n - 1]
        BY <2>1, <3>2
      <4> QED
        BY <4>1, <4>2, <4>3
    <3> QED
      BY <3>1, <3>2
  <2>5. Solves(g, m)
    <3> HIDE DEF g
    <3>1. g = [n \in 0 .. m |-> g[n]]
      BY DEF g
    <3> QED
      BY <2>4, <3>1
  <2> QED
    BY <2>1, <2>5
<1>2. PICK f : Solves(f, Len(s))
  BY <1>1
<1> QED
  BY <1>2 DEF Decoded

\* Units decode to bytes.
LEMMA DecodedTyping ==
  ASSUME NEW s \in Seq(Unit)
  PROVE  /\ \A n \in 0 .. Len(s) : Decoded(s)[n] \in Seq(Byte)
         /\ Decoded(s)[0] = <<>>
         /\ \A n \in 1 .. Len(s) : Decoded(s)[n] = Decoded(s)[n - 1] \o s[n].bytes
<1> DEFINE Typed == {n \in 0 .. Len(s) : Decoded(s)[n] \in Seq(Byte)}
<1>1. Len(s) \in Nat
  BY LenProperties
<1>0. \A n \in 1 .. Len(s) : s[n].bytes \in Seq(Byte)
  <2> SUFFICES ASSUME NEW n \in 1 .. Len(s) PROVE s[n].bytes \in Seq(Byte)
    OBVIOUS
  <2>1. s[n] \in Unit
    BY ElementOfSeq
  <2> QED
    BY <2>1 DEF Unit
<1>2. Decoded(s) = [n \in 0 .. Len(s) |-> IF n = 0 THEN <<>> ELSE Decoded(s)[n - 1] \o s[n].bytes]
  BY <1>1, DecodedEquation
<1>3. \A n \in 0 .. Len(s) : Decoded(s)[n] = IF n = 0 THEN <<>> ELSE Decoded(s)[n - 1] \o s[n].bytes
  BY <1>2
<1>4. Decoded(s)[0] = <<>>
  BY <1>1, <1>3
<1>5. \A n \in 1 .. Len(s) : Decoded(s)[n] = Decoded(s)[n - 1] \o s[n].bytes
  <2> SUFFICES ASSUME NEW n \in 1 .. Len(s) PROVE Decoded(s)[n] = Decoded(s)[n - 1] \o s[n].bytes
    OBVIOUS
  <2>1. n \in 0 .. Len(s) /\ n # 0
    BY <1>1
  <2> QED
    BY <1>3, <2>1
<1>6. 0 \in Typed
  <2>1. 0 \in 0 .. Len(s) /\ <<>> \in Seq(Byte)
    BY <1>1, EmptySeq
  <2> QED
    BY <1>4, <2>1
<1>7. ASSUME NEW n \in 1 .. Len(s), n - 1 \in Typed PROVE n \in Typed
  <2>1. Decoded(s)[n - 1] \in Seq(Byte) /\ s[n].bytes \in Seq(Byte)
    BY <1>0, <1>7
  <2>2. Decoded(s)[n - 1] \o s[n].bytes \in Seq(Byte)
    BY <2>1, ConcatProperties
  <2>3. Decoded(s)[n] \in Seq(Byte)
    BY <1>5, <2>2
  <2>4. n \in 0 .. Len(s)
    BY <1>1
  <2> QED
    BY <2>3, <2>4
<1>8. \A n \in 0 .. Len(s) : n \in Typed
  <2> HIDE DEF Typed
  <2> QED
    BY <1>1, <1>6, <1>7, InductionUpTo
<1> QED
  BY <1>4, <1>5, <1>8

\* A prefix decodes to a prefix: to what so many units of the whole decode to.
LEMMA DecodedOfPrefix ==
  ASSUME NEW s \in Seq(Unit), NEW t \in Seq(Unit), IsPrefix(s, t)
  PROVE  Plain(s) = Decoded(t)[Len(s)]
<1> DEFINE Agree == {n \in 0 .. Len(s) : Decoded(s)[n] = Decoded(t)[n]}
<1>1. Len(s) \in Nat /\ Len(t) \in Nat
  BY LenProperties
<1>2. Len(s) <= Len(t) /\ \A i \in 1 .. Len(s) : s[i] = t[i]
  BY PrefixByItems
<1>3. 0 \in Agree
  <2>1. Decoded(s)[0] = <<>> /\ Decoded(t)[0] = <<>>
    BY DecodedTyping
  <2>2. 0 \in 0 .. Len(s)
    BY <1>1
  <2> QED
    BY <2>1, <2>2
<1>4. ASSUME NEW n \in 1 .. Len(s), n - 1 \in Agree PROVE n \in Agree
  <2>1. n \in 1 .. Len(t) /\ s[n] = t[n]
    BY <1>1, <1>2
  <2>2. Decoded(s)[n] = Decoded(s)[n - 1] \o s[n].bytes
    BY DecodedTyping
  <2>3. Decoded(t)[n] = Decoded(t)[n - 1] \o t[n].bytes
    BY <2>1, DecodedTyping
  <2>4. Decoded(s)[n - 1] = Decoded(t)[n - 1] /\ n \in 0 .. Len(s)
    BY <1>1, <1>4
  <2>5. Decoded(s)[n] = Decoded(t)[n]
    BY <2>1, <2>2, <2>3, <2>4
  <2> QED
    BY <2>4, <2>5
<1>5. \A n \in 0 .. Len(s) : n \in Agree
  <2> HIDE DEF Agree
  <2> QED
    BY <1>1, <1>3, <1>4, InductionUpTo
<1>6. Len(s) \in Agree
  BY <1>1, <1>5
<1> QED
  BY <1>6 DEF Plain

\* Decoding more units gives more bytes.
LEMMA PlainOfPrefix ==
  ASSUME NEW s \in Seq(Unit), NEW t \in Seq(Unit), IsPrefix(s, t)
  PROVE  IsPrefix(Plain(s), Plain(t))
<1> DEFINE Longer == {n \in 0 .. Len(t) : n >= Len(s) => IsPrefix(Plain(s), Decoded(t)[n])}
<1>1. Len(s) \in Nat /\ Len(t) \in Nat /\ Len(s) <= Len(t)
  BY LenProperties DEF IsPrefix
<1>2. Plain(s) = Decoded(t)[Len(s)] /\ Plain(s) \in Seq(Byte)
  <2>0. Len(s) \in 0 .. Len(s)
    BY <1>1
  <2>1. Decoded(s)[Len(s)] \in Seq(Byte)
    BY <2>0, DecodedTyping
  <2> QED
    BY <2>1, DecodedOfPrefix DEF Plain
<1>3. Len(s) \in Longer
  BY <1>1, <1>2, PrefixOfConcat
<1>4. 0 \in Longer
  BY <1>1, <1>3
<1>5. ASSUME NEW n \in 1 .. Len(t), n - 1 \in Longer PROVE n \in Longer
  <2>1. CASE n <= Len(s)
    BY <1>1, <1>3, <2>1
  <2>2. CASE n > Len(s)
    <3>1. Decoded(t)[n] = Decoded(t)[n - 1] \o t[n].bytes
      BY DecodedTyping
    <3>2. Decoded(t)[n - 1] \in Seq(Byte) /\ Decoded(t)[n] \in Seq(Byte) /\ t[n].bytes \in Seq(Byte)
      <4>1. n - 1 \in 0 .. Len(t) /\ n \in 0 .. Len(t) /\ t[n] \in Unit
        BY <1>1, ElementOfSeq
      <4>2. \A k \in 0 .. Len(t) : Decoded(t)[k] \in Seq(Byte)
        BY DecodedTyping
      <4> QED
        BY <4>1, <4>2 DEF Unit
    <3>3. IsPrefix(Decoded(t)[n - 1], Decoded(t)[n])
      BY <3>1, <3>2, PrefixOfConcat
    <3>4. IsPrefix(Plain(s), Decoded(t)[n - 1])
      BY <1>1, <1>5, <2>2
    <3>5. IsPrefix(Plain(s), Decoded(t)[n])
      BY <1>2, <3>2, <3>3, <3>4, PrefixTransitive
    <3> QED
      BY <3>5
  <2> QED
    BY <1>1, <2>1, <2>2
<1>6. \A n \in 0 .. Len(t) : n \in Longer
  <2> HIDE DEF Longer
  <2> QED
    BY <1>1, <1>4, <1>5, InductionUpTo
<1>7. Len(t) \in Longer
  BY <1>1, <1>6
<1> QED
  BY <1>1, <1>7 DEF Plain

\* One unit more gives its bytes more.
LEMMA PlainAppend ==
  ASSUME NEW s \in Seq(Unit), NEW u \in Unit
  PROVE  /\ Plain(<<>>) = <<>> /\ Plain(s) \in Seq(Byte)
         /\ Plain(Append(s, u)) = Plain(s) \o u.bytes
<1>1. <<>> \in Seq(Unit) /\ Len(<<>>) = 0 /\ Len(s) \in Nat
  BY EmptySeq, LenProperties
<1>2. Plain(<<>>) = <<>> /\ Plain(s) \in Seq(Byte)
  <2>0. Len(s) \in 0 .. Len(s)
    BY <1>1
  <2>1. Decoded(s)[Len(s)] \in Seq(Byte)
    BY <2>0, DecodedTyping
  <2>2. Decoded(<<>>)[0] = <<>>
    BY <1>1, DecodedTyping
  <2> QED
    BY <1>1, <2>1, <2>2 DEF Plain
<1> DEFINE t == Append(s, u)
<1>3. /\ t \in Seq(Unit) /\ Len(t) = Len(s) + 1 /\ t[Len(t)] = u
      /\ \A i \in 1 .. Len(s) : t[i] = s[i]
  BY AppendProperties
<1>4. IsPrefix(s, t)
  <2> HIDE DEF t
  <2> QED
    BY <1>1, <1>3, PrefixByItems
<1> HIDE DEF t
<1>5. Plain(s) = Decoded(t)[Len(t) - 1]
  BY <1>1, <1>3, <1>4, DecodedOfPrefix
<1>6. Len(t) \in 1 .. Len(t)
  BY <1>1, <1>3
<1>7. Decoded(t)[Len(t)] = Decoded(t)[Len(t) - 1] \o t[Len(t)].bytes
  BY <1>3, <1>6, DecodedTyping
<1> QED
  BY <1>2, <1>3, <1>5, <1>7 DEF Plain, t

--------------------------------------------------------------------------------
(* Files.                                                                  *)

\* Of two prefixes of one sequence the shorter is a prefix of the longer.
LEMMA ShorterPrefix ==
  ASSUME NEW S, NEW s \in Seq(S), NEW t \in Seq(S), NEW u \in Seq(S),
         IsPrefix(s, u), IsPrefix(t, u), Len(s) <= Len(t)
  PROVE  IsPrefix(s, t)
<1>1. Len(s) \in Nat /\ Len(t) \in Nat /\ Len(u) \in Nat
  BY LenProperties
<1>2. \A i \in 1 .. Len(s) : s[i] = u[i]
  BY PrefixByItems
<1>3. \A i \in 1 .. Len(t) : t[i] = u[i]
  BY PrefixByItems
<1>4. \A i \in 1 .. Len(s) : s[i] = t[i]
  BY <1>1, <1>2, <1>3
<1> QED
  BY <1>4, PrefixByItems

\* Content is what the file and the buffer hold, and begins with what the file holds.
LEMMA ContentTyping ==
  ASSUME NEW S, NEW f \in Files(S)
  PROVE  /\ f.disk \in Seq(S) /\ f.held \in Seq(S) /\ f.error \in BOOLEAN
         /\ Content(f) \in Seq(S) /\ IsPrefix(f.disk, Content(f))
         /\ f.held = <<>> => Content(f) = f.disk
<1>1. f.disk \in Seq(S) /\ f.held \in Seq(S) /\ f.error \in BOOLEAN
  BY DEF Files
<1>2. f.disk \o f.held \in Seq(S)
  BY <1>1, ConcatProperties
<1>3. IsPrefix(f.disk, f.disk \o f.held)
  BY <1>1, PrefixOfConcat
<1>4. f.disk \o <<>> = f.disk
  BY <1>1, ConcatEmptySeq
<1> QED
  BY <1>1, <1>2, <1>3, <1>4 DEF Content

\* What is on disk stays there while more of all reaches it, up to n.
LEMMA WrittenThrough ==
  ASSUME NEW S, NEW d \in Seq(S), NEW all \in Seq(S), IsPrefix(d, all),
         NEW n \in Len(d) .. Len(all) - 1
  PROVE  /\ SubSeq(all, 1, n) \in Seq(S) /\ SubSeq(all, n + 1, Len(all)) \in Seq(S)
         /\ IsPrefix(d, SubSeq(all, 1, n)) /\ IsPrefix(SubSeq(all, 1, n), all)
         /\ SubSeq(all, 1, n) \o SubSeq(all, n + 1, Len(all)) = all
<1>1. Len(d) \in Nat /\ Len(all) \in Nat
  BY LenProperties
<1>2. n \in 0 .. Len(all) /\ n \in Nat /\ n <= Len(all)
  BY <1>1
<1>3. /\ SubSeq(all, 1, n) \in Seq(S) /\ Len(SubSeq(all, 1, n)) = n
      /\ IsPrefix(SubSeq(all, 1, n), all)
  BY <1>2, FirstItems
<1>4. IsPrefix(d, SubSeq(all, 1, n))
  <2> DEFINE part == SubSeq(all, 1, n)
  <2>1. part \in Seq(S) /\ IsPrefix(part, all) /\ Len(d) <= Len(part)
    BY <1>1, <1>3
  <2>2. IsPrefix(d, all)
    OBVIOUS
  <2> HIDE DEF part
  <2>3. IsPrefix(d, part)
    BY <2>1, <2>2, ShorterPrefix, Zenon
  <2> QED
    BY <2>3 DEF part
<1>5. SubSeq(all, n + 1, Len(all)) \in Seq(S)
  <2>1. \A i \in n + 1 .. Len(all) : all[i] \in S
    BY <1>1, <1>2, ElementOfSeq
  <2>2. n + 1 \in Int /\ Len(all) \in Int
    BY <1>1, <1>2
  <2> QED
    BY <2>1, <2>2, SubSeqProperties
<1>6. SubSeq(all, 1, n) \o SubSeq(all, n + 1, Len(all)) = all
  <2>1. SubSeq(all, 1, n) \o SubSeq(all, n + 1, Len(all)) = SubSeq(all, 1, Len(all))
    BY <1>1, <1>2, ConcatAdjacentSubSeq
  <2> QED
    BY <2>1, SubSeqFull
<1> QED
  BY <1>3, <1>4, <1>5, <1>6

\* fwrite: the file grows towards the content with s behind it, which is the
\* new content unless the error flag is set.
LEMMA FwriteFacts ==
  ASSUME NEW S, NEW f \in Files(S), NEW s \in Seq(S), NEW g \in Fwrite(f, s)
  PROVE  /\ g \in Files(S)
         /\ IsPrefix(f.disk, g.disk) /\ IsPrefix(g.disk, Content(f) \o s)
         /\ ~g.error => Content(g) = Content(f) \o s
<1> DEFINE all == Content(f) \o s
<1>1. /\ f.disk \in Seq(S) /\ f.held \in Seq(S) /\ f.error \in BOOLEAN
      /\ Content(f) \in Seq(S) /\ IsPrefix(f.disk, Content(f))
  BY ContentTyping
<1>2. all \in Seq(S) /\ IsPrefix(Content(f), all)
  BY <1>1, ConcatProperties, PrefixOfConcat
<1>3. IsPrefix(f.disk, all)
  BY <1>1, <1>2, PrefixTransitive
<1>4. IsPrefix(f.disk, f.disk) /\ IsPrefix(all, all) /\ <<>> \in Seq(S)
  BY <1>1, <1>2, PrefixOfConcat, EmptySeq
<1>5. CASE s = <<>> /\ g = f
  <2>1. Content(f) \o s = Content(f)
    BY <1>1, <1>5, ConcatEmptySeq
  <2> QED
    BY <1>3, <1>4, <1>5, <2>1
<1>6. CASE g = [f EXCEPT !.held = @ \o s]
  <2>1. f.held \o s \in Seq(S)
    BY <1>1, ConcatProperties
  <2>2. g.disk = f.disk /\ g.held = f.held \o s /\ g \in Files(S)
    BY <1>6, <2>1 DEF Files
  <2>3. f.disk \o (f.held \o s) = (f.disk \o f.held) \o s
    <3> DEFINE d == f.disk
               h == f.held
    <3>1. d \in Seq(S) /\ h \in Seq(S)
      BY <1>1
    <3> HIDE DEF d, h
    <3>2. (d \o h) \o s = d \o (h \o s)
      BY <3>1, ConcatAssociative
    <3> QED
      BY <3>2 DEF d, h
  <2> QED
    BY <1>3, <1>4, <2>2, <2>3 DEF Content
<1>7. CASE g = [f EXCEPT !.disk = all, !.held = <<>>]
  <2>1. g.disk = all /\ g.held = <<>> /\ g \in Files(S)
    <3> HIDE DEF all
    <3> QED
      BY <1>2, <1>4, <1>7 DEF Files
  <2>2. Content(g) = all
    BY <2>1, ContentTyping
  <2> QED
    BY <1>3, <1>4, <2>1, <2>2
<1>8. ASSUME NEW n \in Len(f.disk) .. Len(all) - 1,
             g = [disk |-> SubSeq(all, 1, n), held |-> <<>>, error |-> TRUE]
      PROVE  g \in Files(S) /\ IsPrefix(f.disk, g.disk) /\ IsPrefix(g.disk, all) /\ g.error
  <2> HIDE DEF all
  <2>1. /\ SubSeq(all, 1, n) \in Seq(S)
        /\ IsPrefix(f.disk, SubSeq(all, 1, n)) /\ IsPrefix(SubSeq(all, 1, n), all)
    BY <1>1, <1>2, <1>3, WrittenThrough
  <2> QED
    BY <1>4, <1>8, <2>1 DEF Files
<1> QED
  BY <1>5, <1>6, <1>7, <1>8 DEF Fwrite

\* fflush: the file grows towards the content, which stays; what is left in the
\* buffer has an error that tells of it.
LEMMA FflushFacts ==
  ASSUME NEW S, NEW f \in Files(S), NEW g \in Fflush(f)
  PROVE  /\ g \in Files(S)
         /\ IsPrefix(f.disk, g.disk) /\ IsPrefix(g.disk, Content(f))
         /\ Content(g) = Content(f)
         /\ g.held # <<>> => g.error
         /\ f.error => g.error
<1> DEFINE all == Content(f)
<1>1. /\ f.disk \in Seq(S) /\ f.held \in Seq(S) /\ f.error \in BOOLEAN
      /\ all \in Seq(S) /\ IsPrefix(f.disk, all)
  BY ContentTyping
<1>2. IsPrefix(all, all) /\ <<>> \in Seq(S)
  BY <1>1, PrefixOfConcat, EmptySeq
<1>3. CASE g = [f EXCEPT !.disk = all, !.held = <<>>]
  <2>1. g.disk = all /\ g.held = <<>> /\ g \in Files(S) /\ g.error = f.error
    <3> HIDE DEF all
    <3> QED
      BY <1>1, <1>2, <1>3 DEF Files
  <2>2. Content(g) = all
    BY <2>1, ContentTyping
  <2> QED
    BY <1>1, <1>2, <2>1, <2>2
<1>4. ASSUME NEW n \in Len(f.disk) .. Len(all) - 1,
             g = [disk |-> SubSeq(all, 1, n), held |-> SubSeq(all, n + 1, Len(all)), error |-> TRUE]
      PROVE  /\ g \in Files(S) /\ IsPrefix(f.disk, g.disk) /\ IsPrefix(g.disk, all) /\ g.error
             /\ Content(g) = all
  <2> HIDE DEF all
  <2>1. /\ SubSeq(all, 1, n) \in Seq(S) /\ SubSeq(all, n + 1, Len(all)) \in Seq(S)
        /\ IsPrefix(f.disk, SubSeq(all, 1, n)) /\ IsPrefix(SubSeq(all, 1, n), all)
        /\ SubSeq(all, 1, n) \o SubSeq(all, n + 1, Len(all)) = all
    BY <1>1, WrittenThrough
  <2> QED
    BY <1>4, <2>1 DEF Files, Content
<1> QED
  BY <1>3, <1>4 DEF Fflush

\* What fread delivers continues what was read before, and is less than CHUNK
\* at the end of the source only.
LEMMA FreadFacts ==
  ASSUME NEW S, NEW s \in Seq(S), NEW p \in 0 .. Len(s), NEW n \in Nat
  PROVE  /\ Fread(s, p, n) \in Seq(S) /\ Len(Fread(s, p, n)) <= n
         /\ p + Len(Fread(s, p, n)) \in p .. Len(s)
         /\ SubSeq(s, 1, p) \o Fread(s, p, n) = SubSeq(s, 1, p + Len(Fread(s, p, n)))
         /\ Len(Fread(s, p, n)) < n => p + Len(Fread(s, p, n)) = Len(s)
<1>1. Len(s) \in Nat
  BY LenProperties
<1> DEFINE e == IF p + n > Len(s) THEN Len(s) ELSE p + n
<1>2. /\ e \in p .. Len(s) /\ e \in Int /\ e - p <= n /\ p \in Nat
      /\ e - p < n => e = Len(s)
  BY <1>1
<1>3. Fread(s, p, n) = SubSeq(s, p + 1, e)
  BY DEF Fread
<1> HIDE DEF e
<1>4. \A i \in p + 1 .. e : s[i] \in S
  BY <1>1, <1>2, ElementOfSeq
<1>5. p + 1 \in Int
  BY <1>2
<1>6. /\ SubSeq(s, p + 1, e) \in Seq(S)
      /\ Len(SubSeq(s, p + 1, e)) = IF p + 1 <= e THEN e - (p + 1) + 1 ELSE 0
  BY <1>2, <1>4, <1>5, SubSeqProperties
<1>7. Len(SubSeq(s, p + 1, e)) = e - p
  BY <1>2, <1>6
<1>8. SubSeq(s, 1, p) \o SubSeq(s, p + 1, e) = SubSeq(s, 1, e)
  <2>1. 1 \in 1 .. Len(s) + 1 /\ p \in 1 - 1 .. Len(s) /\ e \in p .. Len(s)
    BY <1>1, <1>2
  <2> QED
    BY <2>1, ConcatAdjacentSubSeq
<1> QED
  BY <1>1, <1>2, <1>3, <1>6, <1>7, <1>8

--------------------------------------------------------------------------------
(* Streams.                                                                *)

\* What Append put last.
LEMMA AppendedLast ==
  ASSUME NEW S, NEW s \in Seq(S), NEW e \in S
  PROVE  Front(Append(s, e)) = s /\ Last(Append(s, e)) = e /\ IsPrefix(s, Append(s, e))
<1> DEFINE t == Append(s, e)
<1>1. /\ t \in Seq(S) /\ Len(t) = Len(s) + 1 /\ t[Len(s) + 1] = e
      /\ \A i \in 1 .. Len(s) : t[i] = s[i]
  BY AppendProperties
<1> HIDE DEF t
<1>2. Len(s) \in Nat
  BY LenProperties
<1>3. IsPrefix(s, t)
  BY <1>1, <1>2, PrefixByItems
<1>4. s = SubSeq(t, 1, Len(s)) /\ Len(t) - 1 = Len(s)
  BY <1>1, <1>2, <1>3 DEF IsPrefix
<1> QED
  BY <1>1, <1>3, <1>4 DEF Front, Last, t

\* All but the last.
LEMMA FrontIsPrefix ==
  ASSUME NEW S, NEW s \in Seq(S), s # <<>>
  PROVE  /\ Front(s) \in Seq(S) /\ Len(Front(s)) = Len(s) - 1 /\ Len(s) \in Nat \ {0}
         /\ IsPrefix(Front(s), s)
<1>1. Len(s) \in Nat /\ Len(s) # 0
  BY LenProperties, EmptySeq
<1>2. Len(s) - 1 \in 0 .. Len(s)
  BY <1>1
<1> QED
  BY <1>1, <1>2, FirstItems DEF Front

\* The prefixes of a sequence are itself and those of all but the last.
LEMMA ProperPrefix ==
  ASSUME NEW S, NEW s \in Seq(S), NEW t \in Seq(S), IsPrefix(t, s), t # s
  PROVE  s # <<>> /\ IsPrefix(t, Front(s))
<1>1. Len(s) \in Nat /\ Len(t) \in Nat /\ Len(t) <= Len(s)
  BY LenProperties DEF IsPrefix
<1>2. Len(t) # Len(s)
  <2>1. \A i \in 1 .. Len(t) : t[i] = s[i]
    BY PrefixByItems
  <2> QED
    BY <2>1, SeqEqual
<1>3. s # <<>>
  BY <1>1, <1>2, EmptySeq
<1>4. /\ Front(s) \in Seq(S) /\ Len(Front(s)) = Len(s) - 1 /\ IsPrefix(Front(s), s)
  BY <1>3, FrontIsPrefix
<1>5. IsPrefix(t, s) /\ Len(t) <= Len(Front(s))
  BY <1>1, <1>2, <1>4
<1>6. IsPrefix(t, Front(s))
  BY <1>4, <1>5, ShorterPrefix, Zenon
<1> QED
  BY <1>3, <1>6

\* What data units begin with is data units.
LEMMA PrefixIsData ==
  ASSUME NEW s \in Seq(Unit), NEW t \in Seq(Unit), IsPrefix(t, s), IsData(s)
  PROVE  IsData(t)
<1>1. Len(s) \in Nat /\ Len(t) \in Nat /\ DOMAIN s = 1 .. Len(s) /\ DOMAIN t = 1 .. Len(t)
  BY LenProperties
<1>2. Len(t) <= Len(s) /\ \A i \in 1 .. Len(t) : t[i] = s[i]
  BY PrefixByItems
<1> QED
  BY <1>1, <1>2 DEF IsData

\* Whatever part of a stream, or of its data units, has been written is a part
\* of that stream.
LEMMA PartOfStream ==
  ASSUME NEW s \in Seq(Unit), NEW t \in Seq(Unit), NEW bytes \in Seq(Byte),
         IsPrefix(t, s), IsPartOfStream(s, bytes)
  PROVE  IsPartOfStream(t, bytes)
<1>1. ASSUME NEW r \in Seq(Unit), IsPrefix(t, r), IsData(r), IsPrefix(Plain(r), bytes)
      PROVE  IsPartOfStream(t, bytes)
  <2>1. IsData(t)
    BY <1>1, PrefixIsData
  <2>2. Plain(t) \in Seq(Byte) /\ Plain(r) \in Seq(Byte) /\ Bad \in Unit
    <3>1. Bad \in Unit
      BY EmptySeq DEF Bad, Unit
    <3> QED
      BY <3>1, PlainAppend
  <2>3. IsPrefix(Plain(t), Plain(r))
    BY <1>1, PlainOfPrefix
  <2>4. IsPrefix(Plain(t), bytes)
    BY <1>1, <2>2, <2>3, PrefixTransitive
  <2> QED
    BY <2>1, <2>4 DEF IsPartOfStream
<1>2. CASE IsData(s) /\ IsPrefix(Plain(s), bytes)
  BY <1>1, <1>2
<1>3. CASE IsStream(s, bytes) /\ t = s
  BY <1>3 DEF IsPartOfStream
<1>4. CASE IsStream(s, bytes) /\ t # s
  <2>1. s # <<>> /\ IsPrefix(t, Front(s))
    BY <1>4, ProperPrefix
  <2>2. Front(s) \in Seq(Unit)
    BY <2>1, FrontIsPrefix
  <2>3. IsData(Front(s)) /\ Plain(Front(s)) = bytes
    BY <1>4 DEF IsStream
  <2>4. IsPrefix(Plain(Front(s)), bytes)
    BY <2>3, PrefixOfConcat, EmptySeq
  <2> QED
    BY <1>1, <2>1, <2>2, <2>3, <2>4
<1> QED
  BY <1>2, <1>3, <1>4 DEF IsPartOfStream

\* One data unit more.
LEMMA DataAppend ==
  ASSUME NEW s \in Seq(Unit), IsData(s), NEW bytes \in Seq(Byte)
  PROVE  /\ Data(bytes) \in Unit /\ Append(s, Data(bytes)) \in Seq(Unit)
         /\ IsData(Append(s, Data(bytes)))
         /\ Plain(Append(s, Data(bytes))) = Plain(s) \o bytes
<1> DEFINE u == Data(bytes)
<1>1. u \in Unit /\ u.kind = "data" /\ u.bytes = bytes
  BY DEF Unit, Data
<1> HIDE DEF u
<1>2. Plain(Append(s, u)) = Plain(s) \o bytes
  BY <1>1, PlainAppend
<1> DEFINE t == Append(s, u)
<1>3. /\ t \in Seq(Unit) /\ Len(t) = Len(s) + 1 /\ t[Len(s) + 1] = u
      /\ \A i \in 1 .. Len(s) : t[i] = s[i]
  BY <1>1, AppendProperties
<1> HIDE DEF t
<1>4. Len(s) \in Nat /\ DOMAIN s = 1 .. Len(s) /\ DOMAIN t = 1 .. Len(t)
  BY <1>3, LenProperties
<1>5. IsData(t)
  BY <1>1, <1>3, <1>4 DEF IsData
<1> QED
  BY <1>1, <1>2, <1>3, <1>5 DEF t, u

\* The end unit completes a stream of what its data units decode to.
LEMMA EndAppend ==
  ASSUME NEW s \in Seq(Unit), IsData(s)
  PROVE  /\ End(Plain(s)) \in Unit /\ Append(s, End(Plain(s))) \in Seq(Unit)
         /\ IsStream(Append(s, End(Plain(s))), Plain(s))
<1> DEFINE u == End(Plain(s))
<1>1. Bad \in Unit
  BY EmptySeq DEF Bad, Unit
<1>2. Plain(s) \in Seq(Byte)
  BY <1>1, PlainAppend
<1>3. u \in Unit
  BY <1>2 DEF End, Unit
<1> HIDE DEF u
<1>4. /\ Append(s, u) \in Seq(Unit) /\ Append(s, u) # <<>>
      /\ Front(Append(s, u)) = s /\ Last(Append(s, u)) = u
  BY <1>3, AppendProperties, AppendedLast
<1> QED
  BY <1>3, <1>4 DEF IsStream, u
================================================================================
