------------------------------ MODULE ZlibInfProofs -----------------------------
(***************************************************************************)
(* Theorems about inf, for every source file, sound or not, and every      *)
(* CHUNK: inf implements Filter, and refuses nothing without a reason.     *)
(*                                                                         *)
(* The inductive invariant says what each buffer holds: the units read and *)
(* not in the in buffer are the ones inflate has decoded (Reading,         *)
(* Decoding), and the bytes inflate has given out are in the out buffer or *)
(* in the content of dest (Giving).  Why a loop was left and what the      *)
(* return code means then is Control.                                      *)
(***************************************************************************)
EXTENDS ZlibInf, ZlibLemmas

\* How many units of the source inflate has used up.
Taken == pos - Len(in)

\* What inflate has given out and fwrite has not taken yet.
Unwritten == IF pc \in {"inflate", "check", "write"} THEN out ELSE <<>>

Reading == Len(in) <= pos /\ SubSeq(source, 1, Taken) \o in = SubSeq(source, 1, pos)

Decoding ==
  IF z.ended THEN IsStream(SubSeq(source, 1, Taken), z.decoded)
  ELSE IsData(SubSeq(source, 1, Taken)) /\ Plain(SubSeq(source, 1, Taken)) = z.decoded

Giving == pc # "returned" => Content(dest) \o Unwritten = SubSeq(z.decoded, 1, z.given)

\* The next unit is neither data nor the end that the data so far demand.
Rejected == /\ ~Pending /\ ~z.ended /\ in # <<>>
            /\ Head(in).kind # "data" /\ Head(in) # End(z.decoded)

\* What the position in the loops says of the buffers, of inflate's state and
\* of its return code.
Control ==
  /\ pc = "returned" <=> result # "none"
  /\ pc \in {"init", "read"} => in = <<>> /\ ~z.ended /\ ret \in {"Z_OK", "Z_BUF_ERROR"}
  /\ z.ended => ~Pending
  /\ pc \in {"check", "write"} /\ ret = "Z_STREAM_END" => z.ended
  /\ pc \in {"check", "write"} /\ ret \in {"Z_OK", "Z_BUF_ERROR"}
       => ~z.ended /\ (avail_out = 0 \/ in = <<>>)
  /\ pc = "check" /\ ret \in {"Z_NEED_DICT", "Z_DATA_ERROR"} => Rejected
  /\ pc = "check" /\ ret = "Z_MEM_ERROR" => failed
  /\ pc = "write" => ret \notin Fatal

OnDisk == IsPrefix(dest.disk, Plain(Leading(source)))

IInv == TypeOK /\ Reading /\ Decoding /\ Giving /\ Control /\ OnDisk /\ SoundIsAccepted

--------------------------------------------------------------------------------
(* Where the data units that a sequence begins with end.                   *)

\* The first n units are data.
LEMMA DataUpTo ==
  ASSUME NEW s \in Seq(Unit), NEW n \in 0 .. Len(s)
  PROVE  IsData(SubSeq(s, 1, n)) <=> \A i \in 1 .. n : s[i].kind = "data"
<1>1. /\ SubSeq(s, 1, n) \in Seq(Unit) /\ Len(SubSeq(s, 1, n)) = n
      /\ \A i \in 1 .. n : SubSeq(s, 1, n)[i] = s[i]
  BY FirstItems
<1>2. DOMAIN SubSeq(s, 1, n) = 1 .. n
  BY <1>1, LenProperties
<1> QED
  BY <1>1, <1>2 DEF IsData

\* Leading ends at the first unit that is no data.
LEMMA LeadingIs ==
  ASSUME NEW s \in Seq(Unit), NEW n \in 0 .. Len(s), IsData(SubSeq(s, 1, n)),
         n < Len(s) => s[n + 1].kind # "data"
  PROVE  Leading(s) = SubSeq(s, 1, n)
<1> DEFINE ends(k) == IsData(SubSeq(s, 1, k)) /\ (k < Len(s) => s[k + 1].kind # "data")
<1>1. Len(s) \in Nat
  BY LenProperties
<1>2. ends(n)
  OBVIOUS
<1>3. ASSUME NEW k \in 0 .. Len(s), ends(k) PROVE k = n
  <2>1. \A i \in 1 .. n : s[i].kind = "data"
    BY DataUpTo
  <2>2. \A i \in 1 .. k : s[i].kind = "data"
    BY <1>3, DataUpTo
  <2>3. ~(k < n)
    <3>1. k < n => k + 1 \in 1 .. n /\ k < Len(s)
      BY <1>1
    <3> QED
      BY <1>3, <2>1, <3>1
  <2>4. ~(n < k)
    <3>1. n < k => n + 1 \in 1 .. k /\ n < Len(s)
      BY <1>1
    <3> QED
      BY <1>2, <2>2, <3>1
  <2> QED
    BY <1>1, <2>3, <2>4
<1> HIDE DEF ends
<1>4. (CHOOSE k \in 0 .. Len(s) : ends(k)) = n
  BY <1>2, <1>3
<1> QED
  BY <1>4 DEF Leading, ends

\* There is such a unit, or all are data.
LEMMA LeadingFacts ==
  ASSUME NEW s \in Seq(Unit)
  PROVE  \E n \in 0 .. Len(s) :
           /\ Leading(s) = SubSeq(s, 1, n) /\ IsData(SubSeq(s, 1, n))
           /\ n < Len(s) => s[n + 1].kind # "data"
<1> DEFINE Others == {i \in 1 .. Len(s) : s[i].kind # "data"}
<1>1. Len(s) \in Nat
  BY LenProperties
<1>2. PICK n \in 0 .. Len(s) : /\ \A i \in 1 .. n : s[i].kind = "data"
                               /\ n < Len(s) => s[n + 1].kind # "data"
  <2>1. CASE Others = {}
    <3>1. Len(s) \in 0 .. Len(s) /\ \A i \in 1 .. Len(s) : s[i].kind = "data"
      BY <1>1, <2>1
    <3> QED
      BY <1>1, <3>1
  <2>2. CASE Others # {}
    <3>1. Others \in SUBSET Nat
      BY <1>1
    <3>2. PICK m \in Others : \A k \in Others : m <= k
      <4> HIDE DEF Others
      <4> QED
        BY <2>2, <3>1, LeastNat
    <3>3. /\ m - 1 \in 0 .. Len(s) /\ (m - 1) + 1 = m /\ s[m].kind # "data"
          /\ \A i \in 1 .. m - 1 : i \in 1 .. Len(s) /\ ~(m <= i)
      BY <1>1, <3>2
    <3>4. \A i \in 1 .. m - 1 : s[i].kind = "data"
      BY <3>2, <3>3
    <3> QED
      BY <3>3, <3>4
  <2> QED
    BY <2>1, <2>2
<1>3. IsData(SubSeq(s, 1, n))
  BY <1>2, DataUpTo
<1>4. Leading(s) = SubSeq(s, 1, n)
  BY <1>2, <1>3, LeadingIs
<1> QED
  BY <1>2, <1>3, <1>4

\* What the units at the beginning decode to, while they are data, is the
\* beginning of what all the leading ones decode to.
LEMMA DataIsLeading ==
  ASSUME NEW s \in Seq(Unit), NEW n \in 0 .. Len(s), IsData(SubSeq(s, 1, n))
  PROVE  IsPrefix(Plain(SubSeq(s, 1, n)), Plain(Leading(s)))
<1>1. PICK m \in 0 .. Len(s) :
        /\ Leading(s) = SubSeq(s, 1, m) /\ IsData(SubSeq(s, 1, m))
        /\ m < Len(s) => s[m + 1].kind # "data"
  BY LeadingFacts
<1>2. Len(s) \in Nat
  BY LenProperties
<1>3. \A i \in 1 .. n : s[i].kind = "data"
  BY DataUpTo
<1>4. n <= m
  <2>1. m < n => m + 1 \in 1 .. n /\ m < Len(s)
    BY <1>2
  <2> QED
    BY <1>1, <1>2, <1>3, <2>1
<1> DEFINE a == SubSeq(s, 1, n)
           b == SubSeq(s, 1, m)
<1>5. a \in Seq(Unit) /\ b \in Seq(Unit) /\ Len(a) = n /\ Len(b) = m /\ IsPrefix(a, s) /\ IsPrefix(b, s)
  BY FirstItems
<1> HIDE DEF a, b
<1>6. Len(a) <= Len(b)
  BY <1>4, <1>5
<1>7. IsPrefix(a, b)
  BY <1>5, <1>6, ShorterPrefix, Zenon
<1>8. IsPrefix(Plain(a), Plain(b))
  BY <1>5, <1>7, PlainOfPrefix
<1> QED
  BY <1>1, <1>8 DEF a, b

\* Where a stream that the source begins with ends, and what it is a stream of.
LEMMA StreamIsLeading ==
  ASSUME NEW s \in Seq(Unit), NEW n \in 0 .. Len(s), NEW bytes, IsStream(SubSeq(s, 1, n), bytes)
  PROVE  /\ n >= 1 /\ s[n] = End(bytes) /\ IsData(SubSeq(s, 1, n - 1))
         /\ Leading(s) = SubSeq(s, 1, n - 1) /\ Plain(Leading(s)) = bytes
<1>1. Len(s) \in Nat
  BY LenProperties
<1> DEFINE a == SubSeq(s, 1, n)
<1>2. a \in Seq(Unit) /\ Len(a) = n /\ IsPrefix(a, s) /\ \A i \in 1 .. n : a[i] = s[i]
  BY FirstItems
<1>3. a # <<>> /\ Last(a) = End(bytes) /\ IsData(Front(a)) /\ Plain(Front(a)) = bytes
  BY DEF IsStream
<1> HIDE DEF a
<1>4. /\ Front(a) \in Seq(Unit) /\ Len(Front(a)) = n - 1 /\ n >= 1 /\ IsPrefix(Front(a), a)
  BY <1>2, <1>3, FrontIsPrefix
<1>5. s[n] = End(bytes)
  BY <1>2, <1>3, <1>4 DEF Last
<1>6. Front(a) = SubSeq(s, 1, n - 1)
  <2>1. IsPrefix(Front(a), s)
    BY <1>2, <1>4, PrefixTransitive
  <2> QED
    BY <1>4, <2>1 DEF IsPrefix
<1>7. n - 1 \in 0 .. Len(s) /\ (n - 1) + 1 = n /\ s[n].kind # "data"
  BY <1>1, <1>4, <1>5 DEF End
<1>8. Leading(s) = SubSeq(s, 1, n - 1)
  BY <1>3, <1>6, <1>7, LeadingIs
<1> QED
  BY <1>3, <1>4, <1>5, <1>6, <1>8

--------------------------------------------------------------------------------

\* The types in the form in which the proofs below use them.
LEMMA Types ==
  ASSUME TypeOK
  PROVE  /\ source \in Seq(Unit) /\ Len(source) \in Nat /\ pos \in 0 .. Len(source)
         /\ in \in Seq(Unit) /\ Len(in) \in Nat
         /\ out \in Seq(Byte) /\ Len(out) \in Nat
         /\ z.decoded \in Seq(Byte) /\ Len(z.decoded) \in Nat
         /\ z.given \in 0 .. Len(z.decoded) /\ z.given \in Nat
         /\ z.live \in BOOLEAN /\ z.ended \in BOOLEAN
         /\ dest \in Files(Byte) /\ Content(dest) \in Seq(Byte) /\ dest.disk \in Seq(Byte)
         /\ CHUNK \in Nat \ {0}
<1>1. /\ source \in Seq(Unit) /\ pos \in 0 .. Len(source)
      /\ in \in Seq(Unit) /\ out \in Seq(Byte) /\ dest \in Files(Byte)
  BY SourcesAssumption DEF TypeOK
<1>2. /\ z.decoded \in Seq(Byte) /\ z.given \in Nat /\ z.given <= Len(z.decoded)
      /\ z.live \in BOOLEAN /\ z.ended \in BOOLEAN
  BY DEF TypeOK
<1>3. Len(source) \in Nat /\ Len(in) \in Nat /\ Len(out) \in Nat /\ Len(z.decoded) \in Nat
  BY <1>1, <1>2, LenProperties
<1>4. Content(dest) \in Seq(Byte) /\ dest.disk \in Seq(Byte)
  BY <1>1, ContentTyping
<1>5. z.given \in 0 .. Len(z.decoded)
  BY <1>2, <1>3
<1> QED
  BY <1>1, <1>2, <1>3, <1>4, <1>5, ChunkAssumption

\* How much has been used up is a number of units of the source, and while
\* there is input left the next unit is the head of it.
LEMMA NextUnit ==
  ASSUME TypeOK, Reading
  PROVE  /\ Taken \in 0 .. Len(source)
         /\ in = <<>> => Taken = pos
         /\ in # <<>> => /\ Taken < Len(source) /\ Head(in) = source[Taken + 1] /\ Head(in) \in Unit
                        /\ Tail(in) \in Seq(Unit) /\ Len(Tail(in)) = Len(in) - 1
                        /\ SubSeq(source, 1, Taken + 1) = Append(SubSeq(source, 1, Taken), Head(in))
                        /\ SubSeq(source, 1, Taken + 1) \o Tail(in) = SubSeq(source, 1, pos)
<1>1. /\ source \in Seq(Unit) /\ Len(source) \in Nat /\ pos \in 0 .. Len(source)
      /\ in \in Seq(Unit) /\ Len(in) \in Nat /\ Len(in) <= pos
  BY Types DEF Reading
<1>2. Taken \in 0 .. Len(source) /\ Taken + Len(in) = pos
  BY <1>1 DEF Taken
<1>3. in = <<>> => Taken = pos
  BY <1>1, <1>2, EmptySeq
<1>4. ASSUME in # <<>>
      PROVE  /\ Taken < Len(source) /\ Head(in) = source[Taken + 1] /\ Head(in) \in Unit
             /\ Tail(in) \in Seq(Unit) /\ Len(Tail(in)) = Len(in) - 1
             /\ SubSeq(source, 1, Taken + 1) = Append(SubSeq(source, 1, Taken), Head(in))
             /\ SubSeq(source, 1, Taken + 1) \o Tail(in) = SubSeq(source, 1, pos)
  <2>1. Len(in) # 0
    BY <1>1, <1>4, EmptySeq
  <2>2. Taken < Len(source) /\ Taken + 1 \in 1 .. pos
    BY <1>1, <1>2, <2>1
  <2> DEFINE a == SubSeq(source, 1, Taken)
             b == SubSeq(source, 1, pos)
  <2>3. a \in Seq(Unit) /\ Len(a) = Taken
    BY <1>1, <1>2, FirstItems
  <2>4. b \in Seq(Unit) /\ \A i \in 1 .. pos : b[i] = source[i]
    BY <1>1, FirstItems
  <2>5. a \o in = b
    BY DEF Reading
  <2> HIDE DEF a, b
  <2>6. /\ Head(in) \in Unit /\ Tail(in) \in Seq(Unit) /\ Len(Tail(in)) = Len(in) - 1
        /\ Append(a, Head(in)) \o Tail(in) = a \o in
    BY <1>1, <1>4, <2>3, MoveHead
  <2>7. Head(in) = in[1]
    BY <1>1, <1>4
  <2>8. \A i \in 1 .. Len(a) + Len(in) : (a \o in)[i] = IF i <= Len(a) THEN a[i] ELSE in[i - Len(a)]
    BY <1>1, <2>3, ConcatProperties
  <2>9. /\ Taken + 1 \in 1 .. Len(a) + Len(in) /\ ~(Taken + 1 <= Len(a))
        /\ (Taken + 1) - Len(a) = 1
    BY <1>1, <1>2, <2>2, <2>3
  <2>10. (a \o in)[Taken + 1] = in[1]
    BY <2>8, <2>9
  <2>11. Head(in) = source[Taken + 1]
    BY <2>2, <2>4, <2>5, <2>7, <2>10
  <2>12. SubSeq(source, 1, Taken + 1) = Append(a, source[Taken + 1])
    BY <1>1, <1>2, <2>2, OneMore DEF a
  <2>13. /\ SubSeq(source, 1, Taken + 1) = Append(a, Head(in))
         /\ SubSeq(source, 1, Taken + 1) \o Tail(in) = b
    BY <2>5, <2>6, <2>11, <2>12
  <2> QED
    BY <2>2, <2>6, <2>11, <2>13 DEF a, b
<1> QED
  BY <1>2, <1>3, <1>4

\* What has been decoded is the beginning of what the source decodes to, all of
\* it if inflate has seen the end or stopped at a unit that is no data.
LEMMA DecodedOfSource ==
  ASSUME IInv
  PROVE  /\ IsPrefix(z.decoded, Plain(Leading(source))) /\ Plain(Leading(source)) \in Seq(Byte)
         /\ z.ended => Plain(Leading(source)) = z.decoded
         /\ Rejected => ~BeginsWithStream(source, Plain(Leading(source)))
         /\ ~z.ended /\ Taken = Len(source) => ~BeginsWithStream(source, Plain(Leading(source)))
<1> DEFINE P == Plain(Leading(source))
<1>1. source \in Seq(Unit) /\ Len(source) \in Nat /\ Taken \in 0 .. Len(source) /\ z.decoded \in Seq(Byte)
  BY Types, NextUnit DEF IInv
<1>2. P \in Seq(Byte)
  <2>1. PICK n \in 0 .. Len(source) : Leading(source) = SubSeq(source, 1, n)
    BY <1>1, LeadingFacts
  <2>2. SubSeq(source, 1, n) \in Seq(Unit) /\ Bad \in Unit
    <3>1. SubSeq(source, 1, n) \in Seq(Unit)
      BY <1>1, FirstItems
    <3>2. Bad \in Unit
      BY EmptySeq DEF Bad, Unit
    <3> QED
      BY <3>1, <3>2
  <2> QED
    BY <2>1, <2>2, PlainAppend
<1>3. CASE z.ended
  <2>1. IsStream(SubSeq(source, 1, Taken), z.decoded)
    BY <1>3 DEF IInv, Decoding
  <2>2. P = z.decoded
    BY <1>1, <2>1, StreamIsLeading
  <2>3. IsPrefix(z.decoded, z.decoded)
    BY <1>1, PrefixOfConcat, EmptySeq
  <2> QED
    BY <1>2, <1>3, <2>2, <2>3 DEF Rejected
<1>4. CASE ~z.ended
  <2>1. IsData(SubSeq(source, 1, Taken)) /\ Plain(SubSeq(source, 1, Taken)) = z.decoded
    BY <1>4 DEF IInv, Decoding
  <2>2. IsPrefix(z.decoded, P)
    BY <1>1, <2>1, DataIsLeading
  <2>3. ASSUME NEW n \in 0 .. Len(source), IsStream(SubSeq(source, 1, n), P)
        PROVE  /\ n >= 1 /\ source[n] = End(P) /\ source[n].kind # "data"
               /\ IsData(SubSeq(source, 1, n - 1)) /\ n - 1 \in 0 .. Len(source)
               /\ Leading(source) = SubSeq(source, 1, n - 1)
    <3>1. /\ n >= 1 /\ source[n] = End(P) /\ IsData(SubSeq(source, 1, n - 1))
          /\ Leading(source) = SubSeq(source, 1, n - 1)
      BY <1>1, <2>3, StreamIsLeading
    <3> QED
      BY <1>1, <3>1 DEF End
  <2>4. \A i \in 1 .. Taken : source[i].kind = "data"
    BY <1>1, <2>1, DataUpTo
  <2>5. ASSUME Taken = Len(source), BeginsWithStream(source, P) PROVE FALSE
    <3>1. PICK n \in 0 .. Len(source) : IsStream(SubSeq(source, 1, n), P)
      BY <2>5 DEF BeginsWithStream
    <3>2. n >= 1 /\ source[n].kind # "data"
      BY <2>3, <3>1
    <3> QED
      BY <1>1, <2>4, <2>5, <3>2
  <2>6. ASSUME Rejected, BeginsWithStream(source, P) PROVE FALSE
    <3>1. PICK n \in 0 .. Len(source) : IsStream(SubSeq(source, 1, n), P)
      BY <2>6 DEF BeginsWithStream
    <3>2. /\ n >= 1 /\ source[n] = End(P) /\ IsData(SubSeq(source, 1, n - 1))
          /\ source[n].kind # "data" /\ n - 1 \in 0 .. Len(source)
      BY <2>3, <3>1
    <3>3. /\ in # <<>> /\ Head(in).kind # "data" /\ Head(in) # End(z.decoded)
          /\ Head(in) = source[Taken + 1] /\ Taken < Len(source)
      BY <2>6, NextUnit DEF Rejected, IInv
    <3>4. Leading(source) = SubSeq(source, 1, Taken)
      BY <1>1, <2>1, <3>3, LeadingIs
    <3>5. P = z.decoded
      BY <2>1, <3>4
    <3>6. \A i \in 1 .. n - 1 : source[i].kind = "data"
      BY <1>1, <3>2, DataUpTo
    <3>7. ~(Taken + 1 < n) /\ ~(n < Taken + 1)
      <4>1. Taken + 1 < n => Taken + 1 \in 1 .. n - 1
        BY <1>1
      <4>2. n < Taken + 1 => n \in 1 .. Taken
        BY <1>1, <3>2
      <4> QED
        BY <2>4, <3>2, <3>3, <3>6, <4>1, <4>2
    <3>8. n = Taken + 1
      BY <1>1, <3>7
    <3> QED
      BY <3>2, <3>3, <3>5, <3>8
  <2> QED
    BY <1>2, <1>4, <2>2, <2>5, <2>6
<1> QED
  BY <1>3, <1>4

\* Init establishes the invariant.
LEMMA InitInvariant == Init => IInv
<1> SUFFICES ASSUME Init PROVE IInv
  OBVIOUS
<1>1. /\ pc = "init" /\ source \in Sources /\ pos = 0 /\ in = <<>> /\ out = <<>>
      /\ z = [live |-> FALSE, decoded |-> <<>>, given |-> 0, ended |-> FALSE]
      /\ ret = "Z_OK" /\ result = "none" /\ failed = FALSE
      /\ dest = [disk |-> <<>>, held |-> <<>>, error |-> FALSE]
  BY DEF Init, Output
<1>2. source \in Seq(Unit) /\ Len(source) \in Nat
  BY <1>1, SourcesAssumption, LenProperties
<1>3. <<>> \in Seq(Byte) /\ <<>> \in Seq(Unit) /\ Len(<<>>) = 0
  BY EmptySeq
<1>4. dest \in Files(Byte)
  BY <1>1, <1>3 DEF Files
<1>6. z.decoded = <<>> /\ z.given = 0 /\ z.ended = FALSE
  BY <1>1
<1>5. TypeOK
  <2>1. Len(in) = 0 /\ Len(out) = 0 /\ Len(z.decoded) = 0
    BY <1>1, <1>3, <1>6
  <2>2. z \in [live : BOOLEAN, decoded : Seq(Byte), given : Nat, ended : BOOLEAN]
    BY <1>1, <1>3
  <2>3. 0 <= CHUNK /\ pos \in 0 .. Len(source) /\ z.given <= 0
    BY <1>1, <1>2, <1>6, ChunkAssumption
  <2> QED
    BY <1>1, <1>3, <1>4, <2>1, <2>2, <2>3 DEF TypeOK, Fatal
<1>7. SubSeq(source, 1, 0) = <<>> /\ SubSeq(<<>>, 1, 0) = <<>> /\ <<>> \o <<>> = <<>>
  BY <1>2, SubSeqEmpty, ConcatEmptySeq, EmptySeq
<1>8. Taken = 0 /\ Len(in) <= pos
  <2>1. Len(in) = 0 /\ pos = 0
    BY <1>1, <1>3
  <2> QED
    BY <2>1 DEF Taken
<1>9. Reading
  BY <1>1, <1>7, <1>8 DEF Reading
<1>10. Control
  BY <1>1, <1>6 DEF Control, Pending
<1>11. Giving
  BY <1>1, <1>6, <1>7 DEF Giving, Content, Unwritten
<1>12. IsData(<<>>) /\ Plain(<<>>) = <<>>
  <2>1. Bad \in Unit
    BY EmptySeq DEF Bad, Unit
  <2>2. Plain(<<>>) = <<>>
    BY <1>3, <2>1, PlainAppend
  <2>3. DOMAIN <<>> = 1 .. Len(<<>>)
    BY <1>3, LenProperties, Zenon
  <2>4. IsData(<<>>)
    BY <1>3, <2>3 DEF IsData
  <2> QED
    BY <2>2, <2>4
<1>13. Decoding
  BY <1>6, <1>7, <1>8, <1>12 DEF Decoding
<1>14. OnDisk
  <2>1. SubSeq(Plain(Leading(source)), 1, 0) = <<>> /\ Len(Plain(Leading(source))) >= 0
    <3>1. SubSeq(source, 1, 0) = <<>> /\ 0 \in 0 .. Len(source)
      BY <1>2, <1>7
    <3>2. IsPrefix(Plain(SubSeq(source, 1, 0)), Plain(Leading(source)))
      BY <1>2, <1>7, <1>12, <3>1, DataIsLeading
    <3>3. IsPrefix(<<>>, Plain(Leading(source)))
      BY <1>7, <1>12, <3>2
    <3> QED
      BY <1>3, <3>3 DEF IsPrefix
  <2> QED
    BY <1>1, <1>3, <2>1 DEF OnDisk, IsPrefix
<1>15. SoundIsAccepted
  BY <1>1 DEF SoundIsAccepted, Ended
<1> QED
  BY <1>5, <1>9, <1>10, <1>11, <1>13, <1>14, <1>15 DEF IInv

--------------------------------------------------------------------------------
(* The steps before a call of inflate.                                     *)

\* What of the invariant a step leaves alone that moves no unit and no byte.
LEMMA NothingMoves ==
  ASSUME IInv, pc # "returned", UNCHANGED <<source, pos, in, dest>>,
         z'.decoded = z.decoded, z'.ended = z.ended, z'.given = z.given,
         pc' # "returned" => Unwritten' = Unwritten
  PROVE  Reading' /\ Decoding' /\ Giving' /\ OnDisk'
<1>1. Taken' = Taken
  BY DEF Taken
<1>2. Reading' /\ Decoding'
  BY <1>1 DEF IInv, Reading, Decoding
<1>3. Giving'
  BY DEF IInv, Giving, Content
<1> QED
  BY <1>2, <1>3 DEF IInv, OnDisk

\* What a return leaves alone.
LEMMA ReturnKeeps ==
  ASSUME IInv, pc # "returned", NEW code \in {"Z_OK", "Z_ERRNO", "Z_DATA_ERROR"} \cup InitErrors,
         Return(code), UNCHANGED <<source, pos, in, ret, dest>>,
         out' \in {out, <<>>}, failed' \in BOOLEAN, failed => failed',
         ~failed' /\ ~dest.error => \/ code = "Z_OK"
                                  \/ ~BeginsWithStream(source, Plain(Leading(source)))
  PROVE  IInv'
<1>1. pc' = "returned" /\ result' = code /\ z' = [z EXCEPT !.live = FALSE]
  BY DEF Return
<1>2. /\ z'.decoded = z.decoded /\ z'.ended = z.ended /\ z'.given = z.given
      /\ z' \in [live : BOOLEAN, decoded : Seq(Byte), given : Nat, ended : BOOLEAN]
  BY <1>1 DEF IInv, TypeOK
<1>3. out' \in Seq(Byte) /\ Len(out') <= CHUNK
  <2>1. <<>> \in Seq(Byte) /\ Len(<<>>) = 0
    BY EmptySeq
  <2>2. 0 <= CHUNK
    BY ChunkAssumption
  <2>3. CASE out' = out
    BY <2>3 DEF IInv, TypeOK
  <2>4. CASE out' = <<>>
    BY <2>1, <2>2, <2>4
  <2> QED
    BY <2>3, <2>4
<1>4. TypeOK'
  BY <1>1, <1>2, <1>3 DEF IInv, TypeOK
<1>5. Reading' /\ Decoding' /\ Giving' /\ OnDisk'
  BY <1>1, <1>2, NothingMoves
<1>6. Control'
  BY <1>1, <1>2 DEF IInv, Control, Pending, InitErrors
<1>7. SoundIsAccepted'
  BY <1>1 DEF SoundIsAccepted, Ended
<1> QED
  BY <1>4, <1>5, <1>6, <1>7 DEF IInv

\* inflateInit keeps it.
LEMMA InflateInitKeeps ==
  ASSUME IInv, InflateInit
  PROVE  IInv'
<1>1. pc = "init" /\ UNCHANGED <<source, pos, in, out, ret, dest>>
  BY DEF InflateInit
<1>2. CASE (\E code \in InitErrors : Return(code)) /\ failed' = TRUE
  <2>1. PICK code \in InitErrors : Return(code)
    BY <1>2
  <2> QED
    BY <1>1, <1>2, <2>1, ReturnKeeps
<1>3. CASE pc' = "read" /\ z' = [z EXCEPT !.live = TRUE] /\ UNCHANGED <<result, failed>>
  <2>1. /\ z'.decoded = z.decoded /\ z'.ended = z.ended /\ z'.given = z.given
        /\ z' \in [live : BOOLEAN, decoded : Seq(Byte), given : Nat, ended : BOOLEAN]
    BY <1>3 DEF IInv, TypeOK
  <2>2. TypeOK'
    BY <1>1, <1>3, <2>1 DEF IInv, TypeOK
  <2>3. Reading' /\ Decoding' /\ Giving' /\ OnDisk'
    BY <1>1, <1>3, <2>1, NothingMoves DEF Unwritten
  <2>4. Control'
    BY <1>1, <1>3, <2>1 DEF IInv, Control, Pending
  <2>5. SoundIsAccepted'
    BY <1>1, <1>3 DEF IInv, Control, SoundIsAccepted, Ended
  <2> QED
    BY <2>2, <2>3, <2>4, <2>5 DEF IInv
<1> QED
  BY <1>2, <1>3 DEF InflateInit

\* So does fread.
LEMMA ReadChunkKeeps ==
  ASSUME IInv, ReadChunk
  PROVE  IInv'
<1>1. pc = "read" /\ UNCHANGED <<source, ret, dest>>
  BY DEF ReadChunk
<1>2. in = <<>> /\ ~z.ended /\ ret # "Z_STREAM_END" /\ result = "none"
  BY <1>1 DEF IInv, Control
<1> DEFINE chunk == Fread(source, pos, CHUNK)
<1>3. /\ source \in Seq(Unit) /\ Len(source) \in Nat /\ pos \in 0 .. Len(source)
      /\ CHUNK \in Nat \ {0}
  BY Types DEF IInv
<1>4. /\ chunk \in Seq(Unit) /\ Len(chunk) <= CHUNK /\ pos + Len(chunk) \in pos .. Len(source)
      /\ SubSeq(source, 1, pos) \o chunk = SubSeq(source, 1, pos + Len(chunk))
      /\ Len(chunk) < CHUNK => pos + Len(chunk) = Len(source)
  BY <1>3, FreadFacts
<1>5. Taken = pos
  BY <1>2, NextUnit DEF IInv
<1>6. CASE Return("Z_ERRNO") /\ failed' = TRUE /\ UNCHANGED <<pos, in, out>>
  BY <1>1, <1>6, ReturnKeeps
<1> HIDE DEF chunk
<1>7. CASE /\ in' = chunk /\ pos' = pos + Len(chunk) /\ chunk = <<>>
           /\ Return(FinalCode) /\ UNCHANGED <<out, failed>>
  <2>1. Len(chunk) = 0
    BY <1>7, EmptySeq
  <2>2. pos' = pos /\ in' = in /\ Taken = Len(source)
    BY <1>2, <1>3, <1>4, <1>5, <1>7, <2>1
  <2>3. FinalCode = "Z_DATA_ERROR"
    BY <1>2 DEF FinalCode
  <2>4. ~BeginsWithStream(source, Plain(Leading(source)))
    BY <1>2, <2>2, DecodedOfSource
  <2>5. failed' \in BOOLEAN
    BY <1>7 DEF IInv, TypeOK
  <2> QED
    BY <1>1, <1>7, <2>2, <2>3, <2>4, <2>5, ReturnKeeps
<1>8. CASE /\ in' = chunk /\ pos' = pos + Len(chunk)
           /\ pc' = "inflate" /\ out' = <<>> /\ UNCHANGED <<z, result, failed>>
  <2>1. <<>> \in Seq(Byte) /\ Len(<<>>) = 0 /\ Len(chunk) \in Nat
    BY <1>4, EmptySeq, LenProperties
  <2>2. TypeOK'
    BY <1>1, <1>3, <1>4, <1>8, <2>1 DEF IInv, TypeOK
  <2>3. Taken' = Taken
    BY <1>3, <1>5, <1>8, <2>1 DEF Taken
  <2>4. Reading'
    <3>1. Len(chunk) <= pos + Len(chunk)
      BY <1>3, <2>1
    <3> QED
      BY <1>1, <1>4, <1>5, <1>8, <2>3, <3>1 DEF Reading
  <2>5. Decoding' /\ OnDisk'
    BY <1>1, <1>8, <2>3 DEF IInv, Decoding, OnDisk
  <2>6. Giving'
    BY <1>1, <1>8 DEF IInv, Giving, Unwritten, Content
  <2>7. Control'
    BY <1>1, <1>2, <1>8 DEF IInv, Control, Pending
  <2>8. SoundIsAccepted'
    BY <1>2, <1>8 DEF SoundIsAccepted, Ended
  <2> QED
    BY <2>2, <2>4, <2>5, <2>6, <2>7, <2>8 DEF IInv
<1>9. \/ /\ in' = chunk /\ pos' = pos + Len(chunk)
         /\ IF chunk = <<>>
            THEN Return(FinalCode) /\ UNCHANGED out
            ELSE pc' = "inflate" /\ out' = <<>> /\ UNCHANGED <<z, result>>
         /\ UNCHANGED failed
      \/ Return("Z_ERRNO") /\ failed' = TRUE /\ UNCHANGED <<pos, in, out>>
  BY DEF ReadChunk, chunk
<1> QED
  BY <1>6, <1>7, <1>8, <1>9

--------------------------------------------------------------------------------
(* The steps of inflate.                                                   *)

\* So does inflate when it decodes,
LEMMA DecodeKeeps ==
  ASSUME IInv, Decode
  PROVE  IInv'
<1>1. /\ pc = "inflate" /\ ~Pending /\ ~z.ended /\ in # <<>> /\ Head(in).kind = "data"
      /\ z' = [z EXCEPT !.decoded = @ \o Head(in).bytes] /\ in' = Tail(in)
      /\ UNCHANGED <<pc, source, pos, out, ret, dest, result, failed>>
  BY DEF Decode
<1>2. /\ in \in Seq(Unit) /\ Len(in) \in Nat /\ z.decoded \in Seq(Byte) /\ Len(z.decoded) \in Nat
      /\ z.given \in 0 .. Len(z.decoded) /\ CHUNK \in Nat /\ source \in Seq(Unit) /\ pos \in Nat
  BY Types DEF IInv
<1>3. /\ Taken \in 0 .. Len(source) /\ Head(in) \in Unit
      /\ Tail(in) \in Seq(Unit) /\ Len(Tail(in)) = Len(in) - 1
      /\ SubSeq(source, 1, Taken + 1) = Append(SubSeq(source, 1, Taken), Head(in))
      /\ SubSeq(source, 1, Taken + 1) \o Tail(in) = SubSeq(source, 1, pos)
  BY <1>1, NextUnit DEF IInv
<1> DEFINE b == Head(in).bytes
           d == z.decoded \o b
<1>4. b \in Seq(Byte) /\ Head(in) = Data(b)
  BY <1>1, <1>3 DEF Unit, Data
<1> HIDE DEF b
<1>5. /\ d \in Seq(Byte) /\ Len(d) = Len(z.decoded) + Len(b) /\ Len(b) \in Nat
      /\ IsPrefix(z.decoded, d)
  BY <1>2, <1>4, ConcatProperties, PrefixOfConcat, LenProperties
<1>6. z' = [z EXCEPT !.decoded = d]
  BY <1>1 DEF b
<1> HIDE DEF d
<1>7. /\ z'.decoded = d /\ z'.given = z.given /\ z'.ended = z.ended
      /\ z' \in [live : BOOLEAN, decoded : Seq(Byte), given : Nat, ended : BOOLEAN]
  BY <1>5, <1>6 DEF IInv, TypeOK
<1>8. TypeOK'
  <2>1. Len(Tail(in)) <= CHUNK
    BY <1>2, <1>3 DEF IInv, TypeOK
  <2>2. z'.given <= Len(z'.decoded)
    BY <1>2, <1>5, <1>7
  <2> QED
    BY <1>1, <1>3, <1>7, <2>1, <2>2 DEF IInv, TypeOK
<1>9. Taken' = Taken + 1 /\ Len(in') <= pos'
  <2>1. Len(in') = Len(in) - 1 /\ pos' = pos /\ Len(in) <= pos
    BY <1>1, <1>3 DEF IInv, Reading
  <2> QED
    BY <1>2, <2>1 DEF Taken
<1>10. Reading'
  BY <1>1, <1>3, <1>9 DEF Reading
<1>11. Decoding'
  <2> DEFINE s == SubSeq(source, 1, Taken)
  <2>1. IsData(s) /\ Plain(s) = z.decoded
    BY <1>1 DEF IInv, Decoding
  <2>2. s \in Seq(Unit)
    BY <1>2, <1>3, FirstItems
  <2> HIDE DEF s
  <2>3. IsData(Append(s, Data(b))) /\ Plain(Append(s, Data(b))) = d
    BY <1>4, <2>1, <2>2, DataAppend DEF d
  <2>4. SubSeq(source', 1, Taken') = Append(s, Data(b))
    BY <1>1, <1>3, <1>4, <1>9 DEF s
  <2> QED
    BY <1>1, <1>7, <2>3, <2>4 DEF Decoding
<1>12. Giving'
  <2>1. z.given = Len(z.decoded)
    BY <1>1, <1>2 DEF Pending
  <2>2. SubSeq(d, 1, z.given) = z.decoded /\ SubSeq(z.decoded, 1, z.given) = z.decoded
    BY <1>2, <1>5, <2>1, SubSeqFull DEF IsPrefix
  <2> QED
    BY <1>1, <1>7, <2>2 DEF IInv, Giving, Unwritten, Content
<1>13. Control' /\ OnDisk' /\ SoundIsAccepted'
  BY <1>1, <1>7 DEF IInv, Control, OnDisk, SoundIsAccepted, Ended
<1> QED
  BY <1>8, <1>10, <1>11, <1>12, <1>13 DEF IInv

\* when it gives output,
LEMMA GiveKeeps ==
  ASSUME IInv, Give
  PROVE  IInv'
<1>1. /\ pc = "inflate" /\ Pending /\ avail_out > 0
      /\ out' = Append(out, z.decoded[z.given + 1]) /\ z' = [z EXCEPT !.given = @ + 1]
      /\ UNCHANGED <<pc, source, pos, in, ret, dest, result, failed>>
  BY DEF Give
<1>2. /\ z.decoded \in Seq(Byte) /\ Len(z.decoded) \in Nat /\ z.given \in 0 .. Len(z.decoded)
      /\ z.given < Len(z.decoded) /\ out \in Seq(Byte) /\ Len(out) \in Nat
      /\ CHUNK \in Nat /\ Content(dest) \in Seq(Byte)
  BY <1>1, Types DEF IInv, Pending
<1> DEFINE e == z.decoded[z.given + 1]
<1>3. e \in Byte /\ SubSeq(z.decoded, 1, z.given + 1) = Append(SubSeq(z.decoded, 1, z.given), e)
  BY <1>2, OneMore
<1> HIDE DEF e
<1>4. Append(out, e) \in Seq(Byte) /\ Len(Append(out, e)) = Len(out) + 1
  BY <1>2, <1>3, AppendProperties
<1>5. /\ z'.decoded = z.decoded /\ z'.given = z.given + 1 /\ z'.ended = z.ended
      /\ z' \in [live : BOOLEAN, decoded : Seq(Byte), given : Nat, ended : BOOLEAN]
  <2>1. z.given + 1 \in Nat
    BY <1>2
  <2> QED
    BY <1>1, <2>1 DEF IInv, TypeOK
<1>6. TypeOK'
  <2>1. Len(Append(out, e)) <= CHUNK
    BY <1>1, <1>2, <1>4 DEF avail_out
  <2>2. z'.given <= Len(z'.decoded)
    BY <1>2, <1>5
  <2>3. out' = Append(out, e)
    BY <1>1 DEF e
  <2> QED
    BY <1>1, <1>4, <1>5, <2>1, <2>2, <2>3 DEF IInv, TypeOK
<1>7. Taken' = Taken
  BY <1>1 DEF Taken
<1>8. Reading' /\ Decoding' /\ OnDisk' /\ SoundIsAccepted'
  BY <1>1, <1>5, <1>7 DEF IInv, Reading, Decoding, OnDisk, SoundIsAccepted, Ended
<1>9. Giving'
  <2>1. Content(dest) \o Append(out, e) = Append(Content(dest) \o out, e)
    <3> DEFINE c == Content(dest)
    <3>1. c \in Seq(Byte) /\ out \in Seq(Byte)
      BY <1>2
    <3> HIDE DEF c
    <3>2. c \o Append(out, e) = Append(c \o out, e)
      BY <1>3, <3>1, ConcatAppend
    <3> QED
      BY <3>2 DEF c
  <2>2. Content(dest) \o out = SubSeq(z.decoded, 1, z.given)
    BY <1>1 DEF IInv, Giving, Unwritten
  <2>3. out' = Append(out, e) /\ Unwritten' = out' /\ Content(dest)' = Content(dest)
    BY <1>1 DEF e, Unwritten, Content
  <2> QED
    BY <1>3, <1>5, <2>1, <2>2, <2>3 DEF Giving
<1>10. Control'
  BY <1>1, <1>5 DEF IInv, Control, Pending
<1> QED
  BY <1>6, <1>8, <1>9, <1>10 DEF IInv

\* when it decodes the end of the stream,
LEMMA DecodeEndKeeps ==
  ASSUME IInv, DecodeEnd
  PROVE  IInv'
<1>1. /\ pc = "inflate" /\ ~Pending /\ ~z.ended /\ in # <<>> /\ Head(in) = End(z.decoded)
      /\ z' = [z EXCEPT !.ended = TRUE] /\ in' = Tail(in)
      /\ UNCHANGED <<pc, source, pos, out, ret, dest, result, failed>>
  BY DEF DecodeEnd
<1>2. /\ in \in Seq(Unit) /\ Len(in) \in Nat /\ CHUNK \in Nat /\ source \in Seq(Unit) /\ pos \in Nat
  BY Types DEF IInv
<1>3. /\ Taken \in 0 .. Len(source)
      /\ Tail(in) \in Seq(Unit) /\ Len(Tail(in)) = Len(in) - 1
      /\ SubSeq(source, 1, Taken + 1) = Append(SubSeq(source, 1, Taken), Head(in))
      /\ SubSeq(source, 1, Taken + 1) \o Tail(in) = SubSeq(source, 1, pos)
  BY <1>1, NextUnit DEF IInv
<1>4. /\ z'.decoded = z.decoded /\ z'.given = z.given /\ z'.ended = TRUE
      /\ z' \in [live : BOOLEAN, decoded : Seq(Byte), given : Nat, ended : BOOLEAN]
  BY <1>1 DEF IInv, TypeOK
<1>5. TypeOK'
  <2>1. Len(Tail(in)) <= CHUNK
    BY <1>2, <1>3 DEF IInv, TypeOK
  <2> QED
    BY <1>1, <1>3, <1>4, <2>1 DEF IInv, TypeOK
<1>6. Taken' = Taken + 1 /\ Len(in') <= pos'
  <2>1. Len(in') = Len(in) - 1 /\ pos' = pos /\ Len(in) <= pos
    BY <1>1, <1>3 DEF IInv, Reading
  <2> QED
    BY <1>2, <2>1 DEF Taken
<1>7. Reading'
  BY <1>1, <1>3, <1>6 DEF Reading
<1>8. Decoding'
  <2> DEFINE s == SubSeq(source, 1, Taken)
  <2>1. IsData(s) /\ Plain(s) = z.decoded
    BY <1>1 DEF IInv, Decoding
  <2>2. s \in Seq(Unit)
    BY <1>2, <1>3, FirstItems
  <2> HIDE DEF s
  <2>3. IsStream(Append(s, End(Plain(s))), Plain(s))
    BY <2>1, <2>2, EndAppend
  <2>4. SubSeq(source', 1, Taken') = Append(s, End(Plain(s)))
    BY <1>1, <1>3, <1>6, <2>1 DEF s
  <2> QED
    BY <1>4, <2>1, <2>3, <2>4 DEF Decoding
<1>9. Giving'
  BY <1>1, <1>4 DEF IInv, Giving, Unwritten, Content
<1>10. Control' /\ OnDisk' /\ SoundIsAccepted'
  BY <1>1, <1>4 DEF IInv, Control, Pending, OnDisk, SoundIsAccepted, Ended
<1> QED
  BY <1>5, <1>7, <1>8, <1>9, <1>10 DEF IInv

\* and when it returns.
LEMMA InflateReturnsKeeps ==
  ASSUME IInv, InflateReturns
  PROVE  IInv'
<1>1. pc = "inflate" /\ pc' = "check" /\ UNCHANGED <<source, pos, in, out, z, dest, result>>
  BY DEF InflateReturns
<1>2. /\ ret' \in {"Z_STREAM_END", "Z_OK", "Z_BUF_ERROR", "Z_NEED_DICT", "Z_DATA_ERROR", "Z_MEM_ERROR"}
      /\ failed' \in BOOLEAN
      /\ ret' = "Z_MEM_ERROR" => failed'
      /\ ret' = "Z_STREAM_END" => z.ended
      /\ ret' \in {"Z_OK", "Z_BUF_ERROR"} => ~z.ended /\ (avail_out = 0 \/ in = <<>>)
      /\ ret' \in {"Z_NEED_DICT", "Z_DATA_ERROR"} => Rejected
  BY DEF InflateReturns, Rejects, Rejected, IInv, TypeOK
<1>3. TypeOK'
  BY <1>1, <1>2 DEF IInv, TypeOK, Fatal
<1>4. Reading' /\ Decoding' /\ Giving' /\ OnDisk'
  BY <1>1, NothingMoves DEF Unwritten
<1>5. Control'
  BY <1>1, <1>2 DEF IInv, Control, Pending, Rejected, avail_out
<1>6. SoundIsAccepted'
  BY <1>1 DEF IInv, Control, SoundIsAccepted, Ended
<1> QED
  BY <1>3, <1>4, <1>5, <1>6 DEF IInv

--------------------------------------------------------------------------------
(* The steps after a call of inflate.                                      *)

\* So does the look at what it returned.
LEMMA CheckReturnKeeps ==
  ASSUME IInv, CheckReturn
  PROVE  IInv'
<1>1. pc = "check" /\ UNCHANGED <<source, pos, in, out, ret, dest, failed>>
  BY DEF CheckReturn
<1>2. failed \in BOOLEAN /\ ret \in Fatal \cup {"Z_OK", "Z_BUF_ERROR", "Z_STREAM_END"}
  BY DEF IInv, TypeOK
<1>3. CASE ret \in {"Z_NEED_DICT", "Z_DATA_ERROR"}
  <2>1. Return("Z_DATA_ERROR")
    BY <1>3 DEF CheckReturn, Fatal
  <2>2. ~BeginsWithStream(source, Plain(Leading(source)))
    BY <1>1, <1>3, DecodedOfSource DEF IInv, Control
  <2> QED
    BY <1>1, <1>2, <2>1, <2>2, ReturnKeeps
<1>4. CASE ret = "Z_MEM_ERROR"
  <2>1. Return("Z_MEM_ERROR")
    BY <1>4 DEF CheckReturn, Fatal
  <2>2. failed
    BY <1>1, <1>4 DEF IInv, Control
  <2> QED
    BY <1>1, <1>2, <2>1, <2>2, ReturnKeeps DEF InitErrors
<1>5. CASE ret \notin Fatal
  <2>1. pc' = "write" /\ UNCHANGED <<z, result>>
    BY <1>5 DEF CheckReturn, Fatal
  <2>2. TypeOK'
    BY <1>1, <2>1 DEF IInv, TypeOK
  <2>3. Reading' /\ Decoding' /\ Giving' /\ OnDisk'
    BY <1>1, <2>1, NothingMoves DEF Unwritten
  <2>4. Control'
    BY <1>1, <1>5, <2>1 DEF IInv, Control, Pending, avail_out
  <2>5. SoundIsAccepted'
    BY <1>1, <2>1 DEF IInv, Control, SoundIsAccepted, Ended
  <2> QED
    BY <2>2, <2>3, <2>4, <2>5 DEF IInv
<1> QED
  BY <1>2, <1>3, <1>4, <1>5 DEF Fatal

\* The next content of dest after fwrite and, if that was without an error, fflush.
WriteAndFlush(next) ==
  \E written \in Fwrite(dest, out) :
    IF written.error THEN next = written ELSE next \in Fflush(written)

\* What both do to dest: as far as they got the file is right, and all that
\* inflate has given out is in the content once nothing is left of the error.
LEMMA WrittenIsRight ==
  ASSUME IInv, pc = "write", NEW g, WriteAndFlush(g)
  PROVE  /\ g \in Files(Byte) /\ IsPrefix(dest.disk, g.disk)
         /\ IsPrefix(g.disk, Plain(Leading(source)))
<1>1. /\ dest \in Files(Byte) /\ out \in Seq(Byte) /\ Content(dest) \in Seq(Byte) /\ dest.disk \in Seq(Byte)
      /\ z.decoded \in Seq(Byte) /\ z.given \in 0 .. Len(z.decoded)
  BY Types DEF IInv
<1>2. Content(dest) \o out = SubSeq(z.decoded, 1, z.given)
  BY DEF IInv, Giving, Unwritten
<1>3. IsPrefix(z.decoded, Plain(Leading(source))) /\ Plain(Leading(source)) \in Seq(Byte)
  BY DecodedOfSource
<1> DEFINE all == Content(dest) \o out
<1>4. all \in Seq(Byte) /\ IsPrefix(all, z.decoded)
  BY <1>1, <1>2, FirstItems
<1> HIDE DEF all
<1>5. IsPrefix(all, Plain(Leading(source)))
  BY <1>1, <1>3, <1>4, PrefixTransitive
<1>6. PICK written \in Fwrite(dest, out) :
        IF written.error THEN g = written ELSE g \in Fflush(written)
  BY DEF WriteAndFlush
<1>7. /\ written \in Files(Byte) /\ IsPrefix(dest.disk, written.disk)
      /\ IsPrefix(written.disk, all)
      /\ ~written.error => Content(written) = all
  BY <1>1, <1>6, FwriteFacts DEF all
<1>8. written.disk \in Seq(Byte)
  BY <1>7, ContentTyping
<1>9. CASE written.error
  <2>1. IsPrefix(written.disk, Plain(Leading(source)))
    BY <1>3, <1>4, <1>5, <1>7, <1>8, PrefixTransitive
  <2> QED
    BY <1>6, <1>7, <1>9, <2>1
<1>10. CASE ~written.error
  <2>1. g \in Fflush(written)
    BY <1>6, <1>10
  <2>2. /\ g \in Files(Byte) /\ IsPrefix(written.disk, g.disk) /\ IsPrefix(g.disk, all)
    BY <1>7, <1>10, <2>1, FflushFacts
  <2>3. g.disk \in Seq(Byte)
    BY <2>2, ContentTyping
  <2>4. IsPrefix(g.disk, Plain(Leading(source)))
    BY <1>3, <1>4, <1>5, <2>2, <2>3, PrefixTransitive
  <2>5. IsPrefix(dest.disk, g.disk)
    BY <1>1, <1>7, <1>8, <2>2, <2>3, PrefixTransitive
  <2> QED
    BY <2>2, <2>4, <2>5
<1> QED
  BY <1>9, <1>10

\* What is in the content, and what is left in the buffer, if fwrite succeeded.
LEMMA AllIsWritten ==
  ASSUME IInv, pc = "write", NEW written \in Fwrite(dest, out), ~written.error,
         NEW g \in Fflush(written)
  PROVE  /\ Content(g) = SubSeq(z.decoded, 1, z.given)
         /\ g.held # <<>> => g.error
<1>1. dest \in Files(Byte) /\ out \in Seq(Byte)
  BY Types DEF IInv
<1>2. Content(dest) \o out = SubSeq(z.decoded, 1, z.given)
  BY DEF IInv, Giving, Unwritten
<1>3. written \in Files(Byte) /\ Content(written) = SubSeq(z.decoded, 1, z.given)
  BY <1>1, <1>2, FwriteFacts
<1> QED
  BY <1>3, FflushFacts

\* The ways WriteOut can go.
LEMMA WriteOutCases ==
  ASSUME IInv, WriteOut
  PROVE  /\ pc = "write" /\ WriteAndFlush(dest') /\ UNCHANGED <<source, pos, in, ret, failed>>
         /\ \/ dest'.error /\ Return("Z_ERRNO") /\ out' = out
            \/ /\ Content(dest') = SubSeq(z.decoded, 1, z.given)
               /\ dest'.held # <<>> => dest'.error
               /\ out' = <<>>
               /\ \/ AfterWrite = "end" /\ Return(FinalCode)
                  \/ AfterWrite # "end" /\ pc' = AfterWrite /\ UNCHANGED <<z, result>>
<1>1. pc = "write" /\ UNCHANGED <<source, pos, in, ret, failed>>
  BY DEF WriteOut
<1>2. PICK written \in Fwrite(dest, out) :
        IF written.error
        THEN Return("Z_ERRNO") /\ dest' = written /\ UNCHANGED out
        ELSE /\ dest' \in Fflush(written)
             /\ out' = <<>>
             /\ IF AfterWrite = "end"
                THEN Return(FinalCode)
                ELSE pc' = AfterWrite /\ UNCHANGED <<z, result>>
  BY DEF WriteOut
<1>3. WriteAndFlush(dest')
  BY <1>2 DEF WriteAndFlush
<1>4. CASE written.error
  BY <1>1, <1>2, <1>3, <1>4
<1>5. CASE ~written.error
  <2>1. Content(dest') = SubSeq(z.decoded, 1, z.given) /\ (dest'.held # <<>> => dest'.error)
    BY <1>1, <1>2, <1>5, AllIsWritten
  <2> QED
    BY <1>1, <1>2, <1>3, <1>5, <2>1
<1> QED
  BY <1>4, <1>5

\* At the end of the loops the stream is at its end too, and all of it was given out.
LEMMA EndOfLoops ==
  ASSUME IInv, pc = "write"
  PROVE  /\ AfterWrite \in {"inflate", "read", "end"}
         /\ AfterWrite = "end" => FinalCode = "Z_OK" /\ z.ended
         /\ AfterWrite = "read" => in = <<>> /\ ~z.ended /\ ret \in {"Z_OK", "Z_BUF_ERROR"}
         /\ z.ended => SubSeq(z.decoded, 1, z.given) = z.decoded
<1>1. ret \in {"Z_OK", "Z_BUF_ERROR", "Z_STREAM_END"}
  BY DEF IInv, TypeOK, Control
<1>2. z.ended => SubSeq(z.decoded, 1, z.given) = z.decoded
  <2>1. /\ z.decoded \in Seq(Byte) /\ Len(z.decoded) \in Nat /\ z.given \in 0 .. Len(z.decoded)
    BY Types DEF IInv
  <2>2. z.ended => z.given = Len(z.decoded)
    BY <2>1 DEF IInv, Control, Pending
  <2> QED
    BY <2>1, <2>2, SubSeqFull
<1>3. CASE avail_out = 0
  BY <1>2, <1>3 DEF AfterWrite
<1>4. CASE avail_out # 0
  BY <1>1, <1>2, <1>4 DEF AfterWrite, FinalCode, IInv, Control
<1> QED
  BY <1>3, <1>4

\* So does fwrite.
LEMMA WriteOutKeeps ==
  ASSUME IInv, WriteOut
  PROVE  IInv'
<1>1. /\ pc = "write" /\ WriteAndFlush(dest') /\ UNCHANGED <<source, pos, in, ret, failed>>
  BY WriteOutCases
<1>2. dest' \in Files(Byte) /\ IsPrefix(dest'.disk, Plain(Leading(source)))
  BY <1>1, WrittenIsRight
<1>3. OnDisk'
  BY <1>1, <1>2 DEF OnDisk
<1>4. Taken' = Taken
  BY <1>1 DEF Taken
<1>5. <<>> \in Seq(Byte) /\ Len(<<>>) = 0 /\ 0 <= CHUNK
  BY EmptySeq, ChunkAssumption
<1>6. out' \in {out, <<>>}
  BY WriteOutCases
<1>7. out' \in Seq(Byte) /\ Len(out') <= CHUNK
  BY <1>5, <1>6 DEF IInv, TypeOK
<1>8. ASSUME NEW code \in {"Z_OK", "Z_ERRNO"}, Return(code), code = "Z_OK" \/ dest'.error
      PROVE  IInv'
  <2>1. pc' = "returned" /\ result' = code /\ z' = [z EXCEPT !.live = FALSE]
    BY <1>8 DEF Return
  <2>2. /\ z'.decoded = z.decoded /\ z'.ended = z.ended /\ z'.given = z.given
        /\ z' \in [live : BOOLEAN, decoded : Seq(Byte), given : Nat, ended : BOOLEAN]
    BY <2>1 DEF IInv, TypeOK
  <2>3. TypeOK'
    BY <1>1, <1>2, <1>7, <1>8, <2>1, <2>2 DEF IInv, TypeOK
  <2>4. Reading' /\ Decoding' /\ Giving'
    BY <1>1, <1>4, <2>1, <2>2 DEF IInv, Reading, Decoding, Giving
  <2>5. Control'
    BY <1>1, <2>1, <2>2 DEF IInv, Control, Pending
  <2>6. SoundIsAccepted'
    BY <1>8, <2>1 DEF SoundIsAccepted
  <2> QED
    BY <1>3, <2>3, <2>4, <2>5, <2>6 DEF IInv
<1>9. CASE dest'.error /\ Return("Z_ERRNO")
  BY <1>8, <1>9
<1>10. CASE AfterWrite = "end" /\ Return(FinalCode)
  BY <1>1, <1>8, <1>10, EndOfLoops
<1>11. CASE /\ Content(dest') = SubSeq(z.decoded, 1, z.given) /\ out' = <<>>
            /\ AfterWrite # "end" /\ pc' = AfterWrite /\ UNCHANGED <<z, result>>
  <2>1. /\ AfterWrite \in {"inflate", "read"}
        /\ AfterWrite = "read" => in = <<>> /\ ~z.ended /\ ret \in {"Z_OK", "Z_BUF_ERROR"}
    BY <1>1, <1>11, EndOfLoops
  <2>2. TypeOK'
    BY <1>1, <1>2, <1>7, <1>11, <2>1 DEF IInv, TypeOK
  <2>3. Reading' /\ Decoding'
    BY <1>1, <1>4, <1>11 DEF IInv, Reading, Decoding
  <2>4. Giving'
    <3>1. SubSeq(z.decoded, 1, z.given) \in Seq(Byte)
      <4>1. z.decoded \in Seq(Byte) /\ z.given \in 0 .. Len(z.decoded)
        BY Types DEF IInv
      <4> QED
        BY <4>1, FirstItems
    <3>2. SubSeq(z.decoded, 1, z.given) \o <<>> = SubSeq(z.decoded, 1, z.given)
      BY <3>1, ConcatEmptySeq
    <3>3. Unwritten' = <<>>
      BY <1>11 DEF Unwritten
    <3>4. Content(dest)' = Content(dest')
      BY DEF Content
    <3> QED
      BY <1>11, <3>2, <3>3, <3>4 DEF Giving
  <2>5. Control'
    BY <1>1, <1>11, <2>1 DEF IInv, Control, Pending
  <2>6. SoundIsAccepted'
    BY <1>1, <1>11 DEF IInv, Control, SoundIsAccepted, Ended
  <2> QED
    BY <1>3, <2>2, <2>3, <2>4, <2>5, <2>6 DEF IInv
<1> QED
  BY <1>9, <1>10, <1>11, WriteOutCases

--------------------------------------------------------------------------------

\* Every step keeps it.
LEMMA StepInvariant == IInv /\ [Next]_vars => IInv'
<1> SUFFICES ASSUME IInv, [Next]_vars PROVE IInv'
  OBVIOUS
<1>1. CASE UNCHANGED vars
  <2>1. /\ UNCHANGED <<pc, source, pos, in, out, z>>
        /\ UNCHANGED <<ret, dest, result, failed>>
    BY <1>1 DEF vars
  <2>2. TypeOK' /\ OnDisk' /\ SoundIsAccepted'
    BY <2>1 DEF IInv, TypeOK, OnDisk, SoundIsAccepted, Ended
  <2>3. Reading' /\ Decoding'
    BY <2>1 DEF IInv, Reading, Taken, Decoding
  <2>4. Giving'
    BY <2>1 DEF IInv, Giving, Unwritten, Content
  <2>5. Control'
    BY <2>1 DEF IInv, Control, Pending, Rejected, avail_out
  <2> QED
    BY <2>2, <2>3, <2>4, <2>5 DEF IInv
<1>2. CASE Next
  BY <1>2, InflateInitKeeps, ReadChunkKeeps, DecodeKeeps, GiveKeeps, DecodeEndKeeps,
     InflateReturnsKeeps, CheckReturnKeeps, WriteOutKeeps DEF Next
<1> QED
  BY <1>1, <1>2

\* It holds in every state.
LEMMA Invariant == Spec => []IInv
  BY InitInvariant, StepInvariant, PTL DEF Spec

\* The types, and that neither buffer ever holds more than CHUNK.
THEOREM TypeCorrect == Spec => []TypeOK
<1>1. IInv => TypeOK
  BY DEF IInv
<1> QED
  BY <1>1, Invariant, PTL

\* A sound stream is accepted, whatever follows it and however the chunks cut it
\* (the two loop conditions, Z_BUF_ERROR).
THEOREM AcceptsSound == Spec => []SoundIsAccepted
<1>1. IInv => SoundIsAccepted
  BY DEF IInv
<1> QED
  BY <1>1, Invariant, PTL

\* IsPrefix means the same in Filter.
LEMMA SamePrefix == \A s, t : F!IsPrefix(s, t) <=> IsPrefix(s, t)
  BY DEF IsPrefix, F!IsPrefix

\* What Filter demands of the outcome.
LEMMA OutcomeOfStream ==
  ASSUME NEW units, NEW f, NEW code, BeginsWithStream(units, Content(f)), f.held # <<>> => f.error
  PROVE  F!Outcome(units, f, code)
<1>1. F!Content(f) = Content(f)
  BY DEF F!Content, Content
<1> QED
  BY <1>1 DEF F!Outcome

\* inf implements Filter: at all times the file holds a part of what the source
\* decodes to that only grows, and after Z_OK all that a stream at its beginning
\* decodes to, but for what a failed flush has left in the buffer.
THEOREM ImplementsFilter == Spec => Decompresses
<1>1. Init => F!Init
  BY DEF Init, F!Init, Output, F!Output, F!Running
<1>2. IInv /\ [Next]_vars => [F!Next]_<<source, dest, result>>
  <2> SUFFICES ASSUME IInv, Next PROVE F!Next \/ UNCHANGED <<source, dest, result>>
    BY DEF vars
  <2>1. IsPrefix(dest.disk, dest.disk) /\ IsPrefix(dest.disk, Plain(Leading(source)))
    <3>1. dest.disk \in Seq(Byte)
      BY Types DEF IInv
    <3> QED
      BY <3>1, PrefixOfConcat, EmptySeq DEF IInv, OnDisk
  <2>2. ASSUME pc # "returned", NEW code \in {"Z_ERRNO", "Z_DATA_ERROR"} \cup InitErrors,
               result' \in {"none", code}, UNCHANGED source,
               IsPrefix(dest.disk, dest'.disk), IsPrefix(dest'.disk, Plain(Leading(source)))
        PROVE  F!Next
    <3>1. result = "none"
      BY <2>2 DEF IInv, Control
    <3>2. F!Outcome(source, dest', result')
      BY <2>2 DEF F!Outcome, InitErrors
    <3>3. F!IsPrefix(dest.disk, dest'.disk) /\ IsPrefix(dest'.disk, Plain(Leading(source)))
      BY <2>2, SamePrefix
    <3> QED
      BY <2>2, <3>1, <3>2, <3>3 DEF F!Next, F!Running
  <2>3. CASE InflateInit
    BY <2>1, <2>2, <2>3 DEF InflateInit, Return
  <2>4. CASE ReadChunk
    <3>1. ret # "Z_STREAM_END" /\ result = "none"
      BY <2>4 DEF ReadChunk, IInv, Control
    <3>2. FinalCode = "Z_DATA_ERROR"
      BY <3>1 DEF FinalCode
    <3>3. UNCHANGED <<source, dest>> /\ result' \in {"none", "Z_DATA_ERROR", "Z_ERRNO"} /\ pc # "returned"
      BY <2>4, <3>1, <3>2 DEF ReadChunk, Return
    <3> QED
      BY <2>1, <2>2, <3>3
  <2>5. CASE Decode \/ Give \/ DecodeEnd \/ InflateReturns
    BY <2>5 DEF Decode, Give, DecodeEnd, InflateReturns
  <2>6. CASE CheckReturn
    <3>1. UNCHANGED <<source, dest>> /\ pc # "returned"
      BY <2>6 DEF CheckReturn
    <3>2. \/ UNCHANGED result
          \/ result' \in {"Z_DATA_ERROR", "Z_MEM_ERROR"}
      BY <2>6 DEF CheckReturn, Return, Fatal
    <3> QED
      BY <2>1, <2>2, <3>1, <3>2 DEF InitErrors
  <2>7. CASE WriteOut
    <3>1. pc = "write" /\ WriteAndFlush(dest') /\ UNCHANGED source /\ result = "none"
      BY <2>7, WriteOutCases DEF IInv, Control
    <3>2. IsPrefix(dest.disk, dest'.disk) /\ IsPrefix(dest'.disk, Plain(Leading(source)))
      BY <3>1, WrittenIsRight
    <3>3. CASE Return("Z_ERRNO")
      BY <2>2, <3>1, <3>2, <3>3 DEF Return
    <3>4. CASE UNCHANGED result
      BY <2>2, <3>1, <3>2, <3>4
    <3>5. CASE /\ Content(dest') = SubSeq(z.decoded, 1, z.given)
               /\ dest'.held # <<>> => dest'.error
               /\ AfterWrite = "end" /\ Return(FinalCode)
      <4>1. Content(dest') = z.decoded /\ z.ended /\ result' = "Z_OK"
        BY <3>1, <3>5, EndOfLoops DEF Return
      <4>2. IsStream(SubSeq(source, 1, Taken), z.decoded) /\ Taken \in 0 .. Len(source)
        BY <4>1, NextUnit DEF IInv, Decoding
      <4>3. BeginsWithStream(source, Content(dest'))
        BY <4>1, <4>2 DEF BeginsWithStream
      <4>4. F!Outcome(source, dest', result')
        BY <3>5, <4>3, OutcomeOfStream
      <4>5. F!IsPrefix(dest.disk, dest'.disk)
        BY <3>2, SamePrefix
      <4> QED
        BY <3>1, <3>2, <4>4, <4>5 DEF F!Next, F!Running
    <3> QED
      BY <2>7, <3>3, <3>4, <3>5, WriteOutCases
  <2> QED
    BY <2>3, <2>4, <2>5, <2>6, <2>7 DEF Next
<1> QED
  BY <1>1, <1>2, Invariant, PTL DEF Spec, Decompresses, F!Spec
================================================================================
