------------------------------ MODULE ZlibDefProofs -----------------------------
(***************************************************************************)
(* Theorems about def, for every content of the source file, every CHUNK   *)
(* and every cut of the data into units: the assertions hold, and def      *)
(* implements Filter.                                                      *)
(*                                                                         *)
(* Neither is inductive.  That an assertion holds rests on what zlib's     *)
(* return code means and on when each loop is left (Control); that the     *)
(* file is right rests on what has been written and what is still in the   *)
(* out buffer being, together, the coded form of the bytes that deflate    *)
(* has coded (Coding), and on no byte of the source being lost between     *)
(* fread and deflate (Reading).                                            *)
(***************************************************************************)
EXTENDS ZlibDef, ZlibLemmas

\* What deflate has put out and fwrite has not taken yet.
Pending == IF pc \in {"deflate", "write"} THEN out ELSE <<>>

\* Everything deflate has put out so far.
Stream == Content(dest) \o Pending

\* What was read of the source is in deflate's state or in the in buffer.
Reading == z.taken \o in = SubSeq(source, 1, pos)

\* What the position in the loops says of the buffers, of zlib's state and of
\* its return code.
Control ==
  /\ pc = "returned" <=> result # "none"
  /\ pc \in {"init", "read"} => in = <<>> /\ flush = "Z_NO_FLUSH" /\ ~z.ended
  /\ pc \in {"deflate", "write", "flush"} /\ flush = "Z_FINISH" => pos = Len(source)
  /\ pc = "write" => avail_out = 0 \/ z.ended \/ (in = <<>> /\ flush = "Z_NO_FLUSH")
  /\ pc = "flush" => z.ended \/ (in = <<>> /\ flush = "Z_NO_FLUSH")
  /\ pc \in {"write", "flush"} => (ret = "Z_STREAM_END" <=> z.ended)
  /\ z.ended => in = <<>> /\ flush = "Z_FINISH"
  /\ AssertionsHold

\* What has been put out is what deflate has coded.
Coding ==
  pc # "returned" =>
    IF z.ended THEN IsStream(Stream, z.taken)
    ELSE IsData(Stream) /\ Plain(Stream) = SubSeq(z.taken, 1, z.coded)

OnDisk == IsPartOfStream(dest.disk, source)

IInv == TypeOK /\ Reading /\ Control /\ Coding /\ OnDisk

--------------------------------------------------------------------------------

\* The types in the form in which the proofs below use them.
LEMMA Types ==
  ASSUME TypeOK
  PROVE  /\ source \in Seq(Byte) /\ Len(source) \in Nat /\ pos \in 0 .. Len(source)
         /\ in \in Seq(Byte) /\ Len(in) \in Nat
         /\ out \in Seq(Unit) /\ Len(out) \in Nat
         /\ z.taken \in Seq(Byte) /\ Len(z.taken) \in Nat
         /\ z.coded \in Nat /\ z.coded <= Len(z.taken)
         /\ z.live \in BOOLEAN /\ z.begun \in BOOLEAN /\ z.ended \in BOOLEAN
         /\ z = [live |-> z.live, taken |-> z.taken, coded |-> z.coded,
                 begun |-> z.begun, ended |-> z.ended]
         /\ dest \in Files(Unit) /\ Content(dest) \in Seq(Unit)
         /\ Pending \in Seq(Unit) /\ Stream \in Seq(Unit)
         /\ IsPrefix(Content(dest), Stream) /\ IsPrefix(dest.disk, Stream)
         /\ CHUNK \in Nat \ {0} /\ MaxRun \in Nat \ {0}
<1>1. /\ source \in Seq(Byte) /\ pos \in 0 .. Len(source)
      /\ in \in Seq(Byte) /\ out \in Seq(Unit) /\ dest \in Files(Unit)
  BY SourcesAssumption DEF TypeOK
<1>2. /\ z.taken \in Seq(Byte) /\ z.coded \in Nat /\ z.coded <= Len(z.taken)
      /\ z.live \in BOOLEAN /\ z.begun \in BOOLEAN /\ z.ended \in BOOLEAN
      /\ z = [live |-> z.live, taken |-> z.taken, coded |-> z.coded,
              begun |-> z.begun, ended |-> z.ended]
  BY DEF TypeOK
<1>3. Len(source) \in Nat /\ Len(in) \in Nat /\ Len(out) \in Nat /\ Len(z.taken) \in Nat
  BY <1>1, <1>2, LenProperties
<1>4. Content(dest) \in Seq(Unit) /\ dest.disk \in Seq(Unit) /\ IsPrefix(dest.disk, Content(dest))
  BY <1>1, ContentTyping
<1>5. Pending \in Seq(Unit)
  BY <1>1, EmptySeq DEF Pending
<1>6. Stream \in Seq(Unit) /\ IsPrefix(Content(dest), Stream)
  BY <1>4, <1>5, ConcatProperties, PrefixOfConcat DEF Stream
<1>7. IsPrefix(dest.disk, Stream)
  BY <1>4, <1>6, PrefixTransitive
<1> QED
  BY <1>1, <1>2, <1>3, <1>4, <1>5, <1>6, <1>7, ChunkAssumption

\* All that was put out is right as far as it goes; once deflate has ended it
\* is the whole stream of the source.
LEMMA StreamOfSource ==
  ASSUME IInv, pc # "returned"
  PROVE  /\ IsPartOfStream(Stream, source)
         /\ z.ended => IsStream(Stream, source)
<1>1. /\ source \in Seq(Byte) /\ Len(source) \in Nat /\ pos \in 0 .. Len(source)
      /\ in \in Seq(Byte) /\ z.taken \in Seq(Byte) /\ Len(z.taken) \in Nat
      /\ z.coded \in Nat /\ z.coded <= Len(z.taken)
  BY Types DEF IInv
<1>2. z.taken \o in = SubSeq(source, 1, pos)
  BY DEF IInv, Reading
<1>3. CASE z.ended
  <2>1. in = <<>> /\ pos = Len(source)
    BY <1>3 DEF IInv, Control, TypeOK, AssertionsHold
  <2>2. z.taken \o <<>> = z.taken /\ SubSeq(source, 1, Len(source)) = source
    BY <1>1, ConcatEmptySeq, SubSeqFull
  <2>3. z.taken = source
    BY <1>2, <2>1, <2>2
  <2> QED
    BY <1>3, <2>3 DEF IInv, Coding, IsPartOfStream
<1>4. CASE ~z.ended
  <2>1. IsData(Stream) /\ Plain(Stream) = SubSeq(z.taken, 1, z.coded)
    BY <1>4 DEF IInv, Coding
  <2>2. z.coded \in 0 .. Len(z.taken)
    BY <1>1
  <2>3. /\ SubSeq(z.taken, 1, z.coded) \in Seq(Byte)
        /\ IsPrefix(SubSeq(z.taken, 1, z.coded), z.taken)
    BY <1>1, <2>2, FirstItems
  <2>4. IsPrefix(z.taken, SubSeq(source, 1, pos))
    BY <1>1, <1>2, PrefixOfConcat
  <2>5. SubSeq(source, 1, pos) \in Seq(Byte) /\ IsPrefix(SubSeq(source, 1, pos), source)
    BY <1>1, FirstItems
  <2>6. IsPrefix(z.taken, source)
    BY <1>1, <2>4, <2>5, PrefixTransitive
  <2>7. IsPrefix(SubSeq(z.taken, 1, z.coded), source)
    BY <1>1, <2>3, <2>6, PrefixTransitive
  <2> QED
    BY <1>4, <2>1, <2>7 DEF IsPartOfStream
<1> QED
  BY <1>3, <1>4

\* Init establishes the invariant.
LEMMA InitInvariant == Init => IInv
<1> SUFFICES ASSUME Init PROVE IInv
  OBVIOUS
<1>1. /\ pc = "init" /\ source \in Sources /\ pos = 0 /\ in = <<>> /\ out = <<>>
      /\ z = [live |-> FALSE, taken |-> <<>>, coded |-> 0, begun |-> FALSE, ended |-> FALSE]
      /\ flush = "Z_NO_FLUSH" /\ ret = "Z_OK" /\ result = "none"
      /\ dest = [disk |-> <<>>, held |-> <<>>, error |-> FALSE]
  BY DEF Init, Output
<1>2. source \in Seq(Byte) /\ Len(source) \in Nat
  BY <1>1, SourcesAssumption, LenProperties
<1>3. <<>> \in Seq(Byte) /\ <<>> \in Seq(Unit) /\ Len(<<>>) = 0
  BY EmptySeq
<1>4. dest \in Files(Unit)
  BY <1>1, <1>3 DEF Files
<1>5. TypeOK
  BY <1>1, <1>2, <1>3, <1>4, ChunkAssumption DEF TypeOK
<1>6. z.taken = <<>> /\ z.coded = 0 /\ z.ended = FALSE
  BY <1>1
<1>7. SubSeq(source, 1, 0) = <<>> /\ SubSeq(<<>>, 1, 0) = <<>> /\ <<>> \o <<>> = <<>>
  BY <1>2, SubSeqEmpty, ConcatEmptySeq, EmptySeq
<1>8. Reading
  BY <1>1, <1>6, <1>7 DEF Reading
<1>9. Control
  BY <1>1, <1>6 DEF Control, AssertionsHold
<1>10. Stream = <<>> /\ dest.disk = <<>>
  BY <1>1, <1>7 DEF Stream, Pending, Content
<1>11. IsData(<<>>) /\ Plain(<<>>) = <<>>
  <2>1. Bad \in Unit
    BY EmptySeq DEF Bad, Unit
  <2>2. Plain(<<>>) = <<>>
    BY <1>3, <2>1, PlainAppend
  <2>3. DOMAIN <<>> = 1 .. Len(<<>>)
    BY <1>3, LenProperties, Zenon
  <2>4. IsData(<<>>)
    BY <1>3, <2>3 DEF IsData
  <2> QED
    BY <2>2, <2>4
<1>12. Coding
  BY <1>6, <1>7, <1>10, <1>11 DEF Coding
<1>13. OnDisk
  <2>1. IsPrefix(<<>>, source)
    BY <1>2, <1>7 DEF IsPrefix
  <2> QED
    BY <1>10, <1>11, <2>1 DEF OnDisk, IsPartOfStream
<1> QED
  BY <1>5, <1>8, <1>9, <1>12, <1>13 DEF IInv

--------------------------------------------------------------------------------
(* The steps before and after a call of deflate.                           *)

\* While a step leaves alone all that Stream, Coding and Reading are about,
\* they go on holding.
LEMMA NothingMoves ==
  ASSUME IInv, pc # "returned", UNCHANGED <<source, dest>>,
         z'.taken = z.taken, z'.coded = z.coded, z'.ended = z.ended,
         pc' # "returned" => Pending' = Pending
  PROVE  Coding' /\ OnDisk'
<1>1. pc' # "returned" => Stream' = Stream
  BY DEF Stream, Content
<1> QED
  BY <1>1 DEF IInv, Coding, OnDisk

\* deflateInit keeps it.
LEMMA DeflateInitKeeps ==
  ASSUME IInv, DeflateInit
  PROVE  IInv'
<1>1. /\ pc = "init" /\ pc' \in {"read", "returned"}
      /\ UNCHANGED <<source, pos, in, out, flush, ret, dest>>
      /\ z' = [z EXCEPT !.live = TRUE] \/ z' = [z EXCEPT !.live = FALSE]
      /\ pc' = "read" => result' = result
      /\ pc' = "returned" => result' \in InitErrors /\ result' # "none" /\ result' # "Z_OK"
  BY DEF DeflateInit, Return, InitErrors
<1>2. /\ z'.taken = z.taken /\ z'.coded = z.coded /\ z'.ended = z.ended
      /\ z' \in [live : BOOLEAN, taken : Seq(Byte), coded : Nat, begun : BOOLEAN, ended : BOOLEAN]
  BY <1>1 DEF IInv, TypeOK
<1>3. TypeOK'
  BY <1>1, <1>2 DEF IInv, TypeOK
<1>4. Coding' /\ OnDisk'
  BY <1>1, <1>2, NothingMoves DEF Pending
<1>5. Reading'
  BY <1>1, <1>2 DEF IInv, Reading
<1>6. Control'
  BY <1>1, <1>2 DEF IInv, Control, AssertionsHold, avail_out, TypeOK
<1> QED
  BY <1>3, <1>4, <1>5, <1>6 DEF IInv

\* So does fread.
LEMMA ReadChunkKeeps ==
  ASSUME IInv, ReadChunk
  PROVE  IInv'
<1> USE DEF IInv
<1>1. pc = "read" /\ UNCHANGED <<source, ret, dest>>
  BY DEF ReadChunk
<1>2. CASE Return("Z_ERRNO") /\ UNCHANGED <<pos, in, out, flush>>
  <2>1. /\ pc' = "returned" /\ result' = "Z_ERRNO" /\ z' = [z EXCEPT !.live = FALSE]
        /\ UNCHANGED <<pos, in, out, flush>>
    BY <1>2 DEF Return
  <2>2. /\ z'.taken = z.taken /\ z'.coded = z.coded /\ z'.ended = z.ended
        /\ z' \in [live : BOOLEAN, taken : Seq(Byte), coded : Nat, begun : BOOLEAN, ended : BOOLEAN]
    BY <2>1 DEF TypeOK
  <2>3. TypeOK'
    BY <1>1, <2>1, <2>2 DEF TypeOK
  <2>4. Coding' /\ OnDisk'
    BY <1>1, <2>1, <2>2, NothingMoves
  <2>5. Reading'
    BY <1>1, <2>1, <2>2 DEF Reading
  <2>6. Control'
    BY <1>1, <2>1, <2>2 DEF Control, AssertionsHold, avail_out
  <2> QED
    BY <2>3, <2>4, <2>5, <2>6
<1> DEFINE chunk == Fread(source, pos, CHUNK)
<1>3. CASE /\ in' = chunk /\ pos' = pos + Len(chunk) /\ flush' = FlushFor(chunk)
           /\ pc' = "deflate" /\ out' = <<>> /\ UNCHANGED <<z, result>>
  <2>1. /\ in' = chunk /\ pos' = pos + Len(chunk) /\ flush' = FlushFor(chunk)
        /\ pc' = "deflate" /\ out' = <<>> /\ UNCHANGED <<z, result>>
    BY <1>3
  <2>2. /\ source \in Seq(Byte) /\ Len(source) \in Nat /\ pos \in 0 .. Len(source)
        /\ z.taken \in Seq(Byte) /\ CHUNK \in Nat \ {0} /\ Content(dest) \in Seq(Unit)
    BY Types
  <2>3. /\ chunk \in Seq(Byte) /\ Len(chunk) <= CHUNK /\ pos + Len(chunk) \in pos .. Len(source)
        /\ SubSeq(source, 1, pos) \o chunk = SubSeq(source, 1, pos + Len(chunk))
        /\ Len(chunk) < CHUNK => pos + Len(chunk) = Len(source)
    BY <2>2, FreadFacts
  <2> HIDE DEF chunk
  <2>4. TypeOK'
    <3>1. <<>> \in Seq(Unit) /\ Len(<<>>) = 0
      BY EmptySeq
    <3> QED
      BY <1>1, <2>1, <2>2, <2>3, <3>1 DEF TypeOK, FlushFor
  <2>5. in = <<>> /\ ~z.ended /\ pc # "returned"
    BY <1>1 DEF Control
  <2>6. Reading'
    <3>1. z.taken \o <<>> = z.taken
      BY <2>2, ConcatEmptySeq
    <3>2. z.taken = SubSeq(source, 1, pos)
      BY <2>5, <3>1 DEF Reading
    <3> QED
      BY <1>1, <2>1, <2>3, <3>2 DEF Reading
  <2>7. Coding' /\ OnDisk'
    BY <1>1, <2>1, NothingMoves DEF Pending
  <2>8. Control'
    BY <1>1, <2>1, <2>3, <2>5 DEF Control, AssertionsHold, FlushFor
  <2> QED
    BY <2>4, <2>6, <2>7, <2>8
<1> QED
  BY <1>2, <1>3 DEF ReadChunk

--------------------------------------------------------------------------------
(* The steps of deflate.                                                   *)

\* So does deflate when it takes input,
LEMMA TakeKeeps ==
  ASSUME IInv, Take
  PROVE  IInv'
<1> USE DEF IInv
<1>1. /\ pc = "deflate" /\ in # <<>> /\ ~z.ended
      /\ z' = [z EXCEPT !.taken = Append(@, Head(in))] /\ in' = Tail(in)
      /\ UNCHANGED <<pc, source, pos, out, flush, ret, dest, result>>
  BY DEF Take
<1>2. /\ source \in Seq(Byte) /\ in \in Seq(Byte) /\ Len(in) \in Nat
      /\ z.taken \in Seq(Byte) /\ Len(z.taken) \in Nat
      /\ z.coded \in Nat /\ z.coded <= Len(z.taken)
  BY Types
<1> DEFINE a == Append(z.taken, Head(in))
<1>3. /\ Head(in) \in Byte /\ Tail(in) \in Seq(Byte) /\ Len(Tail(in)) = Len(in) - 1
      /\ a \in Seq(Byte) /\ a \o Tail(in) = z.taken \o in
  BY <1>1, <1>2, MoveHead
<1>4. Len(a) = Len(z.taken) + 1
  BY <1>2, <1>3, AppendProperties
<1>5. SubSeq(a, 1, z.coded) = SubSeq(z.taken, 1, z.coded)
  <2>1. z.coded \in 0 .. Len(z.taken)
    BY <1>2
  <2> QED
    BY <1>2, <1>3, <2>1, FirstItemsOfAppend
<1> HIDE DEF a
<1>6. z' = [z EXCEPT !.taken = a]
  BY <1>1 DEF a
<1>7. /\ z'.taken = a /\ z'.coded = z.coded /\ z'.ended = z.ended
      /\ z' \in [live : BOOLEAN, taken : Seq(Byte), coded : Nat, begun : BOOLEAN, ended : BOOLEAN]
  BY <1>3, <1>6 DEF TypeOK
<1>8. TypeOK'
  <2>1. Len(Tail(in)) <= CHUNK
    BY <1>2, <1>3, ChunkAssumption DEF TypeOK
  <2>2. z'.coded <= Len(z'.taken)
    BY <1>2, <1>4, <1>7
  <2> QED
    BY <1>1, <1>3, <1>7, <2>1, <2>2 DEF TypeOK
<1>9. Reading'
  BY <1>1, <1>3, <1>7 DEF Reading
<1>10. Control'
  BY <1>1, <1>7 DEF Control, AssertionsHold, avail_out
<1>11. Stream' = Stream
  BY <1>1 DEF Stream, Pending, Content
<1>12. Coding' /\ OnDisk'
  BY <1>1, <1>5, <1>7, <1>11 DEF Coding, OnDisk
<1> QED
  BY <1>8, <1>9, <1>10, <1>12

\* Deflate puts out one unit more.
LEMMA UnitOut ==
  ASSUME IInv, pc = "deflate", avail_out > 0, NEW u \in Unit,
         out' = Append(out, u), UNCHANGED <<pc, dest>>
  PROVE  /\ out' \in Seq(Unit) /\ Len(out') <= CHUNK
         /\ Stream' = Append(Stream, u)
<1>1. /\ out \in Seq(Unit) /\ Len(out) \in Nat /\ Content(dest) \in Seq(Unit)
      /\ CHUNK \in Nat
  BY Types DEF IInv
<1>2. Append(out, u) \in Seq(Unit) /\ Len(Append(out, u)) = Len(out) + 1
  BY <1>1, AppendProperties
<1>3. Content(dest) \o Append(out, u) = Append(Content(dest) \o out, u)
  BY <1>1, ConcatAppend
<1>4. Stream = Content(dest) \o out /\ Stream' = Content(dest) \o out'
  BY DEF Stream, Pending, Content
<1> QED
  BY <1>1, <1>2, <1>3, <1>4 DEF avail_out

\* What of the invariant a step inside deflate leaves alone when it takes no input.
LEMMA InsideDeflate ==
  ASSUME IInv, pc = "deflate", ~z.ended, out' \in Seq(Unit), Len(out') <= CHUNK,
         z' \in [live : BOOLEAN, taken : Seq(Byte), coded : Nat, begun : BOOLEAN, ended : BOOLEAN],
         z'.taken = z.taken, z'.coded <= Len(z.taken),
         z'.ended => in = <<>> /\ flush = "Z_FINISH",
         UNCHANGED <<pc, source, pos, in, flush, ret, dest, result>>
  PROVE  TypeOK' /\ Reading' /\ Control' /\ OnDisk'
<1>1. TypeOK'
  BY DEF IInv, TypeOK
<1>2. Reading'
  BY DEF IInv, Reading
<1>3. Control'
  BY DEF IInv, Control, AssertionsHold, avail_out
<1>4. OnDisk'
  BY DEF IInv, OnDisk
<1> QED
  BY <1>1, <1>2, <1>3, <1>4

\* when it gives output,
LEMMA GiveKeeps ==
  ASSUME IInv, Give
  PROVE  IInv'
<1>1. /\ pc = "deflate" /\ avail_out > 0 /\ ~z.ended
      /\ UNCHANGED <<pc, source, pos, in, flush, ret, dest, result>>
  BY DEF Give
<1>2. /\ z.taken \in Seq(Byte) /\ Len(z.taken) \in Nat
      /\ z.coded \in Nat /\ z.coded <= Len(z.taken)
      /\ Stream \in Seq(Unit) /\ MaxRun \in Nat
  BY Types DEF IInv
<1>3. IsData(Stream) /\ Plain(Stream) = SubSeq(z.taken, 1, z.coded)
  BY <1>1 DEF IInv, Coding
<1>4. /\ SubSeq(z.taken, 1, z.coded) \in Seq(Byte)
      /\ SubSeq(z.taken, 1, z.coded) \o <<>> = SubSeq(z.taken, 1, z.coded)
  <2>1. z.coded \in 0 .. Len(z.taken)
    BY <1>2
  <2>2. SubSeq(z.taken, 1, z.coded) \in Seq(Byte)
    BY <1>2, <2>1, FirstItems
  <2> QED
    BY <2>2, ConcatEmptySeq
<1>5. CASE ~z.begun
  <2>1. out' = Append(out, Data(<<>>)) /\ z' = [z EXCEPT !.begun = TRUE]
    BY <1>5 DEF Give
  <2>2. /\ z'.taken = z.taken /\ z'.coded = z.coded /\ z'.ended = z.ended
        /\ z' \in [live : BOOLEAN, taken : Seq(Byte), coded : Nat, begun : BOOLEAN, ended : BOOLEAN]
    BY <2>1 DEF IInv, TypeOK
  <2>3. <<>> \in Seq(Byte)
    BY EmptySeq
  <2>4. /\ Data(<<>>) \in Unit /\ IsData(Append(Stream, Data(<<>>)))
        /\ Plain(Append(Stream, Data(<<>>))) = Plain(Stream) \o <<>>
    BY <1>2, <1>3, <2>3, DataAppend
  <2>5. out' \in Seq(Unit) /\ Len(out') <= CHUNK /\ Stream' = Append(Stream, Data(<<>>))
    BY <1>1, <2>1, <2>4, UnitOut
  <2>6. TypeOK' /\ Reading' /\ Control' /\ OnDisk'
    BY <1>1, <1>2, <2>2, <2>5, InsideDeflate
  <2>7. Coding'
    BY <1>1, <1>3, <1>4, <2>2, <2>4, <2>5 DEF Coding
  <2> QED
    BY <2>6, <2>7 DEF IInv
<1>6. CASE z.begun
  <2> DEFINE run(n) == SubSeq(z.taken, z.coded + 1, z.coded + n)
  <2>1. PICK n \in 1 .. MaxRun :
          /\ z.coded + n <= Len(z.taken)
          /\ out' = Append(out, Data(run(n)))
          /\ z' = [z EXCEPT !.coded = @ + n]
    BY <1>6 DEF Give
  <2>2. n \in Nat /\ z.coded + n \in Nat
    BY <1>2, <2>1
  <2>3. /\ z'.taken = z.taken /\ z'.coded = z.coded + n /\ z'.ended = z.ended
        /\ z' \in [live : BOOLEAN, taken : Seq(Byte), coded : Nat, begun : BOOLEAN, ended : BOOLEAN]
    BY <2>1, <2>2 DEF IInv, TypeOK
  <2>4. run(n) \in Seq(Byte)
    <3>1. \A i \in z.coded + 1 .. z.coded + n : z.taken[i] \in Byte
      BY <1>2, <2>1, <2>2, ElementOfSeq
    <3>2. z.coded + 1 \in Int /\ z.coded + n \in Int
      BY <1>2, <2>2
    <3> QED
      BY <3>1, <3>2, SubSeqProperties
  <2>5. SubSeq(z.taken, 1, z.coded) \o run(n) = SubSeq(z.taken, 1, z.coded + n)
    <3>1. /\ 1 \in 1 .. Len(z.taken) + 1 /\ z.coded \in 1 - 1 .. Len(z.taken)
          /\ z.coded + n \in z.coded .. Len(z.taken)
      BY <1>2, <2>1, <2>2
    <3> QED
      BY <1>2, <3>1, ConcatAdjacentSubSeq
  <2> HIDE DEF run
  <2>6. /\ Data(run(n)) \in Unit /\ IsData(Append(Stream, Data(run(n))))
        /\ Plain(Append(Stream, Data(run(n)))) = Plain(Stream) \o run(n)
    BY <1>2, <1>3, <2>4, DataAppend
  <2>7. out' \in Seq(Unit) /\ Len(out') <= CHUNK /\ Stream' = Append(Stream, Data(run(n)))
    BY <1>1, <2>1, <2>6, UnitOut
  <2>8. TypeOK' /\ Reading' /\ Control' /\ OnDisk'
    BY <1>1, <2>1, <2>3, <2>7, InsideDeflate
  <2>9. Coding'
    BY <1>1, <1>3, <2>3, <2>5, <2>6, <2>7 DEF Coding
  <2> QED
    BY <2>8, <2>9 DEF IInv
<1> QED
  BY <1>5, <1>6

\* when it gives the end of the stream,
LEMMA GiveEndKeeps ==
  ASSUME IInv, GiveEnd
  PROVE  IInv'
<1>1. /\ pc = "deflate" /\ avail_out > 0 /\ ~z.ended
      /\ flush = "Z_FINISH" /\ in = <<>> /\ z.coded = Len(z.taken)
      /\ out' = Append(out, End(z.taken)) /\ z' = [z EXCEPT !.ended = TRUE]
      /\ UNCHANGED <<pc, source, pos, in, flush, ret, dest, result>>
  BY DEF GiveEnd
<1>2. z.taken \in Seq(Byte) /\ Stream \in Seq(Unit)
  BY Types DEF IInv
<1>3. /\ z'.taken = z.taken /\ z'.coded = z.coded /\ z'.ended = TRUE
      /\ z' \in [live : BOOLEAN, taken : Seq(Byte), coded : Nat, begun : BOOLEAN, ended : BOOLEAN]
  BY <1>1 DEF IInv, TypeOK
<1>4. IsData(Stream) /\ Plain(Stream) = z.taken
  <2>1. IsData(Stream) /\ Plain(Stream) = SubSeq(z.taken, 1, Len(z.taken))
    BY <1>1 DEF IInv, Coding
  <2> QED
    BY <1>2, <2>1, SubSeqFull
<1>5. End(z.taken) \in Unit /\ IsStream(Append(Stream, End(z.taken)), z.taken)
  BY <1>2, <1>4, EndAppend
<1>6. out' \in Seq(Unit) /\ Len(out') <= CHUNK /\ Stream' = Append(Stream, End(z.taken))
  BY <1>1, <1>5, UnitOut
<1>7. TypeOK' /\ Reading' /\ Control' /\ OnDisk'
  <2>1. z'.coded <= Len(z.taken)
    BY <1>3 DEF IInv, TypeOK
  <2> QED
    BY <1>1, <1>3, <1>6, <2>1, InsideDeflate
<1>8. Coding'
  BY <1>3, <1>5, <1>6 DEF Coding
<1> QED
  BY <1>7, <1>8 DEF IInv

\* and when it returns.
LEMMA DeflateReturnsKeeps ==
  ASSUME IInv, DeflateReturns
  PROVE  IInv'
<1>1. /\ pc = "deflate" /\ pc' = "write"
      /\ avail_out = 0 \/ z.ended \/ (in = <<>> /\ flush = "Z_NO_FLUSH")
      /\ UNCHANGED <<source, pos, in, out, z, flush, dest, result>>
  BY DEF DeflateReturns
<1>2. z.ended => in = <<>>
  BY DEF IInv, Control
<1>3. /\ ret' \in {"Z_OK", "Z_BUF_ERROR", "Z_STREAM_END"}
      /\ ret' = "Z_STREAM_END" <=> z.ended
  BY <1>2 DEF DeflateReturns
<1>4. TypeOK'
  BY <1>1, <1>3 DEF IInv, TypeOK
<1>5. Reading'
  BY <1>1 DEF IInv, Reading
<1>6. Coding' /\ OnDisk'
  BY <1>1, NothingMoves DEF Pending
<1>7. Control'
  BY <1>1, <1>3 DEF IInv, Control, AssertionsHold, avail_out
<1> QED
  BY <1>4, <1>5, <1>6, <1>7 DEF IInv

--------------------------------------------------------------------------------
(* The steps after a call of deflate.                                      *)

\* What fwrite does to dest: as far as it got the file is right, and without
\* an error everything deflate has put out is in the content.
LEMMA WrittenIsRight ==
  ASSUME IInv, WriteOut
  PROVE  /\ pc = "write" /\ dest' \in Files(Unit) /\ UNCHANGED source
         /\ IsPrefix(dest.disk, dest'.disk) /\ IsPartOfStream(dest'.disk, source)
         /\ ~dest'.error => Content(dest') = Stream
<1>1. pc = "write" /\ dest' \in Fwrite(dest, out) /\ UNCHANGED source
  BY DEF WriteOut
<1>2. /\ dest \in Files(Unit) /\ out \in Seq(Unit) /\ Stream \in Seq(Unit)
      /\ source \in Seq(Byte)
  BY Types DEF IInv
<1>3. Content(dest) \o out = Stream
  BY <1>1 DEF Stream, Pending
<1>4. /\ dest' \in Files(Unit) /\ IsPrefix(dest.disk, dest'.disk)
      /\ IsPrefix(dest'.disk, Stream)
      /\ ~dest'.error => Content(dest') = Stream
  BY <1>1, <1>2, <1>3, FwriteFacts
<1>5. dest'.disk \in Seq(Unit)
  BY <1>4 DEF Files
<1>6. IsPartOfStream(Stream, source)
  BY <1>1, StreamOfSource
<1>7. IsPartOfStream(dest'.disk, source)
  BY <1>2, <1>4, <1>5, <1>6, PartOfStream
<1> QED
  BY <1>1, <1>4, <1>7

\* So does fwrite.
LEMMA WriteOutKeeps ==
  ASSUME IInv, WriteOut
  PROVE  IInv'
<1>1. /\ pc = "write" /\ dest' \in Files(Unit) /\ IsPartOfStream(dest'.disk, source)
      /\ ~dest'.error => Content(dest') = Stream
      /\ UNCHANGED <<source, pos, in, flush, ret>>
  BY WrittenIsRight DEF WriteOut
<1>2. OnDisk'
  BY <1>1 DEF OnDisk
<1>3. CASE dest'.error
  <2>1. /\ pc' = "returned" /\ result' = "Z_ERRNO" /\ z' = [z EXCEPT !.live = FALSE]
        /\ out' = out
    BY <1>3 DEF WriteOut, Return
  <2>2. /\ z'.taken = z.taken /\ z'.coded = z.coded /\ z'.ended = z.ended
        /\ z' \in [live : BOOLEAN, taken : Seq(Byte), coded : Nat, begun : BOOLEAN, ended : BOOLEAN]
    BY <2>1 DEF IInv, TypeOK
  <2>3. TypeOK'
    BY <1>1, <2>1, <2>2 DEF IInv, TypeOK
  <2>4. Reading' /\ Coding'
    BY <1>1, <2>1, <2>2 DEF IInv, Reading, Coding
  <2>5. Control'
    BY <1>1, <2>1, <2>2 DEF IInv, Control, AssertionsHold, avail_out
  <2> QED
    BY <1>2, <2>3, <2>4, <2>5 DEF IInv
<1>4. CASE ~dest'.error
  <2>1. /\ pc' = (IF avail_out = 0 THEN "deflate" ELSE "flush")
        /\ out' = (IF avail_out = 0 THEN <<>> ELSE out)
        /\ UNCHANGED <<z, result>>
    BY <1>4 DEF WriteOut
  <2>2. TypeOK'
    <3>1. <<>> \in Seq(Unit) /\ Len(<<>>) = 0 /\ CHUNK \in Nat
      BY EmptySeq, ChunkAssumption
    <3> QED
      BY <1>1, <2>1, <3>1 DEF IInv, TypeOK
  <2>3. Reading'
    BY <1>1, <2>1 DEF IInv, Reading
  <2>4. Stream' = Stream
    <3>1. Pending' = <<>> /\ Content(dest') = Stream
      BY <1>1, <1>4, <2>1 DEF Pending
    <3>2. Stream \in Seq(Unit)
      BY Types DEF IInv
    <3>3. Stream \o <<>> = Stream
      BY <3>2, ConcatEmptySeq
    <3>4. Stream' = Content(dest') \o Pending'
      BY DEF Stream, Content
    <3> QED
      BY <3>1, <3>3, <3>4
  <2>5. Coding'
    BY <1>1, <2>1, <2>4 DEF IInv, Coding
  <2>6. Control'
    BY <1>1, <2>1 DEF IInv, Control, AssertionsHold, avail_out
  <2> QED
    BY <1>2, <2>2, <2>3, <2>5, <2>6 DEF IInv
<1> QED
  BY <1>3, <1>4

\* What fflush does to dest, and that neither assertion fails.
LEMMA FlushedIsRight ==
  ASSUME IInv, FlushDest
  PROVE  /\ pc = "flush" /\ dest' \in Files(Unit) /\ UNCHANGED source
         /\ IsPrefix(dest.disk, dest'.disk) /\ IsPartOfStream(dest'.disk, source)
         /\ Content(dest') = Stream /\ Content(dest) = Stream
         /\ dest'.held # <<>> => dest'.error
         /\ \/ in = <<>> /\ flush # "Z_FINISH" /\ ~z.ended /\ pc' = "read" /\ UNCHANGED <<z, result>>
            \/ z.ended /\ Return("Z_OK")
<1>1. pc = "flush" /\ dest' \in Fflush(dest) /\ UNCHANGED source
  BY DEF FlushDest
<1>2. /\ dest \in Files(Unit) /\ Content(dest) \in Seq(Unit) /\ Stream \in Seq(Unit)
      /\ source \in Seq(Byte)
  BY Types DEF IInv
<1>3. Content(dest) = Stream
  <2>1. Content(dest) \o <<>> = Content(dest)
    BY <1>2, ConcatEmptySeq
  <2> QED
    BY <1>1, <2>1 DEF Stream, Pending
<1>4. /\ dest' \in Files(Unit) /\ IsPrefix(dest.disk, dest'.disk)
      /\ IsPrefix(dest'.disk, Stream) /\ Content(dest') = Stream
      /\ dest'.held # <<>> => dest'.error
  BY <1>1, <1>2, <1>3, FflushFacts
<1>5. dest'.disk \in Seq(Unit)
  BY <1>4 DEF Files
<1>6. IsPartOfStream(Stream, source)
  BY <1>1, StreamOfSource
<1>7. IsPartOfStream(dest'.disk, source)
  BY <1>2, <1>4, <1>5, <1>6, PartOfStream
<1>8. /\ z.ended => in = <<>> /\ flush = "Z_FINISH" /\ ret = "Z_STREAM_END"
      /\ ~z.ended => in = <<>> /\ flush = "Z_NO_FLUSH"
  BY <1>1 DEF IInv, Control
<1>9. \/ in = <<>> /\ flush # "Z_FINISH" /\ ~z.ended /\ pc' = "read" /\ UNCHANGED <<z, result>>
      \/ z.ended /\ Return("Z_OK")
  <2>1. CASE z.ended
    BY <1>8, <2>1 DEF FlushDest
  <2>2. CASE ~z.ended
    BY <1>8, <2>2 DEF FlushDest
  <2> QED
    BY <2>1, <2>2
<1> QED
  BY <1>1, <1>3, <1>4, <1>7, <1>9

\* So does what stdio writes out.
LEMMA FlushDestKeeps ==
  ASSUME IInv, FlushDest
  PROVE  IInv'
<1>1. /\ pc = "flush" /\ dest' \in Files(Unit) /\ IsPartOfStream(dest'.disk, source)
      /\ Content(dest') = Stream /\ Content(dest) = Stream
      /\ UNCHANGED <<source, pos, in, out, flush, ret>>
  BY FlushedIsRight DEF FlushDest
<1>2. OnDisk'
  BY <1>1 DEF OnDisk
<1>3. CASE in = <<>> /\ flush # "Z_FINISH" /\ ~z.ended /\ pc' = "read" /\ UNCHANGED <<z, result>>
  <2>1. TypeOK' /\ Reading'
    BY <1>1, <1>3 DEF IInv, TypeOK, Reading
  <2>2. Stream' = Stream
    <3>1. Pending' = <<>>
      BY <1>3 DEF Pending
    <3>2. Stream \in Seq(Unit)
      BY Types DEF IInv
    <3>3. Stream \o <<>> = Stream
      BY <3>2, ConcatEmptySeq
    <3>4. Stream' = Content(dest') \o Pending'
      BY DEF Stream, Content
    <3> QED
      BY <1>1, <3>1, <3>3, <3>4
  <2>3. Coding'
    BY <1>1, <1>3, <2>2 DEF IInv, Coding
  <2>4. Control'
    BY <1>1, <1>3 DEF IInv, Control, AssertionsHold, avail_out, TypeOK
  <2> QED
    BY <1>2, <2>1, <2>3, <2>4 DEF IInv
<1>4. CASE z.ended /\ Return("Z_OK")
  <2>1. pc' = "returned" /\ result' = "Z_OK" /\ z' = [z EXCEPT !.live = FALSE]
    BY <1>4 DEF Return
  <2>2. /\ z'.taken = z.taken /\ z'.coded = z.coded /\ z'.ended = z.ended
        /\ z' \in [live : BOOLEAN, taken : Seq(Byte), coded : Nat, begun : BOOLEAN, ended : BOOLEAN]
    BY <2>1 DEF IInv, TypeOK
  <2>3. TypeOK' /\ Reading' /\ Coding'
    BY <1>1, <2>1, <2>2 DEF IInv, TypeOK, Reading, Coding
  <2>4. Control'
    BY <1>1, <2>1, <2>2 DEF IInv, Control, AssertionsHold, avail_out
  <2> QED
    BY <1>2, <2>3, <2>4 DEF IInv
<1> QED
  BY <1>3, <1>4, FlushedIsRight

--------------------------------------------------------------------------------

\* Every step keeps it.
LEMMA StepInvariant == IInv /\ [Next]_vars => IInv'
<1> SUFFICES ASSUME IInv, [Next]_vars PROVE IInv'
  OBVIOUS
<1>1. CASE UNCHANGED vars
  BY <1>1 DEF vars, IInv, TypeOK, Reading, Control, AssertionsHold, avail_out, Coding, Stream,
              Pending, Content, OnDisk
<1>2. CASE Next
  BY <1>2, DeflateInitKeeps, ReadChunkKeeps, TakeKeeps, GiveKeeps, GiveEndKeeps,
     DeflateReturnsKeeps, WriteOutKeeps, FlushDestKeeps DEF Next
<1> QED
  BY <1>1, <1>2

\* It holds in every state.
LEMMA Invariant == Spec => []IInv
  BY InitInvariant, StepInvariant, PTL DEF Spec

\* The types, and that neither buffer ever holds more than CHUNK.
THEOREM TypeCorrect == Spec => []TypeOK
<1>1. IInv => TypeOK
  BY DEF IInv
<1> QED
  BY <1>1, Invariant, PTL

\* The assertions of def hold (zlib_util.c:59 and 61).
THEOREM NeverAborts == Spec => []AssertionsHold
<1>1. IInv => AssertionsHold
  BY DEF IInv, Control
<1> QED
  BY <1>1, Invariant, PTL

\* IsPrefix means the same in Filter.
LEMMA SamePrefix == \A s, t : F!IsPrefix(s, t) <=> IsPrefix(s, t)
  BY DEF IsPrefix, F!IsPrefix

\* What Filter demands of the outcome.
LEMMA OutcomeOfStream ==
  ASSUME NEW bytes, NEW f, NEW code, IsStream(Content(f), bytes), f.held # <<>> => f.error
  PROVE  F!Outcome(bytes, f, code)
<1>1. F!Content(f) = Content(f)
  BY DEF F!Content, Content
<1> QED
  BY <1>1 DEF F!Outcome

\* def implements Filter: at all times the file holds a part of a stream of the
\* source that only grows, and after Z_OK the whole of one, but for what a failed
\* flush has left in the buffer.
THEOREM ImplementsFilter == Spec => Compresses
<1>1. Init => F!Init
  BY DEF Init, F!Init, Output, F!Output, F!Running
<1>2. IInv /\ [Next]_vars => [F!Next]_<<source, dest, result>>
  <2> SUFFICES ASSUME IInv, Next PROVE F!Next \/ UNCHANGED <<source, dest, result>>
    BY DEF vars
  <2>1. /\ dest \in Files(Unit) /\ dest.disk \in Seq(Unit)
        /\ IsPrefix(dest.disk, dest.disk) /\ IsPartOfStream(dest.disk, source)
    <3>1. dest \in Files(Unit)
      BY DEF IInv, TypeOK
    <3>2. dest.disk \in Seq(Unit)
      BY <3>1, ContentTyping
    <3> QED
      BY <3>1, <3>2, PrefixOfConcat DEF IInv, OnDisk
  <2>2. ASSUME pc # "returned", pc' = "returned" => result' \in {"Z_ERRNO"} \cup InitErrors,
               pc' # "returned" => UNCHANGED result, UNCHANGED source,
               IsPrefix(dest.disk, dest'.disk), IsPartOfStream(dest'.disk, source)
        PROVE  F!Next
    <3>1. result = "none"
      BY <2>2 DEF IInv, Control, TypeOK
    <3>2. result' = "none" \/ result' \in {"Z_ERRNO"} \cup InitErrors
      BY <2>2, <3>1
    <3> QED
      BY <2>2, <3>1, <3>2, SamePrefix DEF F!Next, F!Outcome, F!Running, InitErrors
  <2>3. CASE DeflateInit
    BY <2>1, <2>2, <2>3 DEF DeflateInit, Return
  <2>4. CASE ReadChunk
    BY <2>1, <2>2, <2>4 DEF ReadChunk, Return
  <2>5. CASE Take \/ Give \/ GiveEnd \/ DeflateReturns
    BY <2>5 DEF Take, Give, GiveEnd, DeflateReturns
  <2>6. CASE WriteOut
    BY <2>2, <2>6, WrittenIsRight DEF WriteOut, Return
  <2>7. CASE FlushDest
    <3>1. /\ pc = "flush" /\ UNCHANGED source
          /\ IsPrefix(dest.disk, dest'.disk) /\ IsPartOfStream(dest'.disk, source)
          /\ Content(dest') = Stream
          /\ dest'.held # <<>> => dest'.error
      BY <2>7, FlushedIsRight
    <3>2. CASE pc' = "read" /\ UNCHANGED result
      BY <2>2, <3>1, <3>2
    <3>3. CASE z.ended /\ Return("Z_OK")
      <4>1. IsStream(Stream, source)
        BY <3>1, <3>3, StreamOfSource
      <4>2. result = "none" /\ result' = "Z_OK"
        BY <3>1, <3>3 DEF Return, IInv, Control, TypeOK
      <4>3. F!Outcome(source, dest', result')
        BY <3>1, <4>1, OutcomeOfStream
      <4>4. IsPartOfStream(dest'.disk, source) /\ F!IsPrefix(dest.disk, dest'.disk)
        BY <3>1, SamePrefix
      <4> QED
        BY <3>1, <4>2, <4>3, <4>4 DEF F!Next, F!Running
    <3> QED
      BY <2>7, <3>2, <3>3, FlushedIsRight
  <2> QED
    BY <2>3, <2>4, <2>5, <2>6, <2>7 DEF Next
<1> QED
  BY <1>1, <1>2, Invariant, PTL DEF Spec, Compresses, F!Spec
================================================================================
