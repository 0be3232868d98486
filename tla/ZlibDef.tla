-------------------------------- MODULE ZlibDef --------------------------------
(***************************************************************************)
(* def of zlib_util.c: compresses the file source into the file dest,      *)
(* CHUNK bytes at a time, with zlib's deflate.                             *)
(*                                                                         *)
(* deflate is modelled by the contract of zlib.h that def is written       *)
(* against, in small steps: it may take input and give output in any order *)
(* and hold input back; it stops when the output buffer is full, or the    *)
(* input is used up and, under Z_FINISH, the stream is complete.  Any      *)
(* fread, fwrite or fflush may fail.                                       *)
(***************************************************************************)
EXTENDS ZFormat, Stdio

CONSTANTS
  Sources,  \* contents the source file may have
  CHUNK,    \* size of the in and out buffers
  MaxRun    \* bound: bytes one data unit of the compressed stream carries

ASSUME ChunkAssumption == CHUNK \in Nat \ {0} /\ MaxRun \in Nat \ {0}
ASSUME SourcesAssumption == Sources \subseteq Seq(Byte)

VARIABLES
  pc,      \* control: init, read, deflate, write, flush, returned, or abort
  source,  \* content of the source file
  pos,     \* read position in it
  in,      \* strm.next_in and strm.avail_in: what is left of the in buffer
  out,     \* the out buffer up to strm.next_out
  z,       \* deflate's state: live, input taken, how much of it is coded, begun, ended
  flush, ret,
  dest,    \* the output FILE
  result   \* what def returned

vars == <<pc, source, pos, in, out, z, flush, ret, dest, result>>

avail_out == CHUNK - Len(out)

Init ==
  /\ pc = "init"
  /\ source \in Sources /\ pos = 0
  /\ in = <<>> /\ out = <<>>
  /\ z = [live |-> FALSE, taken |-> <<>>, coded |-> 0, begun |-> FALSE, ended |-> FALSE]
  /\ flush = "Z_NO_FLUSH" /\ ret = "Z_OK"
  /\ dest = Output(<<>>)
  /\ result = "none"

\* deflateEnd and return.
Return(code) ==
  /\ pc' = "returned" /\ result' = code
  /\ z' = [z EXCEPT !.live = FALSE]

DeflateInit ==
  /\ pc = "init"
  /\ \/ pc' = "read" /\ z' = [z EXCEPT !.live = TRUE] /\ UNCHANGED result
     \/ \E code \in InitErrors : Return(code)
  /\ UNCHANGED <<source, pos, in, out, flush, ret, dest>>

\* A regular file delivers less than CHUNK bytes only at its end.
FlushFor(chunk) == IF Len(chunk) < CHUNK THEN "Z_FINISH" ELSE "Z_NO_FLUSH"

ReadChunk ==
  /\ pc = "read"
  /\ \/ LET chunk == Fread(source, pos, CHUNK)
        IN  /\ in' = chunk /\ pos' = pos + Len(chunk)
            /\ flush' = FlushFor(chunk)
            /\ pc' = "deflate" /\ out' = <<>>
            /\ UNCHANGED <<z, result>>
     \/ Return("Z_ERRNO") /\ UNCHANGED <<pos, in, out, flush>>
  /\ UNCHANGED <<source, ret, dest>>

(***************************************************************************)
(* Inside one call of deflate (external).                                  *)
(***************************************************************************)

Take ==
  /\ pc = "deflate" /\ in # <<>> /\ ~z.ended
  /\ z' = [z EXCEPT !.taken = Append(@, Head(in))]
  /\ in' = Tail(in)
  /\ UNCHANGED <<pc, source, pos, out, flush, ret, dest, result>>

\* The header first, then the coded form of some of the input taken.
Give ==
  /\ pc = "deflate" /\ avail_out > 0 /\ ~z.ended
  /\ IF ~z.begun
     THEN out' = Append(out, Data(<<>>)) /\ z' = [z EXCEPT !.begun = TRUE]
     ELSE \E n \in 1 .. MaxRun :
            /\ z.coded + n <= Len(z.taken)
            /\ out' = Append(out, Data(SubSeq(z.taken, z.coded + 1, z.coded + n)))
            /\ z' = [z EXCEPT !.coded = @ + n]
  /\ UNCHANGED <<pc, source, pos, in, flush, ret, dest, result>>

GiveEnd ==
  /\ pc = "deflate" /\ avail_out > 0 /\ ~z.ended
  /\ flush = "Z_FINISH" /\ in = <<>>
  /\ z.begun /\ z.coded = Len(z.taken)
  /\ out' = Append(out, End(z.taken))
  /\ z' = [z EXCEPT !.ended = TRUE]
  /\ UNCHANGED <<pc, source, pos, in, flush, ret, dest, result>>

DeflateReturns ==
  /\ pc = "deflate"
  /\ avail_out = 0 \/ z.ended \/ (in = <<>> /\ flush = "Z_NO_FLUSH")
  /\ ret' \in CASE z.ended /\ in = <<>> -> {"Z_STREAM_END"}
                [] z.ended /\ in # <<>> -> {"Z_BUF_ERROR"}
                [] OTHER -> {"Z_OK", "Z_BUF_ERROR"}
  /\ pc' = "write"
  /\ UNCHANGED <<source, pos, in, out, z, flush, dest, result>>

(***************************************************************************)
(* After the call.                                                         *)
(***************************************************************************)

\* Mutant: deflate is called once for each chunk.
WriteOut_Once ==
  /\ pc = "write"
  /\ dest' \in Fwrite(dest, out)
  /\ IF dest'.error
     THEN Return("Z_ERRNO")
     ELSE pc' = "flush" /\ UNCHANGED <<z, result>>
  /\ UNCHANGED <<source, pos, in, out, flush, ret>>

\* Mutant: the result of fwrite is not looked at.
WriteOut_Unchecked ==
  /\ pc = "write"
  /\ dest' \in Fwrite(dest, out)
  /\ pc' = IF avail_out = 0 THEN "deflate" ELSE "flush"
  /\ out' = IF avail_out = 0 THEN <<>> ELSE out
  /\ UNCHANGED <<source, pos, in, z, flush, ret, result>>

WriteOut ==
  /\ pc = "write"
  /\ dest' \in Fwrite(dest, out)
  /\ IF dest'.error
     THEN Return("Z_ERRNO") /\ UNCHANGED out
     ELSE /\ pc' = IF avail_out = 0 THEN "deflate" ELSE "flush"
          /\ out' = IF avail_out = 0 THEN <<>> ELSE out
          /\ UNCHANGED <<z, result>>
  /\ UNCHANGED <<source, pos, in, flush, ret>>

\* Mutant: the loop ends when a chunk comes back empty.
FlushDest_Endless ==
  /\ pc = "flush"
  /\ dest' \in Fflush(dest)
  /\ pc' = "read" /\ UNCHANGED <<z, result>>
  /\ UNCHANGED <<source, pos, in, out, flush, ret>>

\* fflush, the assertions, and the end of the outer loop.
FlushDest ==
  /\ pc = "flush"
  /\ dest' \in Fflush(dest)
  /\ CASE in # <<>> \/ (flush = "Z_FINISH" /\ ret # "Z_STREAM_END") ->
            pc' = "abort" /\ UNCHANGED <<z, result>>
       [] in = <<>> /\ flush # "Z_FINISH" ->
            pc' = "read" /\ UNCHANGED <<z, result>>
       [] in = <<>> /\ flush = "Z_FINISH" /\ ret = "Z_STREAM_END" ->
            Return("Z_OK")
  /\ UNCHANGED <<source, pos, in, out, flush, ret>>

Next ==
  \/ DeflateInit \/ ReadChunk
  \/ Take \/ Give \/ GiveEnd \/ DeflateReturns
  \/ WriteOut \/ FlushDest

Spec == Init /\ [][Next]_vars
FairSpec == Spec /\ WF_vars(Next)

--------------------------------------------------------------------------------

Ended == result # "none"

\* Types, and the sizes of the two buffers (zlib_util.c:20-21): neither ever
\* holds more than CHUNK.
TypeOK ==
  /\ pc \in {"init", "read", "deflate", "write", "flush", "returned", "abort"}
  /\ source \in Sources /\ pos \in 0 .. Len(source)
  /\ in \in Seq(Byte) /\ Len(in) <= CHUNK
  /\ out \in Seq(Unit) /\ Len(out) <= CHUNK
  /\ z \in [live : BOOLEAN, taken : Seq(Byte), coded : Nat, begun : BOOLEAN, ended : BOOLEAN]
  /\ z.coded <= Len(z.taken)
  /\ dest \in Files(Unit)
  /\ flush \in {"Z_NO_FLUSH", "Z_FINISH"}
  /\ ret \in {"Z_OK", "Z_BUF_ERROR", "Z_STREAM_END"}
  /\ result \in {"none", "Z_OK", "Z_ERRNO"} \cup InitErrors

\* The assertions of def hold (zlib_util.c:59 and 61): deflate has used up the
\* chunk when the inner loop ends, and has completed the stream when the outer
\* one does.
AssertionsHold == pc # "abort"

\* def is a filter from bytes to a zlib stream: the file holds a prefix of one
\* at all times, and all of one when def returns Z_OK, unless the last fflush
\* failed, whose result def ignores (zlib_util.c:58).
F == INSTANCE Filter WITH input <- source, Part <- LAMBDA i, o : IsPartOfStream(o, i),
                          Whole <- LAMBDA i, o : IsStream(o, i)
Compresses == F!Spec

\* def always returns.
Returns == <>Ended
================================================================================
