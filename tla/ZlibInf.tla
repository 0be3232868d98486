-------------------------------- MODULE ZlibInf --------------------------------
(***************************************************************************)
(* inf of zlib_util.c: decompresses the file source into the file dest,    *)
(* CHUNK units at a time, with zlib's inflate.                             *)
(*                                                                         *)
(* inflate is modelled by the contract of zlib.h, in small steps: it       *)
(* decodes one unit after the other and stops when it has used up the      *)
(* input, or filled the output buffer, or reached the end of the stream or *)
(* something it cannot decode.  It checks the data only at the end.  Any   *)
(* fread, fwrite or fflush may fail, and inflate may run out of memory.    *)
(***************************************************************************)
EXTENDS ZFormat, Stdio

CONSTANTS
  Sources,  \* contents the source file may have, as sequences of units
  CHUNK     \* size of the in and out buffers

ASSUME ChunkAssumption == CHUNK \in Nat \ {0}
ASSUME SourcesAssumption == Sources \subseteq Seq(Unit)

VARIABLES
  pc,      \* control: init, read, inflate, check, write, returned
  source,  \* content of the source file
  pos,     \* read position in it
  in,      \* strm.next_in and strm.avail_in: what is left of the in buffer
  out,     \* the out buffer up to strm.next_out
  z,       \* inflate's state: live, decoded bytes, how many were given out, end seen
  ret,
  dest,    \* the output FILE
  result,  \* what inf returned
  failed   \* history: memory ran out, or the input could not be read

vars == <<pc, source, pos, in, out, z, ret, dest, result, failed>>

avail_out == CHUNK - Len(out)

Init ==
  /\ pc = "init"
  /\ source \in Sources /\ pos = 0
  /\ in = <<>> /\ out = <<>>
  /\ z = [live |-> FALSE, decoded |-> <<>>, given |-> 0, ended |-> FALSE]
  /\ ret = "Z_OK"
  /\ dest = Output(<<>>)
  /\ result = "none" /\ failed = FALSE

\* inflateEnd and return.
Return(code) ==
  /\ pc' = "returned" /\ result' = code
  /\ z' = [z EXCEPT !.live = FALSE]

InflateInit ==
  /\ pc = "init"
  /\ \/ pc' = "read" /\ z' = [z EXCEPT !.live = TRUE] /\ UNCHANGED <<result, failed>>
     \/ (\E code \in InitErrors : Return(code)) /\ failed' = TRUE
  /\ UNCHANGED <<source, pos, in, out, ret, dest>>

\* Mutant: the last return says Z_OK whatever happened.
FinalCode_AlwaysOk == "Z_OK"

\* The code of the last return.
FinalCode == IF ret = "Z_STREAM_END" THEN "Z_OK" ELSE "Z_DATA_ERROR"

\* Mutant: an empty chunk is not taken for the end of the file.
ReadChunk_NoBreak ==
  /\ pc = "read"
  /\ \/ LET chunk == Fread(source, pos, CHUNK)
        IN  /\ in' = chunk /\ pos' = pos + Len(chunk)
            /\ pc' = "inflate" /\ out' = <<>>
            /\ UNCHANGED <<z, result, failed>>
     \/ Return("Z_ERRNO") /\ failed' = TRUE /\ UNCHANGED <<pos, in, out>>
  /\ UNCHANGED <<source, ret, dest>>

ReadChunk ==
  /\ pc = "read"
  /\ \/ LET chunk == Fread(source, pos, CHUNK)
        IN  /\ in' = chunk /\ pos' = pos + Len(chunk)
            /\ IF chunk = <<>>
               THEN Return(FinalCode) /\ UNCHANGED out
               ELSE pc' = "inflate" /\ out' = <<>> /\ UNCHANGED <<z, result>>
            /\ UNCHANGED failed
     \/ Return("Z_ERRNO") /\ failed' = TRUE /\ UNCHANGED <<pos, in, out>>
  /\ UNCHANGED <<source, ret, dest>>

(***************************************************************************)
(* Inside one call of inflate (external).                                  *)
(***************************************************************************)

Pending == z.given < Len(z.decoded)

Decode ==
  /\ pc = "inflate" /\ ~Pending /\ ~z.ended
  /\ in # <<>> /\ Head(in).kind = "data"
  /\ z' = [z EXCEPT !.decoded = @ \o Head(in).bytes]
  /\ in' = Tail(in)
  /\ UNCHANGED <<pc, source, pos, out, ret, dest, result, failed>>

Give ==
  /\ pc = "inflate" /\ Pending /\ avail_out > 0
  /\ out' = Append(out, z.decoded[z.given + 1])
  /\ z' = [z EXCEPT !.given = @ + 1]
  /\ UNCHANGED <<pc, source, pos, in, ret, dest, result, failed>>

DecodeEnd ==
  /\ pc = "inflate" /\ ~Pending /\ ~z.ended
  /\ in # <<>> /\ Head(in) = End(z.decoded)
  /\ in' = Tail(in)
  /\ z' = [z EXCEPT !.ended = TRUE]
  /\ UNCHANGED <<pc, source, pos, out, ret, dest, result, failed>>

\* What the next unit, which is no data, makes inflate return.
Rejects ==
  CASE Head(in).kind = "dict" -> "Z_NEED_DICT"
    [] OTHER -> "Z_DATA_ERROR"

InflateReturns ==
  /\ pc = "inflate"
  /\ \/ z.ended /\ ret' = "Z_STREAM_END" /\ UNCHANGED failed
     \/ /\ ~z.ended /\ (avail_out = 0 \/ (~Pending /\ in = <<>>))
        /\ ret' \in {"Z_OK", "Z_BUF_ERROR"} /\ UNCHANGED failed
     \/ /\ ~z.ended /\ ~Pending /\ in # <<>>
        /\ Head(in).kind # "data" /\ Head(in) # End(z.decoded)
        /\ ret' = Rejects /\ UNCHANGED failed
     \/ ret' = "Z_MEM_ERROR" /\ failed' = TRUE
  /\ pc' = "check"
  /\ UNCHANGED <<source, pos, in, out, z, dest, result>>

(***************************************************************************)
(* After the call.                                                         *)
(***************************************************************************)

\* Mutant: a call that made no progress is an error.
Fatal_BufError == {"Z_NEED_DICT", "Z_DATA_ERROR", "Z_MEM_ERROR", "Z_BUF_ERROR"}

Fatal == {"Z_NEED_DICT", "Z_DATA_ERROR", "Z_MEM_ERROR"}

\* The switch: what was decoded in a call that fails is not written.
CheckReturn ==
  /\ pc = "check"
  /\ CASE ret = "Z_NEED_DICT" -> Return("Z_DATA_ERROR")
       [] ret \in Fatal \ {"Z_NEED_DICT"} -> Return(ret)
       [] ret \notin Fatal -> pc' = "write" /\ UNCHANGED <<z, result>>
  /\ UNCHANGED <<source, pos, in, out, ret, dest, failed>>

\* The two loop conditions.
AfterWrite ==
  CASE avail_out = 0 -> "inflate"
    [] avail_out # 0 /\ ret # "Z_STREAM_END" -> "read"
    [] avail_out # 0 /\ ret = "Z_STREAM_END" -> "end"

\* fwrite, fflush, and the ends of the two loops.
WriteOut ==
  /\ pc = "write"
  /\ \E written \in Fwrite(dest, out) :
       IF written.error
       THEN Return("Z_ERRNO") /\ dest' = written /\ UNCHANGED out
       ELSE /\ dest' \in Fflush(written)
            /\ out' = <<>>
            /\ IF AfterWrite = "end"
               THEN Return(FinalCode)
               ELSE pc' = AfterWrite /\ UNCHANGED <<z, result>>
  /\ UNCHANGED <<source, pos, in, ret, failed>>

Next ==
  \/ InflateInit \/ ReadChunk
  \/ Decode \/ Give \/ DecodeEnd \/ InflateReturns
  \/ CheckReturn \/ WriteOut

Spec == Init /\ [][Next]_vars
FairSpec == Spec /\ WF_vars(Next)

--------------------------------------------------------------------------------

Ended == result # "none"

\* Types, and the sizes of the two buffers (zlib_util.c:79-80).
TypeOK ==
  /\ pc \in {"init", "read", "inflate", "check", "write", "returned"}
  /\ source \in Sources /\ pos \in 0 .. Len(source)
  /\ in \in Seq(Unit) /\ Len(in) <= CHUNK
  /\ out \in Seq(Byte) /\ Len(out) <= CHUNK
  /\ z \in [live : BOOLEAN, decoded : Seq(Byte), given : Nat, ended : BOOLEAN]
  /\ z.given <= Len(z.decoded)
  /\ dest \in Files(Byte) /\ failed \in BOOLEAN
  /\ ret \in Fatal \cup {"Z_OK", "Z_BUF_ERROR", "Z_STREAM_END"}
  /\ result \in {"none", "Z_OK", "Z_ERRNO", "Z_DATA_ERROR"} \cup InitErrors

\* inf is a filter from units to bytes: the file holds a prefix of what the
\* stream decodes to at all times, be the stream sound or not, and Z_OK means
\* that it was sound and was decoded to its end (zlib_util.c:125).
F == INSTANCE Filter WITH input <- source, Part <- LAMBDA i, o : IsPrefix(o, Plain(Leading(i))),
                          Whole <- LAMBDA i, o : BeginsWithStream(i, o)
Decompresses == F!Spec

\* Nothing is refused without a reason: if all the data of a sound stream is
\* there, whatever follows it and however the chunks cut it, then inf returns
\* Z_OK unless memory, reading or writing failed.  In particular a call of
\* inflate that makes no progress (Z_BUF_ERROR) ends nothing.
SoundIsAccepted ==
  /\ Ended /\ ~failed /\ ~dest.error
  /\ BeginsWithStream(source, Plain(Leading(source)))
  => result = "Z_OK"

\* inf always returns, for truncated and damaged files too.
Returns == <>Ended
================================================================================
