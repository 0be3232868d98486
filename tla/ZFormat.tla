-------------------------------- MODULE ZFormat --------------------------------
(***************************************************************************)
(* Compressed streams as zlib_util.c sees them.  A stream is a sequence of *)
(* units: a data unit completes the output it carries (none, for a         *)
(* header), the end unit carries the checksum of all the data, modelled by *)
(* the data itself.  A unit nobody can decode is "bad"; "dict" asks for a  *)
(* preset dictionary.                                                      *)
(***************************************************************************)
EXTENDS Naturals, Sequences, SequencesExt

CONSTANT Byte  \* what the uncompressed files consist of

Unit == [kind : {"data", "end", "bad", "dict"}, bytes : Seq(Byte)]

Data(bytes) == [kind |-> "data", bytes |-> bytes]
End(bytes) == [kind |-> "end", bytes |-> bytes]
Bad == [kind |-> "bad", bytes |-> <<>>]
Dict == [kind |-> "dict", bytes |-> <<>>]

\* What deflateInit and inflateInit may answer instead of Z_OK.
InitErrors == {"Z_MEM_ERROR", "Z_STREAM_ERROR", "Z_VERSION_ERROR"}

IsData(s) == \A i \in DOMAIN s : s[i].kind = "data"

\* What the first n of a sequence of data units decode to.
Decoded(s) ==
  LET decoded[n \in 0 .. Len(s)] == IF n = 0 THEN <<>> ELSE decoded[n - 1] \o s[n].bytes
  IN  decoded

\* What all of them decode to.
Plain(s) == Decoded(s)[Len(s)]

\* s is the whole stream of bytes.
IsStream(s, bytes) ==
  /\ s # <<>> /\ Last(s) = End(bytes)
  /\ IsData(Front(s)) /\ Plain(Front(s)) = bytes

\* s is a stream of bytes as far as it goes.
IsPartOfStream(s, bytes) ==
  \/ IsStream(s, bytes)
  \/ IsData(s) /\ IsPrefix(Plain(s), bytes)

\* The data units s begins with.
Leading(s) ==
  SubSeq(s, 1, CHOOSE n \in 0 .. Len(s) :
                 /\ IsData(SubSeq(s, 1, n))
                 /\ n < Len(s) => s[n + 1].kind # "data")

\* s begins with a whole stream of bytes.
BeginsWithStream(s, bytes) == \E n \in 0 .. Len(s) : IsStream(SubSeq(s, 1, n), bytes)
================================================================================
