--------------------------------- MODULE Stdio ---------------------------------
(***************************************************************************)
(* The part of C's stdio that zlib_util.c and the native zlib method use.  *)
(* An output FILE is what has reached the file, what the library still     *)
(* holds in its buffer, and the error flag that ferror reports.            *)
(***************************************************************************)
EXTENDS Naturals, Sequences

Files(S) == [disk : Seq(S), held : Seq(S), error : BOOLEAN]

Output(disk) == [disk |-> disk, held |-> <<>>, error |-> FALSE]

\* Everything written successfully so far.
Content(f) == f.disk \o f.held

\* The outcomes of an fwrite of all of s.  It is kept in the buffer or written
\* through; a failing write sets the flag and drops what it did not write.
Fwrite(f, s) ==
  LET all == Content(f) \o s
  IN  IF s = <<>> THEN {f}
      ELSE {[f EXCEPT !.held = @ \o s], [f EXCEPT !.disk = all, !.held = <<>>]}
             \cup {[disk |-> SubSeq(all, 1, n), held |-> <<>>, error |-> TRUE] :
                     n \in Len(f.disk) .. Len(all) - 1}

\* The outcomes of fflush.  What a failing flush did not write stays buffered.
Fflush(f) ==
  LET all == Content(f)
  IN  {[f EXCEPT !.disk = all, !.held = <<>>]}
        \cup {[disk |-> SubSeq(all, 1, n), held |-> SubSeq(all, n + 1, Len(all)), error |-> TRUE] :
                n \in Len(f.disk) .. Len(all) - 1}

\* What fread delivers of s from position pos on, at most n of it.
Fread(s, pos, n) == SubSeq(s, pos + 1, IF pos + n > Len(s) THEN Len(s) ELSE pos + n)
================================================================================
