------------------------------- MODULE DemoFiles -------------------------------
(***************************************************************************)
(* The file demos behind MainActivity.initFile, compress, getStream and    *)
(* zlib, which all run on the UI thread: zlib_example.c with its one       *)
(* global FILE fp, and the native method zlib, which compresses fp's file  *)
(* to a second one with def and decodes that one to the first with inf.    *)
(* def and inf are taken by what Filter promises of them.                  *)
(*                                                                         *)
(* A file is a sequence of units, a text a nonempty one.  dst is a         *)
(* sequence of streams, each with the text it holds and whether it is      *)
(* whole.  Where a file opened "ab+" is first read is up to the library.   *)
(***************************************************************************)
EXTENDS Naturals, Sequences, SequencesExt

CONSTANTS
  Texts,     \* arguments of compress, none empty
  Junk,      \* what a damaged stream may decode to
  READ,      \* 1024, in units: the size of getStream's buffer
  MaxFiles,  \* FILEs the process can have open
  MaxUnits,  \* bound: units in the file src
  MaxZlib    \* bound: streams in the file dst

VARIABLES
  src, dst,   \* the contents of the two files
  fp,         \* the global FILE: open, position, what it still holds to write
  files,      \* FILEs open, fp's included; none is ever closed
  append_at,  \* where a file opened "ab+" is read first: "begin" or "end"
  zlib,       \* the native zlib: "idle", or before inf the position in dp
  wanted,     \* history, while undisturbed: the texts compressed since initFile
  disturbed   \* history: a write failed, a read filled its buffer, inf decoded

filesVars == <<src, dst, fp, files, append_at, zlib, wanted, disturbed>>

NoFile == [open |-> FALSE, pos |-> 0, held |-> <<>>]
Units == {Junk} \cup UNION {{t[i] : i \in DOMAIN t} : t \in Texts}

ASSUME TextsAssumption == Texts \subseteq Seq(Units)
ASSUME SizesAssumption == {READ, MaxFiles, MaxUnits, MaxZlib} \subseteq Nat

FilesTypeOK ==
  /\ src \in Seq(Units) /\ wanted \in Seq(Units)
  /\ dst \in Seq([text : Seq(Units), whole : BOOLEAN])
  /\ fp \in [open : BOOLEAN, pos : Nat, held : Seq(Units)] /\ fp.pos <= Len(src)
  /\ files \in 0 .. MaxFiles /\ (fp.open => files > 0)
  /\ append_at \in {"begin", "end"} /\ zlib \in {"idle", "begin", "end"}
  /\ disturbed \in BOOLEAN

FilesInit ==
  /\ src = <<>> /\ dst = <<>>
  /\ fp = NoFile /\ files = 0
  /\ append_at \in {"begin", "end"}
  /\ zlib = "idle"
  /\ wanted = <<>> /\ disturbed = FALSE

\* s with t written over it from pos on.
WriteAt(s, pos, t) == SubSeq(s, 1, pos) \o t \o SubSeq(s, pos + Len(t) + 1, Len(s))

\* The process ends and starts again: the files stay.
EndProcess ==
  /\ fp' = NoFile /\ files' = 0 /\ zlib' = "idle"
  /\ UNCHANGED <<src, dst, append_at, wanted, disturbed>>

--------------------------------------------------------------------------------
(* zlib_example.c.                                                         *)

\* Mutant: an existing file is kept (mode "r+").
init_file_Keeps ==
  /\ zlib = "idle" /\ files < MaxFiles
  /\ fp' = [NoFile EXCEPT !.open = TRUE]
  /\ files' = files + 1
  /\ wanted' = <<>> /\ disturbed' = FALSE
  /\ UNCHANGED <<src, dst, append_at, zlib>>

\* fopen "w+" empties the file.  The FILE in fp so far is not closed.
init_file ==
  /\ zlib = "idle" /\ files < MaxFiles
  /\ fp' = [NoFile EXCEPT !.open = TRUE]
  /\ files' = files + 1
  /\ src' = <<>> /\ wanted' = <<>> /\ disturbed' = FALSE
  /\ UNCHANGED <<dst, append_at, zlib>>

\* fopen fails: too many files, or the path is no good.
init_file_fails ==
  /\ zlib = "idle"
  /\ fp' = NoFile
  /\ UNCHANGED <<src, dst, files, append_at, zlib, wanted, disturbed>>

\* fwrite and fflush: what does not get to the file is dropped or held back.
Flush(all, written) ==
  /\ src' = WriteAt(src, fp.pos, written)
  /\ LET rest == SubSeq(all, Len(written) + 1, Len(all))
     IN  \E held \in {rest, <<>>} :
           /\ fp' = [fp EXCEPT !.pos = @ + Len(written), !.held = held]
           /\ disturbed' = (disturbed \/ held # rest)

\* compress_stream as far as its text is written to fp as it is.  What it does
\* then with compress and uncompress, some of it undefined, is only logged.
compress_stream(text) ==
  /\ zlib = "idle" /\ fp.open
  /\ Len(src) + Len(fp.held) + Len(text) <= MaxUnits
  /\ \E written \in Prefixes(fp.held \o text) : Flush(fp.held \o text, written)
  /\ wanted' = IF disturbed' THEN <<>> ELSE wanted \o text
  /\ UNCHANGED <<dst, files, append_at, zlib>>

\* Where fp is after reading: at the end, or short of it and then anywhere
\* beyond what was read, for the library reads ahead.
ReadTo(s) == IF Len(s) < READ THEN {Len(s)} ELSE READ .. Len(s)

\* uncompress_stream: fseek writes what is held, and if it cannot, nothing is
\* read; otherwise fp is moved on, and a full buffer leaves open how far.
uncompress_stream ==
  /\ zlib = "idle" /\ fp.open
  /\ \/ \E written \in Prefixes(fp.held) \ {fp.held} : Flush(fp.held, written)
     \/ /\ src' = WriteAt(src, fp.pos, fp.held)
        /\ \E p \in ReadTo(src') : fp' = [fp EXCEPT !.pos = p, !.held = <<>>]
        /\ disturbed' = (disturbed \/ Len(src') >= READ)
  /\ UNCHANGED <<dst, files, append_at, zlib, wanted>>

\* fp is used and there is none.
UseOfNull == zlib = "idle" /\ ~fp.open /\ EndProcess

\* getStream hands a buffer nobody wrote to to NewStringUTF, which may abort.
getStream ==
  \/ uncompress_stream
  \/ zlib = "idle" /\ fp.open /\ EndProcess

--------------------------------------------------------------------------------
(* zlib of native-lib.cpp.                                                 *)

\* What def reads of src.
ReadOf(s) == IF append_at = "begin" THEN s ELSE <<>>

\* Where inf begins to read dst: behind what def has written.
AfterDef(written) == IF written THEN "end" ELSE append_at

\* Both fopens, and def.  def returns Z_OK with the whole stream or, if only
\* the last fflush failed, a part of it; otherwise any part or nothing.
zlib_def ==
  /\ zlib = "idle" /\ files + 2 <= MaxFiles
  /\ files' = files + 2
  /\ \/ /\ Len(dst) < MaxZlib
        /\ \E whole \in BOOLEAN : dst' = Append(dst, [text |-> ReadOf(src), whole |-> whole])
        /\ zlib' = AfterDef(TRUE)
     \/ UNCHANGED dst /\ zlib' = AfterDef(FALSE)
  /\ UNCHANGED <<src, fp, append_at, wanted, disturbed>>

\* What inf gets to append: of the first stream, the text or a part of it; one
\* that breaks off may yield anything before the error is noticed.
Decoded(s) ==
  Prefixes(s.text) \cup (IF s.whole THEN {} ELSE {t \o <<Junk>> : t \in Prefixes(s.text)})

\* inf, whose result nobody looks at.  The FILEs are not closed.
zlib_inf ==
  /\ zlib # "idle"
  /\ zlib' = "idle"
  /\ \/ /\ zlib = "begin" /\ dst # <<>>
        /\ \E t \in Decoded(dst[1]) : Len(src) + Len(t) <= MaxUnits /\ src' = src \o t
        /\ disturbed' = (disturbed \/ src' # src)
     \/ UNCHANGED <<src, disturbed>>
  /\ UNCHANGED <<dst, fp, files, append_at, wanted>>

\* An fopen fails, and def is called with NULL.
zlib_null == zlib = "idle" /\ files + 2 > MaxFiles /\ EndProcess

FilesNext ==
  \/ init_file \/ init_file_fails \/ UseOfNull \/ getStream
  \/ \E t \in Texts : compress_stream(t)
  \/ zlib_def \/ zlib_inf \/ zlib_null

FilesSpec == FilesInit /\ [][FilesNext]_filesVars

--------------------------------------------------------------------------------
(* Properties.                                                             *)

\* The file holds the texts compressed since initFile, one behind the other,
\* whatever reads and zlib calls came in between, unless a write was dropped,
\* getStream found more than its buffer takes (zlib_example.c:41,53) or inf
\* decoded something into it.
TextsInOrder == fp.open /\ ~disturbed => src \o fp.held = wanted

================================================================================
