-------------------------------- MODULE MCDemos --------------------------------
(* The parts of the program that share nothing with any other, in one run      *)
(* of TLC: a behaviour is one of a single part, the others are at rest.         *)
EXTENDS DtlsReplay, XdlMaps, DtlsFragments, DemoFiles

CONSTANTS MaxCalls, Frames, Limit
CONSTANTS opening, closing

VARIABLES
  part,                                              \* the part that runs
  pc, call, child, traced, news,                     \* TraceChild
  follows, known, walk, at, frame_num, reported      \* Unwind

\* DemoFiles: texts of one and two units.
MCTexts == {<<opening>>, <<opening, closing>>}

\* XdlMaps: the file itself, data with and without a name, an area nobody may
\* read, the file in the layout that maps its first page read-only, and a file
\* with a longer name.
Area(base, perms, offset, elf, path) ==
  [base |-> base, perms |-> perms, offset |-> offset, elf |-> elf, path |-> path]
MCAreas ==
  { Area(1, "r-xp", 0, TRUE, <<"/lib/a.so">>),
    Area(2, "r-xp", 1, FALSE, <<"/lib/a.so">>),
    Area(3, "---p", 0, FALSE, <<>>),
    Area(4, "rwxp", 0, FALSE, <<>>),
    Area(5, "r--p", 0, TRUE, <<"/lib/a.so">>),
    Area(6, "r-xp", 0, TRUE, <<"/lib/a.so", ".1">>) }
MCFilePath == <<"/lib/a.so">>

\* DtlsFragments: more than a byte of the mask, no byte, and again more than one; the
\* first and the last do not fit into the buffer together.
MCLengths == <<9, 0, 11>>

tVars == <<pc, call, child, traced, news>>
uVars == <<follows, known, walk, at, frame_num, reported>>

T == INSTANCE TraceChild
U == INSTANCE Unwind

\* At rest: no child, the walk and the listing are over, no file, the flight is there.
InitParts ==
  /\ part \in {"test1", "unwind", "files", "maps", "replay", "fragments"}
  /\ T!Init
  /\ IF part = "unwind" THEN U!Init
     ELSE /\ follows = [f \in 1 .. Frames |-> 0] /\ known = {} /\ walk = "unwind_get"
          /\ at = 0 /\ frame_num = 0 /\ reported = {1}
  /\ FilesInit /\ (part # "files" => append_at = "begin")
  /\ IF part = "maps" THEN MapsInit
     ELSE /\ memory = {} /\ changes = 0 /\ step = "returned" /\ buffer = <<>>
          /\ next = 0 /\ line = <<>> /\ shown = <<>> /\ stable = {}
  /\ IF part = "fragments" THEN FragmentsInit
     ELSE /\ mtu = 0 /\ cur_msg = 4 /\ cur_msg_p = 0 /\ out_left = 0 /\ sent = {}
          /\ hs = [i \in Slots |-> Empty] /\ total_bytes_buffered = 0
          /\ in_msg_seq = 4 /\ error = "none"
  /\ ReplayInit

NextPart ==
  \/ part = "test1" /\ T!Next /\ UNCHANGED <<part, uVars, filesVars, mapsVars, fragmentVars, replayVars>>
  \/ part = "unwind" /\ U!Next /\ UNCHANGED <<part, tVars, filesVars, mapsVars, fragmentVars, replayVars>>
  \/ part = "files" /\ FilesNext /\ UNCHANGED <<part, tVars, uVars, mapsVars, fragmentVars, replayVars>>
  \/ part = "maps" /\ MapsNext /\ UNCHANGED <<part, tVars, uVars, filesVars, fragmentVars, replayVars>>
  \/ part = "replay" /\ ReplayNext /\ UNCHANGED <<part, tVars, uVars, filesVars, mapsVars, fragmentVars>>
  \/ part = "fragments" /\ FragmentsNext /\ UNCHANGED <<part, tVars, uVars, filesVars, mapsVars, replayVars>>

SpecParts == /\ InitParts /\ [][NextPart]_<<part, tVars, uVars, filesVars, mapsVars, fragmentVars, replayVars>>
             /\ T!Fairness /\ U!Fairness /\ FragmentsFairness

\* The properties of the parts, under names of their own.
Test1Returns == T!Returns
WalkEnds == U!Ends
================================================================================
