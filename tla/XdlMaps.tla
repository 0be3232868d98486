-------------------------------- MODULE XdlMaps --------------------------------
(***************************************************************************)
(* The listing of xdl/xdl.c by memory map: xdl_iterate_by_maps reads       *)
(* /proc/self/maps line by line and looks for an ELF file of a given name; *)
(* it touches each candidate in memory to see whether it is one.           *)
(*                                                                         *)
(* Other threads map and unmap files meanwhile.  The kernel fills stdio's  *)
(* buffer with whole lines, in the order of addresses, as memory is at the *)
(* time: what is then made of a line may be out of date.                   *)
(***************************************************************************)
EXTENDS Naturals, Sequences, SequencesExt

CONSTANTS
  Areas,      \* what may be mapped: [base, perms, offset, elf, path],
              \* each at a base of its own
  FilePath,   \* the file looked for, cut into chunks
  Buffer,     \* lines that fit the buffer
  MaxChanges  \* bound: files mapped and unmapped

ASSUME MapsAssumption ==
  /\ \A a \in Areas : a.base \in Nat /\ a.path \in Seq(STRING)
  /\ FilePath \in Seq(STRING) \ {<<>>}
  /\ Buffer \in Nat \ {0} /\ MaxChanges \in Nat

VARIABLES
  memory,   \* what is mapped
  changes,  \* counts up to the bound
  step,       \* "fopen", "fgets", "check", "returned", or "killed" by a signal
  buffer,   \* lines read from the kernel
  next,     \* the address the kernel goes on from
  line,     \* the line at hand, <<>>: none
  shown,    \* history: the areas reported as "we found the elf"
  stable    \* history: the areas mapped all the time

mapsVars == <<memory, changes, step, buffer, next, line, shown, stable>>

MapsTypeOK ==
  /\ memory \subseteq Areas /\ changes \in 0 .. MaxChanges
  /\ step \in {"fopen", "fgets", "check", "returned", "killed"}
  /\ buffer \in Seq(Areas) /\ Len(buffer) <= Buffer
  /\ IF step \in {"check", "killed"} THEN line \in {<<a>> : a \in Areas} ELSE line = <<>>
  /\ shown \in Seq(Areas) /\ stable \subseteq memory
  /\ next \in Nat

MapsInit ==
  /\ memory \in SUBSET Areas
  /\ changes = 0
  /\ step = "fopen" /\ buffer = <<>> /\ next = 0 /\ line = <<>>
  /\ shown = <<>> /\ stable = memory

Change ==
  /\ step # "killed" /\ changes < MaxChanges
  /\ changes' = changes + 1
  /\ \E a \in Areas :
       memory' = IF a \in memory THEN memory \ {a} ELSE memory \cup {a}
  /\ stable' = stable \cap memory'
  /\ UNCHANGED <<step, buffer, next, line, shown>>

Fopen ==
  /\ step = "fopen"
  /\ step' \in {"fgets", "returned"}
  /\ UNCHANGED <<memory, changes, buffer, next, line, shown, stable>>

\* lines are those of memory from address next on, in order, as many as fit.
AreNext(lines) ==
  /\ \A i, j \in DOMAIN lines : i < j => lines[i].base < lines[j].base
  /\ \A a \in ToSet(lines) : a.base >= next
  /\ \A a \in memory : a.base >= next /\ a \notin ToSet(lines) =>
       Len(lines) = Buffer /\ a.base > Last(lines).base

\* fgets with an empty buffer: the kernel is asked for more.
Fill ==
  /\ step = "fgets" /\ buffer = <<>>
  /\ \E lines \in UNION {[1 .. k -> memory] : k \in 0 .. Buffer} :
       AreNext(lines) /\ buffer' = lines
  /\ IF buffer' = <<>> THEN step' = "returned" /\ UNCHANGED next
                       ELSE next' = Last(buffer').base + 1 /\ UNCHANGED step
  /\ UNCHANGED <<memory, changes, line, shown, stable>>

Fgets ==
  /\ step = "fgets" /\ buffer # <<>>
  /\ line' = <<Head(buffer)>> /\ buffer' = Tail(buffer)
  /\ step' = "check"
  /\ UNCHANGED <<memory, changes, next, shown, stable>>

\* sscanf with "r%*cxp", then the test of offset.
Scanned(a) == a.perms \in {"r-xp", "rwxp"} /\ a.offset = 0

\* Mutant: strcmp.
Named_Exactly(a) == a.path = FilePath

\* The memcmp with file_path, of the length of file_path.
Named(a) == a.path # <<>> /\ IsPrefix(FilePath, a.path)

\* The memcmp with ELFMAG reads the area, whether or not it is still there and
\* may be read; an area that is found is shown and the walk goes on.
Check ==
  /\ step = "check"
  /\ LET a == line[1]
     IN  IF Scanned(a) /\ (a \notin memory \/ a.perms = "---p")
         THEN step' = "killed" /\ UNCHANGED <<line, shown>>
         ELSE /\ step' = "fgets" /\ line' = <<>>
              /\ shown' = IF Scanned(a) /\ a.elf /\ Named(a) THEN Append(shown, a) ELSE shown
  /\ UNCHANGED <<memory, changes, buffer, next, stable>>

Walk == Fopen \/ Fill \/ Fgets \/ Check

MapsNext == Walk \/ Change

MapsSpec == MapsInit /\ [][MapsNext]_mapsVars

--------------------------------------------------------------------------------
(* Properties.                                                             *)

\* The area is what is looked for: executable, the file's first, of the name.
Target(a) == a.perms \in {"r-xp", "rwxp"} /\ a.offset = 0 /\ a.elf /\ IsPrefix(FilePath, a.path)

\* A walk that ran to its end (the buffer came back empty) has shown every
\* target that was mapped throughout, however the lines fell into buffers.
NoneSkipped ==
  step = "fgets" /\ (\A a \in memory : a.base < next) /\ buffer = <<>> =>
    \A a \in stable : Target(a) => Contains(shown, a)

================================================================================
