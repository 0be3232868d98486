------------------------------- MODULE XdlHandle -------------------------------
(***************************************************************************)
(* Handles of xdl/xdl.c: xdl_open finds a loaded library by its name,      *)
(* xdl_sym loads the library's dynamic section into the handle on its      *)
(* first call and looks a symbol up, xdl_close frees the handle.           *)
(*                                                                         *)
(* One handle at a time, shared by the threads of a client that closes it  *)
(* when no call is under way.  Libraries come and go meanwhile, because a  *)
(* handle takes no reference on its library.  Of a handle's tables only    *)
(* the fields that are non-zero matter; XdlLookup is the lookup in them.   *)
(* The heap is the set of blocks handed out and not freed.                 *)
(* Reading through a field that is not set, or memory that is unmapped,    *)
(* is undefined in C: nothing is said about what happens then.             *)
(***************************************************************************)
EXTENDS Naturals, Sequences, SequencesExt

CONSTANTS
  Threads,
  Libs,
  NameOf,     \* NameOf[l]: dlpi_name, cut into chunks; <<>> if NULL or empty
  Separators, \* the chunks that end with a slash
  Fixed,      \* libraries with dlpi_addr = 0
  Dynamic,    \* Dynamic[l]: the tags of l's PT_DYNAMIC in order; <<>> if none
  Exports,    \* Exports[l]: the symbols l defines
  Symbols,    \* symbol names
  Filenames,  \* what xdl_open may be asked for
  Blocks,     \* addresses calloc and strdup may hand out; 0 is NULL
  MaxLoads    \* bound: libraries loaded over time

Root == "/"

ASSUME NameAssumption ==
  /\ \A l \in Libs : NameOf[l] \in Seq(STRING)
  /\ \A f \in Filenames : f \in Seq(STRING) /\ f # <<>>
ASSUME LibAssumption ==
  /\ Fixed \subseteq Libs
  /\ \A l \in Libs : Exports[l] \subseteq Symbols /\ Dynamic[l] \in Seq(STRING)
ASSUME BlockAssumption == Blocks \subseteq Nat \ {0}
ASSUME LoadsAssumption == MaxLoads \in Nat

VARIABLES
  linkmap,   \* the loaded libraries in load order: library and load address
  loads,     \* libraries loaded so far: gives every load its own address
  handle,    \* what xdl_open returned: none yet, NULL, garbage or an xdl_t
  self,      \* the xdl_t: library, address, dynsym_try_load, fields set
  heap,      \* the blocks allocated by xdl_open and not freed
  mem,       \* the pointers to them: to the xdl_t and its pathname, 0 if NULL
  opening,   \* entry of linkmap that xdl_open has found, 0: not in xdl_open
  call,      \* control of xdl_sym on each thread: pc, symbol, next entry
  ret,       \* what xdl_sym returned last on each thread
  undefined, \* the C program has no defined behaviour from here on
  overlap    \* history: a first call was not over when another one came

allocation == <<heap, mem, opening>>
vars == <<linkmap, loads, handle, self, allocation, call, ret, undefined, overlap>>

Null == [kind |-> "NULL"]
Address(l, b, s) == [kind |-> "address", lib |-> l, bias |-> b, sym |-> s]

NoMemory == [self |-> 0, pathname |-> 0]
NoSelf == [lib |-> "none", bias |-> 0, tried |-> FALSE, fields |-> {}]
NoCall == [pc |-> "idle", sym |-> "none", entry |-> 1]

Idle(t) == call[t].pc = "idle"
FirstCall(t) == call[t].pc \in {"claim", "load", "check"}

Init ==
  /\ linkmap = <<>> /\ loads = 0
  /\ handle = "none" /\ self = NoSelf
  /\ heap = {} /\ mem = NoMemory /\ opening = 0
  /\ call = [t \in Threads |-> NoCall]
  /\ ret = [t \in Threads |-> Null]
  /\ undefined = FALSE
  /\ overlap = FALSE

(***************************************************************************)
(* The dynamic linker (external), whose lock dl_iterate_phdr holds.        *)
(***************************************************************************)

Loaded(l, b) == \E k \in DOMAIN linkmap : linkmap[k] = [lib |-> l, bias |-> b]

Dlopen(l) ==
  /\ ~undefined /\ opening = 0 /\ loads < MaxLoads
  /\ \A k \in DOMAIN linkmap : linkmap[k].lib # l
  /\ loads' = loads + 1
  /\ linkmap' = Append(linkmap, [lib |-> l, bias |-> IF l \in Fixed THEN 0 ELSE loads + 1])
  /\ UNCHANGED <<handle, self, allocation, call, ret, undefined, overlap>>

Dlclose(k) ==
  /\ ~undefined /\ opening = 0
  /\ linkmap' = RemoveAt(linkmap, k)
  /\ UNCHANGED <<loads, handle, self, allocation, call, ret, undefined, overlap>>

(***************************************************************************)
(* xdl_open and xdl_close.                                                 *)
(***************************************************************************)

\* Mutant: the arguments of xdl_util_ends_with are swapped.
Matches_Swapped(filename, name) ==
  CASE filename[1] = Root /\ name[1] = Root -> filename = name
    [] filename[1] = Root /\ name[1] # Root -> IsSuffix(filename, name)
    [] filename[1] # Root /\ name[1] = Root -> IsSuffix(name, filename)
    [] filename[1] # Root /\ name[1] # Root -> filename = name

\* The name check of xdl_iterate_callback: equal if both or neither start at
\* the root, else the absolute one ends with the other.
Matches(filename, name) ==
  CASE filename[1] = Root /\ name[1] = Root -> filename = name
    [] filename[1] = Root /\ name[1] # Root -> IsSuffix(name, filename)
    [] filename[1] # Root /\ name[1] = Root -> IsSuffix(filename, name)
    [] filename[1] # Root /\ name[1] # Root -> filename = name

\* The entries the callback does not pass over.
Candidates(filename) ==
  {k \in DOMAIN linkmap :
     /\ linkmap[k].bias # 0 /\ NameOf[linkmap[k].lib] # <<>>
     /\ Matches(filename, NameOf[linkmap[k].lib])}

\* dl_iterate_phdr runs under the linker's lock and the callback stops it at the
\* first match; without one the local variable that is returned was never written.
Open(filename) ==
  /\ ~undefined /\ handle = "none" /\ opening = 0
  /\ LET found == Candidates(filename) IN
       \/ /\ found = {}
          /\ handle' \in {"NULL", "garbage"}
          /\ UNCHANGED opening
       \/ \E k \in found :
            /\ \A j \in found : k <= j
            /\ opening' = k
            /\ UNCHANGED handle
  /\ UNCHANGED <<linkmap, loads, self, heap, mem, call, ret, undefined, overlap>>

\* The callback has found the library: calloc for the structure, which may fail.
Allocate ==
  /\ ~undefined /\ opening # 0 /\ mem.self = 0
  /\ \/ /\ handle' = "NULL" /\ opening' = 0
        /\ UNCHANGED <<heap, mem>>
     \/ \E b \in Blocks \ heap :
          /\ heap' = heap \cup {b}
          /\ mem' = [mem EXCEPT !.self = b]
          /\ UNCHANGED <<handle, opening>>
  /\ UNCHANGED <<linkmap, loads, self, call, ret, undefined, overlap>>

\* strdup for the name, and the rest of the fields.
CopyName ==
  /\ ~undefined /\ opening # 0 /\ mem.self # 0
  /\ \E b \in Blocks \ heap :
       /\ heap' = heap \cup {b}
       /\ mem' = [mem EXCEPT !.pathname = b]
  /\ self' = [lib |-> linkmap[opening].lib, bias |-> linkmap[opening].bias,
              tried |-> FALSE, fields |-> {}]
  /\ handle' = "open" /\ opening' = 0
  /\ UNCHANGED <<linkmap, loads, call, ret, undefined, overlap>>

\* Mutant: the structure is not freed when strdup fails.
CopyNameFails_Leaks ==
  /\ ~undefined /\ opening # 0 /\ mem.self # 0
  /\ mem' = [mem EXCEPT !.self = 0]
  /\ handle' = "NULL" /\ opening' = 0
  /\ UNCHANGED <<linkmap, loads, self, heap, call, ret, undefined, overlap>>

\* strdup fails: the structure is freed again, and its pointer is NULL.
CopyNameFails ==
  /\ ~undefined /\ opening # 0 /\ mem.self # 0
  /\ heap' = heap \ {mem.self}
  /\ mem' = [mem EXCEPT !.self = 0]
  /\ handle' = "NULL" /\ opening' = 0
  /\ UNCHANGED <<linkmap, loads, self, call, ret, undefined, overlap>>

\* Closing NULL does nothing, closing garbage frees what was never allocated, and
\* so would freeing a block twice.
Close ==
  /\ ~undefined /\ handle # "none"
  /\ \A t \in Threads : Idle(t)
  /\ \/ /\ handle = "garbage"
        /\ undefined' = TRUE
        /\ UNCHANGED <<handle, self, heap, mem, overlap>>
     \/ /\ handle # "garbage"
        /\ LET freed == {mem.self, mem.pathname} \ {0} IN
             /\ undefined' = ~(freed \subseteq heap)
             /\ heap' = heap \ freed
        /\ handle' = "none" /\ self' = NoSelf /\ mem' = NoMemory
        /\ overlap' = FALSE
  /\ UNCHANGED <<linkmap, loads, opening, call, ret>>

(***************************************************************************)
(* xdl_sym.                                                                *)
(***************************************************************************)

\* The bytes of the library are still where they were when it was opened.
Mapped == Loaded(self.lib, self.bias)

Return(t, r) ==
  /\ ret' = [ret EXCEPT ![t] = r]
  /\ call' = [call EXCEPT ![t] = NoCall]

GoOn(t, pc, entry) ==
  call' = [call EXCEPT ![t] = [@ EXCEPT !.pc = pc, !.entry = entry]]

\* The call, up to the test of dynsym_try_load.
SymEnter(t, s) ==
  /\ ~undefined /\ Idle(t)
  /\ \/ /\ handle = "NULL"
        /\ Return(t, Null)
        /\ UNCHANGED <<undefined, overlap>>
     \/ /\ handle = "garbage"
        /\ undefined' = TRUE
        /\ UNCHANGED <<call, ret, overlap>>
     \/ /\ handle = "open"
        /\ call' = [call EXCEPT ![t] = [pc |-> IF self.tried THEN "find" ELSE "claim",
                                        sym |-> s, entry |-> 1]]
        /\ overlap' = (overlap \/ \E u \in Threads : FirstCall(u))
        /\ UNCHANGED <<ret, undefined>>
  /\ UNCHANGED <<linkmap, loads, handle, self, allocation>>

\* Set the flag and look for PT_DYNAMIC among the program headers, which are
\* part of the library's image.
SymClaim(t) ==
  /\ ~undefined /\ call[t].pc = "claim"
  /\ self' = [self EXCEPT !.tried = TRUE]
  /\ \/ ~Mapped /\ undefined' = TRUE /\ UNCHANGED <<call, ret>>
     \/ Mapped /\ Dynamic[self.lib] = <<>> /\ Return(t, Null) /\ UNCHANGED undefined
     \/ Mapped /\ Dynamic[self.lib] # <<>> /\ GoOn(t, "load", 1) /\ UNCHANGED <<ret, undefined>>
  /\ UNCHANGED <<linkmap, loads, handle, allocation, overlap>>

\* The fields an entry of the dynamic section sets.
FieldsOf(tag) ==
  CASE tag = "SYMTAB" -> {"dynsym"}
    [] tag = "STRTAB" -> {"dynstr"}
    [] tag = "HASH" -> {"sysv"}
    [] tag = "GNU_HASH" -> {"gnu", "bloom"}
    [] OTHER -> {}

\* Mutants: the loop does not stop at DT_NULL; a tag of no interest is not
\* stepped over.
LoadEntry_PastNull(t) ==
  /\ ~undefined /\ call[t].pc = "load"
  /\ LET tags == Dynamic[self.lib]
         e == call[t].entry
     IN \/ /\ ~Mapped
           /\ undefined' = TRUE
           /\ UNCHANGED <<self, call>>
        \/ /\ Mapped /\ e <= Len(tags)
           /\ self' = [self EXCEPT !.fields = @ \cup FieldsOf(tags[e])]
           /\ GoOn(t, "load", e + 1)
           /\ UNCHANGED undefined
        \/ /\ Mapped /\ e > Len(tags)
           /\ undefined' = TRUE
           /\ UNCHANGED <<self, call>>
  /\ UNCHANGED <<linkmap, loads, handle, allocation, ret, overlap>>

LoadEntry_Stuck(t) ==
  /\ ~undefined /\ call[t].pc = "load"
  /\ LET tags == Dynamic[self.lib]
         e == call[t].entry
     IN /\ self' = [self EXCEPT !.fields = @ \cup FieldsOf(tags[e])]
        /\ GoOn(t, IF e < Len(tags) THEN "load" ELSE "check", IF tags[e] = "other" THEN e ELSE e + 1)
  /\ UNCHANGED <<linkmap, loads, handle, allocation, ret, undefined, overlap>>

\* One turn of the loop over the dynamic section, which ends at DT_NULL.
LoadEntry(t) ==
  /\ ~undefined /\ call[t].pc = "load"
  /\ LET tags == Dynamic[self.lib]
         e == call[t].entry
     IN \/ /\ ~Mapped
           /\ undefined' = TRUE
           /\ UNCHANGED <<self, call>>
        \/ /\ Mapped /\ e <= Len(tags)
           /\ self' = [self EXCEPT !.fields = @ \cup FieldsOf(tags[e])]
           /\ GoOn(t, "load", e + 1)
           /\ UNCHANGED undefined
        \/ /\ Mapped /\ e > Len(tags)
           /\ GoOn(t, "check", 1)
           /\ UNCHANGED <<self, undefined>>
  /\ UNCHANGED <<linkmap, loads, handle, allocation, ret, overlap>>

\* What a load needs to succeed: names, symbols and one of the hash tables.
Complete(fields) ==
  /\ {"dynstr", "dynsym"} \subseteq fields
  /\ {"sysv", "gnu"} \cap fields # {}

\* An incomplete set of tables is dropped, but the bloom filter stays.
LoadCheck(t) ==
  /\ ~undefined /\ call[t].pc = "check"
  /\ IF Complete(self.fields)
     THEN GoOn(t, "find", 1) /\ UNCHANGED <<self, ret>>
     ELSE /\ self' = [self EXCEPT !.fields = @ \ {"dynstr", "dynsym", "sysv", "gnu"}]
          /\ Return(t, Null)
  /\ UNCHANGED <<linkmap, loads, handle, allocation, undefined, overlap>>

\* Mutant: the value of the symbol is returned without the load address.
Find_NoBias(t) ==
  /\ ~undefined /\ call[t].pc = "find"
  /\ LET s == call[t].sym
         present == s \in Exports[self.lib]
         usable == Mapped /\ {"bloom", "gnu", "dynsym", "dynstr"} \subseteq self.fields
     IN \/ /\ usable
           /\ Return(t, IF present THEN Address(self.lib, 0, s) ELSE Null)
           /\ UNCHANGED undefined
        \/ /\ ~usable
           /\ undefined' = TRUE
           /\ UNCHANGED <<call, ret>>
  /\ UNCHANGED <<linkmap, loads, handle, self, allocation, overlap>>

\* The lookup goes through .gnu.hash, whichever table the load has found.  A
\* name may be missing already by the bloom filter.
Find(t) ==
  /\ ~undefined /\ call[t].pc = "find"
  /\ LET s == call[t].sym
         present == s \in Exports[self.lib]
         usable == Mapped /\ {"bloom", "gnu", "dynsym", "dynstr"} \subseteq self.fields
         filtered == Mapped /\ "bloom" \in self.fields /\ ~present
     IN \/ /\ usable
           /\ Return(t, IF present THEN Address(self.lib, self.bias, s) ELSE Null)
           /\ UNCHANGED undefined
        \/ /\ filtered
           /\ Return(t, Null)
           /\ UNCHANGED undefined
        \/ /\ ~usable
           /\ undefined' = TRUE
           /\ UNCHANGED <<call, ret>>
  /\ UNCHANGED <<linkmap, loads, handle, self, allocation, overlap>>

Sym(t) == SymClaim(t) \/ LoadEntry(t) \/ LoadCheck(t) \/ Find(t)

Next ==
  \/ \E l \in Libs : Dlopen(l)
  \/ \E k \in DOMAIN linkmap : Dlclose(k)
  \/ \E f \in Filenames : Open(f)
  \/ Allocate \/ CopyName \/ CopyNameFails
  \/ Close
  \/ \E t \in Threads : Sym(t) \/ \E s \in Symbols : SymEnter(t, s)

Spec == Init /\ [][Next]_vars

\* Every thread inside xdl_sym is scheduled again and again.
FairSpec == Spec /\ \A t \in Threads : WF_vars(Sym(t))

--------------------------------------------------------------------------------
(***************************************************************************)
(* Properties.                                                             *)
(***************************************************************************)

Fields == {"dynsym", "dynstr", "sysv", "gnu", "bloom"}

TypeOK ==
  /\ linkmap \in Seq([lib : Libs, bias : 0 .. MaxLoads])
  /\ loads \in 0 .. MaxLoads
  /\ handle \in {"none", "NULL", "garbage", "open"}
  /\ heap \subseteq Blocks /\ opening \in 0 .. Len(linkmap)
  /\ mem \in [self : Blocks \cup {0}, pathname : Blocks \cup {0}]
  /\ self \in [lib : Libs \cup {"none"}, bias : 0 .. MaxLoads, tried : BOOLEAN,
               fields : SUBSET Fields]
  /\ handle = "open" => self.lib \in Libs
  /\ call \in [Threads -> [pc : {"idle", "claim", "load", "check", "find"},
                           sym : Symbols \cup {"none"}, entry : Nat \ {0}]]
  /\ ret \in [Threads -> {Null} \cup {Address(l, b, s) : l \in Libs, b \in 0 .. MaxLoads,
                                                       s \in Symbols}]
  /\ undefined \in BOOLEAN /\ overlap \in BOOLEAN

\* Whichever allocation of xdl_open fails, and however often handles are opened
\* and closed: outside xdl_open no block is allocated but the two that an open
\* handle points to, its structure and its copy of the name (xdl.c:166-171, and
\* xdl_close).
OwnsMemory ==
  opening = 0 =>
    IF handle = "open"
    THEN heap = {mem.self, mem.pathname} /\ mem.self # mem.pathname
    ELSE heap = {}

\* All the tables the lookup reads are named by the library's dynamic section.
HasGnuHash(l) ==
  {"SYMTAB", "STRTAB", "GNU_HASH"} \subseteq {Dynamic[l][e] : e \in DOMAIN Dynamic[l]}

\* xdl_open and xdl_sym are safe when a library matched, has a .gnu.hash and
\* stays loaded, and no call overlaps the first one: only without one of these
\* does a call divide by zero or read through an unset pointer (xdl.c:254,
\* 269, 277, 285, 306).
UndefinedOnlyIf ==
  undefined =>
    \/ handle = "garbage"
    \/ handle = "open" /\ (~Mapped \/ ~HasGnuHash(self.lib) \/ overlap)

\* A call that returns has the truth, also after a failed load and when first
\* calls overlap: an address is that of the symbol in the library as it is
\* loaded now, and NULL means that there is none or that tables are missing.
RightAnswer ==
  [][\A t \in Threads :
       ~Idle(t) /\ Idle(t)' =>
         IF ret'[t] = Null
         THEN call[t].sym \notin Exports[self.lib] \/ ~HasGnuHash(self.lib)
         ELSE /\ ret'[t] = Address(self.lib, self.bias, call[t].sym)
              /\ call[t].sym \in Exports[self.lib] /\ Mapped]_vars

\* Every call of xdl_sym returns: the load ends, with or without success.
CallsReturn == \A t \in Threads : ~Idle(t) ~> Idle(t) \/ undefined

\* a is b, or what follows a slash in it.
IsTailOf(a, b) ==
  IsSuffix(a, b) /\ (Len(a) < Len(b) => b[Len(b) - Len(a)] \in Separators)

\* A library goes by its path and by what follows a slash in it; one that the
\* linker knows without a path is found under any path.
GoesBy(name, filename) ==
  \/ filename = name
  \/ name[1] = Root /\ filename[1] # Root /\ IsTailOf(filename, name)
  \/ filename[1] = Root /\ name[1] # Root /\ IsTailOf(name, filename)

\* xdl_open never misses a loaded library that goes by the name: what it finds is
\* that library or one that was loaded before it.
NoneMissed ==
  [][\A f \in Filenames, k \in DOMAIN linkmap :
       /\ Open(f) /\ linkmap[k].bias # 0
       /\ NameOf[linkmap[k].lib] # <<>> /\ GoesBy(NameOf[linkmap[k].lib], f)
       => opening' \in 1 .. k]_vars
================================================================================
