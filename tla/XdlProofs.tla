------------------------------- MODULE XdlProofs -------------------------------
(***************************************************************************)
(* Theorems about handles of xdl.c, for any threads, libraries, names and  *)
(* symbols: the handle owns its memory, nothing undefined happens to a     *)
(* client that keeps to the rules, and answers are right.  About its       *)
(* listing by memory map: nothing that stays mapped is skipped.  And about *)
(* the lookup in a .gnu.hash section, for any names, hashes and sections a *)
(* linker may write: it stays inside the tables, misses nothing, returns   *)
(* NULL exactly for the names without a definition, and every step of it   *)
(* is a step of SymbolTable.                                               *)
(*                                                                         *)
(* UndefinedOnlyIf and RightAnswer rest on LoadedSoFar: in a library with  *)
(* all the tables no check of a load fails, also when loads overlap, so    *)
(* the fields only grow, and behind the check they are all there.          *)
(***************************************************************************)
EXTENDS XdlHandle, XdlMaps, XdlLookup, SequenceTheorems, TLAPS

\* The fields that the lookup reads.
Needed == {"bloom", "gnu", "dynsym", "dynstr"}

\* A call is under way only on a handle that is open.
CallsAreInside == \A t \in Threads : ~Idle(t) => handle = "open"

\* What the load has found so far of a library with all the tables: every entry
\* it has passed, and at the end everything the lookup needs; and unless first
\* calls overlap, whoever looks up finds it.
LoadedSoFar ==
  handle = "open" /\ HasGnuHash(self.lib) =>
    /\ \A t \in Threads : call[t].pc = "load" =>
         \A k \in 1 .. call[t].entry - 1 : FieldsOf(Dynamic[self.lib][k]) \subseteq self.fields
    /\ \A t \in Threads : call[t].pc = "check" => Needed \subseteq self.fields
    /\ ~overlap => \A t \in Threads : call[t].pc = "find" => Needed \subseteq self.fields
    /\ ~overlap /\ self.tried =>
         Needed \subseteq self.fields \/ \E t \in Threads : FirstCall(t)

\* The pointers and the heap, inside xdl_open and between a close and an open.
PointersInOrder ==
  /\ opening # 0 => handle = "none" /\ mem.pathname = 0
  /\ handle = "open" => mem.self # 0 /\ mem.pathname # 0
  /\ opening = 0 /\ handle # "open" => mem = NoMemory
  /\ handle # "open" => heap = {mem.self} \ {0}

IInv ==
  /\ TypeOK /\ OwnsMemory /\ PointersInOrder
  /\ CallsAreInside /\ LoadedSoFar /\ UndefinedOnlyIf

--------------------------------------------------------------------------------
(* Types.                                                                  *)

Loads == [lib : Libs, bias : 0 .. MaxLoads]
Calls == [pc : {"idle", "claim", "load", "check", "find"}, sym : Symbols \cup {"none"},
          entry : Nat \ {0}]
Answers == {Null} \cup {Address(l, b, s) : l \in Libs, b \in 0 .. MaxLoads, s \in Symbols}

\* Taking a library off the list leaves a list of libraries.
LEMMA RemoveAtTyping ==
  ASSUME NEW S, NEW s \in Seq(S), NEW k \in DOMAIN s
  PROVE  RemoveAt(s, k) \in Seq(S)
<1>1. k \in 1 .. Len(s) /\ Len(s) \in Nat /\ \A i \in 1 .. Len(s) : s[i] \in S
  BY LenProperties, ElementOfSeq
<1>2. SubSeq(s, 1, k - 1) \in Seq(S)
  <2>1. \A i \in 1 .. k - 1 : s[i] \in S
    BY <1>1
  <2> QED
    BY <1>1, <2>1, SubSeqProperties
<1>3. SubSeq(s, k + 1, Len(s)) \in Seq(S)
  <2>1. \A i \in k + 1 .. Len(s) : s[i] \in S
    BY <1>1
  <2> QED
    BY <1>1, <2>1, SubSeqProperties
<1> QED
  BY <1>2, <1>3, ConcatProperties DEF RemoveAt

\* An entry of the list of libraries.
LEMMA EntryTyping ==
  ASSUME TypeOK, NEW k \in DOMAIN linkmap
  PROVE  /\ k \in 1 .. Len(linkmap) /\ Len(linkmap) \in Nat
         /\ linkmap[k].lib \in Libs /\ linkmap[k].bias \in 0 .. MaxLoads
<1>1. linkmap \in Seq(Loads)
  BY DEF TypeOK, Loads
<1>2. k \in 1 .. Len(linkmap) /\ Len(linkmap) \in Nat
  BY <1>1, LenProperties
<1>3. linkmap[k] \in Loads
  BY <1>1, <1>2, ElementOfSeq
<1> QED
  BY <1>2, <1>3 DEF Loads

\* The fields of a call, and of the structure.
LEMMA CallTyping ==
  ASSUME TypeOK, NEW t \in Threads
  PROVE  /\ call[t].pc \in {"idle", "claim", "load", "check", "find"}
         /\ call[t].sym \in Symbols \cup {"none"}
         /\ call[t].entry \in Nat /\ call[t].entry >= 1
BY DEF TypeOK

\* Who makes no call is typed.
LEMMA NoCallTyping == NoCall \in Calls
BY DEF NoCall, Calls

\* So is a call that returns.
LEMMA ReturnTyping ==
  ASSUME TypeOK, NEW t \in Threads, NEW r \in Answers, Return(t, r)
  PROVE  /\ call' \in [Threads -> Calls] /\ ret' \in [Threads -> Answers]
         /\ call'[t] = NoCall /\ ret'[t] = r
         /\ \A u \in Threads : u # t => call'[u] = call[u] /\ ret'[u] = ret[u]
<1>1. call \in [Threads -> Calls] /\ ret \in [Threads -> Answers]
  BY DEF TypeOK, Calls, Answers
<1> QED
  BY <1>1, NoCallTyping DEF Return

\* So is one that goes on.
LEMMA GoOnTyping ==
  ASSUME TypeOK, NEW t \in Threads, NEW place \in {"load", "check", "find"},
         NEW entry \in Nat \ {0}, GoOn(t, place, entry)
  PROVE  /\ call' \in [Threads -> Calls]
         /\ call'[t].pc = place /\ call'[t].sym = call[t].sym /\ call'[t].entry = entry
         /\ \A u \in Threads : u # t => call'[u] = call[u]
<1>1. call \in [Threads -> Calls]
  BY DEF TypeOK, Calls
<1>2. [call[t] EXCEPT !.pc = place, !.entry = entry] \in Calls
  BY <1>1 DEF Calls
<1>3. call' = [call EXCEPT ![t] = [call[t] EXCEPT !.pc = place, !.entry = entry]]
  BY DEF GoOn
<1>4. call'[t] = [call[t] EXCEPT !.pc = place, !.entry = entry]
  BY <1>1, <1>3
<1>5. /\ call'[t].pc = place /\ call'[t].sym = call[t].sym /\ call'[t].entry = entry
  BY <1>1, <1>4 DEF Calls
<1> QED
  BY <1>1, <1>2, <1>3, <1>5

--------------------------------------------------------------------------------
(* The steps.                                                              *)

\* Init establishes the invariant of handles.
LEMMA InitInvariant == Init => IInv
<1> SUFFICES ASSUME Init PROVE IInv
  OBVIOUS
<1>1. TypeOK
  <2>1. linkmap \in Seq([lib : Libs, bias : 0 .. MaxLoads])
    BY EmptySeq DEF Init
  <2>2. call \in [Threads -> Calls] /\ ret \in [Threads -> Answers]
    BY NoCallTyping DEF Init, Answers
  <2>3. self \in [lib : Libs \cup {"none"}, bias : 0 .. MaxLoads, tried : BOOLEAN,
                  fields : SUBSET Fields]
    BY LoadsAssumption DEF Init, NoSelf
  <2>4. loads \in 0 .. MaxLoads
    BY LoadsAssumption DEF Init
  <2>5. /\ handle = "none" /\ undefined \in BOOLEAN /\ overlap \in BOOLEAN
    BY DEF Init
  <2>6. /\ heap \subseteq Blocks /\ opening \in 0 .. Len(linkmap)
        /\ mem \in [self : Blocks \cup {0}, pathname : Blocks \cup {0}]
    BY <2>1, LenProperties DEF Init, NoMemory
  <2> QED
    BY <2>1, <2>2, <2>3, <2>4, <2>5, <2>6 DEF TypeOK, Calls, Answers
<1>2. CallsAreInside
  BY DEF Init, CallsAreInside, Idle, NoCall
<1> QED
  BY <1>1, <1>2 DEF Init, IInv, OwnsMemory, PointersInOrder, NoMemory, LoadedSoFar, UndefinedOnlyIf

\* The linker loads a library.
LEMMA DlopenInvariant ==
  ASSUME IInv, NEW l \in Libs, Dlopen(l)
  PROVE  IInv'
<1>1. linkmap' \in Seq([lib : Libs, bias : 0 .. MaxLoads]) /\ loads' \in 0 .. MaxLoads
  <2> DEFINE b == IF l \in Fixed THEN 0 ELSE loads + 1
  <2>1. loads \in 0 .. MaxLoads /\ loads < MaxLoads /\ loads' = loads + 1
    BY DEF IInv, TypeOK, Dlopen
  <2>2. b \in 0 .. MaxLoads
    BY <2>1, LoadsAssumption
  <2>3. linkmap' = Append(linkmap, [lib |-> l, bias |-> b])
    BY DEF Dlopen
  <2>4. linkmap \in Seq(Loads)
    BY DEF IInv, TypeOK, Loads
  <2> HIDE DEF b
  <2>5. [lib |-> l, bias |-> b] \in Loads
    BY <2>2 DEF Loads
  <2>6. linkmap' \in Seq(Loads)
    BY <2>3, <2>4, <2>5, AppendProperties
  <2> QED
    BY <2>1, <2>6, LoadsAssumption DEF Loads
<1>2. /\ UNCHANGED <<handle, self, heap, mem, opening, call, ret, undefined, overlap>>
      /\ ~undefined /\ opening' \in 0 .. Len(linkmap')
  BY <1>1, LenProperties DEF Dlopen, allocation
<1>3. TypeOK'
  BY <1>1, <1>2 DEF IInv, TypeOK
<1> QED
  BY <1>2, <1>3 DEF IInv, OwnsMemory, PointersInOrder, CallsAreInside, Idle, LoadedSoFar, FirstCall, UndefinedOnlyIf

\* The linker unloads one.
LEMMA DlcloseInvariant ==
  ASSUME IInv, NEW k \in DOMAIN linkmap, Dlclose(k)
  PROVE  IInv'
<1>1. linkmap' \in Seq(Loads)
  <2>1. linkmap \in Seq(Loads)
    BY DEF IInv, TypeOK, Loads
  <2> QED
    BY <2>1, RemoveAtTyping DEF Dlclose
<1>2. /\ UNCHANGED <<loads, handle, self, heap, mem, opening, call, ret, undefined, overlap>>
      /\ ~undefined /\ opening' \in 0 .. Len(linkmap')
  BY <1>1, LenProperties DEF Dlclose, allocation
<1>3. TypeOK'
  BY <1>1, <1>2 DEF IInv, TypeOK, Loads
<1> QED
  BY <1>2, <1>3 DEF IInv, OwnsMemory, PointersInOrder, CallsAreInside, Idle, LoadedSoFar, FirstCall, UndefinedOnlyIf

\* xdl_open finds the library, or makes no handle.
LEMMA OpenInvariant ==
  ASSUME IInv, NEW f \in Filenames, Open(f)
  PROVE  IInv'
<1>1. /\ handle = "none" /\ ~undefined /\ opening = 0
      /\ UNCHANGED <<linkmap, loads, self, heap, mem, call, ret, undefined, overlap>>
  BY DEF Open
<1>2. \A t \in Threads : call'[t].pc = "idle"
  BY <1>1 DEF IInv, CallsAreInside, Idle
<1>3. heap = {} /\ mem = NoMemory /\ TypeOK
  BY <1>1 DEF IInv, OwnsMemory, PointersInOrder
<1>4. CASE handle' \in {"NULL", "garbage"} /\ UNCHANGED opening
  BY <1>1, <1>2, <1>3, <1>4
     DEF IInv, TypeOK, OwnsMemory, PointersInOrder, NoMemory, CallsAreInside, Idle, LoadedSoFar,
         UndefinedOnlyIf
<1>5. ASSUME NEW k \in DOMAIN linkmap, opening' = k, UNCHANGED handle PROVE IInv'
  <2>1. opening' \in 0 .. Len(linkmap) /\ opening' # 0
    BY <1>3, <1>5, EntryTyping
  <2>2. TypeOK'
    BY <1>1, <1>3, <1>5, <2>1 DEF TypeOK
  <2>3. OwnsMemory' /\ PointersInOrder'
    BY <1>1, <1>3, <1>5, <2>1 DEF OwnsMemory, PointersInOrder, NoMemory
  <2>4. (CallsAreInside /\ LoadedSoFar /\ UndefinedOnlyIf)'
    BY <1>1, <1>2, <1>5 DEF CallsAreInside, Idle, LoadedSoFar, UndefinedOnlyIf
  <2> QED
    BY <2>2, <2>3, <2>4 DEF IInv
<1>6. \/ handle' \in {"NULL", "garbage"} /\ UNCHANGED opening
      \/ \E k \in DOMAIN linkmap : opening' = k /\ UNCHANGED handle
  BY DEF Open, Candidates
<1> QED
  BY <1>4, <1>5, <1>6

\* It allocates the structure and the name, or gives up.
LEMMA AllocationInvariant ==
  ASSUME IInv, Allocate \/ CopyName \/ CopyNameFails
  PROVE  IInv'
<1>1. /\ handle = "none" /\ ~undefined /\ opening # 0 /\ mem.pathname = 0 /\ TypeOK
      /\ heap = {mem.self} \ {0} /\ heap \subseteq Blocks
      /\ UNCHANGED <<linkmap, loads, call, ret, undefined, overlap>>
  BY DEF IInv, PointersInOrder, TypeOK, Allocate, CopyName, CopyNameFails
<1>2. \A t \in Threads : call'[t].pc = "idle"
  BY <1>1 DEF IInv, CallsAreInside, Idle
<1>3. /\ mem \in [self : Blocks \cup {0}, pathname : Blocks \cup {0}]
      /\ mem.self \in Blocks \cup {0} /\ 0 \notin Blocks
      /\ opening \in 1 .. Len(linkmap) /\ Len(linkmap) \in Nat
  <2>1. Len(linkmap) \in Nat
    BY <1>1, LenProperties DEF TypeOK
  <2> QED
    BY <1>1, <2>1, BlockAssumption DEF TypeOK
<1>4. CASE handle' = "NULL" /\ opening' = 0 /\ heap' = {} /\ mem' = NoMemory /\ UNCHANGED self
  <2>1. mem' \in [self : Blocks \cup {0}, pathname : Blocks \cup {0}] /\ opening' \in 0 .. Len(linkmap)
    BY <1>3, <1>4 DEF NoMemory
  <2>2. TypeOK'
    BY <1>1, <1>4, <2>1 DEF TypeOK
  <2> QED
    BY <1>1, <1>2, <1>4, <2>2
       DEF IInv, OwnsMemory, PointersInOrder, NoMemory, CallsAreInside, Idle, LoadedSoFar,
           UndefinedOnlyIf
<1>5. CASE Allocate
  <2>1. CASE handle' = "NULL" /\ opening' = 0 /\ UNCHANGED <<heap, mem>>
    <3>1. mem = NoMemory /\ heap = {} /\ UNCHANGED self
      BY <1>1, <1>3, <1>5 DEF Allocate, NoMemory
    <3> QED
      BY <1>4, <2>1, <3>1
  <2>2. ASSUME NEW b \in Blocks \ heap, heap' = heap \cup {b}, mem' = [mem EXCEPT !.self = b],
               UNCHANGED <<handle, opening>>
        PROVE  IInv'
    <3>1. mem.self = 0 /\ UNCHANGED self /\ heap = {} /\ b # 0
      BY <1>1, <1>3, <1>5 DEF Allocate
    <3>2. /\ mem' \in [self : Blocks \cup {0}, pathname : Blocks \cup {0}]
          /\ mem'.self = b /\ mem'.pathname = 0
      BY <1>1, <1>3, <2>2
    <3>3. heap' = {mem'.self} \ {0} /\ heap' \subseteq Blocks
      BY <2>2, <3>1, <3>2
    <3>4. TypeOK'
      BY <1>1, <2>2, <3>1, <3>2, <3>3 DEF TypeOK
    <3>5. OwnsMemory' /\ PointersInOrder'
      BY <1>1, <2>2, <3>2, <3>3 DEF OwnsMemory, PointersInOrder
    <3> QED
      BY <1>1, <1>2, <2>2, <3>4, <3>5 DEF IInv, CallsAreInside, Idle, LoadedSoFar, UndefinedOnlyIf
  <2> QED
    BY <1>5, <2>1, <2>2 DEF Allocate
<1>6. CASE CopyName
  <2>1. PICK b \in Blocks \ heap : heap' = heap \cup {b} /\ mem' = [mem EXCEPT !.pathname = b]
    BY <1>6 DEF CopyName
  <2>2. /\ handle' = "open" /\ opening' = 0 /\ mem.self # 0
        /\ self' = [lib |-> linkmap[opening].lib, bias |-> linkmap[opening].bias, tried |-> FALSE,
                    fields |-> {}]
    BY <1>6 DEF CopyName
  <2>3. linkmap[opening].lib \in Libs /\ linkmap[opening].bias \in 0 .. MaxLoads
    BY <1>1, <1>3, EntryTyping
  <2>4. /\ self' \in [lib : Libs \cup {"none"}, bias : 0 .. MaxLoads, tried : BOOLEAN,
                      fields : SUBSET Fields]
        /\ self'.lib \in Libs /\ self'.tried = FALSE
    BY <2>2, <2>3
  <2>5. /\ mem' \in [self : Blocks \cup {0}, pathname : Blocks \cup {0}]
        /\ mem'.self = mem.self /\ mem'.pathname = b
    BY <1>3, <2>1
  <2>6. heap' = {mem'.self, mem'.pathname} /\ mem'.self # mem'.pathname /\ b # 0
        /\ heap' \subseteq Blocks
    BY <1>1, <1>3, <2>1, <2>2, <2>5
  <2>7. TypeOK'
    BY <1>1, <1>3, <2>2, <2>4, <2>5, <2>6 DEF TypeOK
  <2>8. OwnsMemory' /\ PointersInOrder'
    BY <2>2, <2>5, <2>6 DEF OwnsMemory, PointersInOrder
  <2>9. LoadedSoFar'
    BY <1>2, <2>4 DEF LoadedSoFar
  <2> QED
    BY <1>1, <1>2, <2>2, <2>7, <2>8, <2>9 DEF IInv, CallsAreInside, Idle, UndefinedOnlyIf
<1>7. CASE CopyNameFails
  <2>1. /\ heap' = {} /\ handle' = "NULL" /\ opening' = 0 /\ UNCHANGED self
        /\ mem' = [mem EXCEPT !.self = 0]
    BY <1>1, <1>7 DEF CopyNameFails
  <2>2. mem' = NoMemory
    BY <1>1, <1>3, <2>1 DEF NoMemory
  <2> QED
    BY <1>4, <2>1, <2>2
<1> QED
  BY <1>5, <1>6, <1>7

\* xdl_close frees what the handle owns.
LEMMA CloseInvariant == IInv /\ Close => IInv'
<1> SUFFICES ASSUME IInv, Close PROVE IInv'
  OBVIOUS
<1>1. /\ ~undefined /\ UNCHANGED <<linkmap, loads, opening, call, ret>> /\ handle # "none"
      /\ \A t \in Threads : call'[t].pc = "idle"
  BY DEF Close, Idle
<1>2. CASE /\ handle = "garbage" /\ undefined' = TRUE
           /\ UNCHANGED <<handle, self, heap, mem, overlap>>
  BY <1>1, <1>2 DEF IInv, TypeOK, OwnsMemory, PointersInOrder, CallsAreInside, Idle, LoadedSoFar,
                    UndefinedOnlyIf
<1>3. CASE /\ handle # "garbage" /\ handle' = "none" /\ self' = NoSelf /\ mem' = NoMemory
           /\ overlap' = FALSE
           /\ undefined' = ~({mem.self, mem.pathname} \ {0} \subseteq heap)
           /\ heap' = heap \ ({mem.self, mem.pathname} \ {0})
  <2>1. opening = 0
    BY <1>1 DEF IInv, PointersInOrder
  <2>2. heap = {mem.self, mem.pathname} \ {0}
    <3>1. CASE handle = "open"
      BY <2>1, <3>1 DEF IInv, OwnsMemory, PointersInOrder
    <3>2. CASE handle # "open"
      BY <2>1, <3>2 DEF IInv, OwnsMemory, PointersInOrder, NoMemory
    <3> QED
      BY <3>1, <3>2
  <2>3. heap' = {} /\ undefined' = FALSE
    BY <1>3, <2>2
  <2>4. self' \in [lib : Libs \cup {"none"}, bias : 0 .. MaxLoads, tried : BOOLEAN,
                   fields : SUBSET Fields]
    BY <1>3, LoadsAssumption DEF NoSelf
  <2>5. mem' \in [self : Blocks \cup {0}, pathname : Blocks \cup {0}]
    BY <1>3 DEF NoMemory
  <2>6. TypeOK'
    <3>1. handle' = "none" /\ overlap' \in BOOLEAN /\ undefined' \in BOOLEAN
      BY <1>3, <2>3
    <3>2. /\ linkmap' \in Seq([lib : Libs, bias : 0 .. MaxLoads]) /\ loads' \in 0 .. MaxLoads
          /\ call' \in [Threads -> Calls] /\ ret' \in [Threads -> Answers]
          /\ opening' \in 0 .. Len(linkmap')
      BY <1>1 DEF IInv, TypeOK, Calls, Answers
    <3> QED
      BY <2>3, <2>4, <2>5, <3>1, <3>2 DEF TypeOK, Calls, Answers
  <2> QED
    BY <1>1, <1>3, <2>1, <2>3, <2>6
       DEF IInv, OwnsMemory, PointersInOrder, NoMemory, CallsAreInside, Idle, LoadedSoFar,
           UndefinedOnlyIf
<1> QED
  BY <1>2, <1>3 DEF Close

\* xdl_sym and xdl_dsym begin.
LEMMA SymEnterInvariant ==
  ASSUME IInv, NEW t \in Threads, NEW s \in Symbols, SymEnter(t, s)
  PROVE  IInv'
<1>1. /\ ~undefined /\ UNCHANGED <<linkmap, loads, handle, self, heap, mem, opening>> /\ TypeOK
      /\ call[t].pc = "idle"
  BY DEF SymEnter, allocation, Idle, IInv
<1>2. CASE handle = "NULL" /\ Return(t, Null) /\ UNCHANGED <<undefined, overlap>>
  <2>1. Null \in Answers
    BY DEF Answers
  <2>2. /\ call' \in [Threads -> Calls] /\ ret' \in [Threads -> Answers]
        /\ \A u \in Threads : call'[u].pc = call[u].pc
    BY <1>1, <1>2, <2>1, ReturnTyping DEF NoCall
  <2>3. TypeOK'
    BY <1>1, <1>2, <2>2 DEF TypeOK, Calls, Answers
  <2> QED
    BY <1>1, <1>2, <2>2, <2>3
       DEF IInv, OwnsMemory, PointersInOrder, CallsAreInside, Idle, LoadedSoFar, UndefinedOnlyIf
<1>3. CASE handle = "garbage" /\ undefined' = TRUE /\ UNCHANGED <<call, ret, overlap>>
  BY <1>1, <1>3
     DEF IInv, TypeOK, OwnsMemory, PointersInOrder, CallsAreInside, Idle, LoadedSoFar, UndefinedOnlyIf
<1>4. CASE /\ handle = "open"
           /\ call' = [call EXCEPT ![t] = [pc |-> IF self.tried THEN "find" ELSE "claim",
                                           sym |-> s, entry |-> 1]]
           /\ overlap' = (overlap \/ \E u \in Threads : FirstCall(u))
           /\ UNCHANGED <<ret, undefined>>
  <2> DEFINE c == [pc |-> IF self.tried THEN "find" ELSE "claim", sym |-> s, entry |-> 1]
  <2>1. c \in Calls
    BY <1>1 DEF Calls, TypeOK
  <2>2. call \in [Threads -> Calls]
    BY <1>1 DEF TypeOK, Calls
  <2>3. /\ call' \in [Threads -> Calls] /\ call'[t] = c
        /\ \A u \in Threads : u # t => call'[u] = call[u]
    BY <1>4, <2>1, <2>2
  <2>4. /\ call'[t].pc = (IF self.tried THEN "find" ELSE "claim")
        /\ \A u \in Threads : u # t => call'[u].pc = call[u].pc /\ call'[u].entry = call[u].entry
    BY <2>3
  <2> HIDE DEF c
  <2>5. overlap' \in BOOLEAN
    BY <1>1, <1>4 DEF TypeOK
  <2>6. TypeOK'
    BY <1>1, <1>4, <2>3, <2>5 DEF TypeOK, Calls
  <2>7. LoadedSoFar'
    <3> SUFFICES ASSUME HasGnuHash(self.lib) PROVE LoadedSoFar'
      BY <1>1 DEF LoadedSoFar, HasGnuHash
    <3>1. /\ \A u \in Threads : call[u].pc = "load" =>
               \A k \in 1 .. call[u].entry - 1 :
                 FieldsOf(Dynamic[self.lib][k]) \subseteq self.fields
          /\ \A u \in Threads : call[u].pc = "check" => Needed \subseteq self.fields
          /\ ~overlap => \A u \in Threads : call[u].pc = "find" => Needed \subseteq self.fields
          /\ ~overlap /\ self.tried =>
               Needed \subseteq self.fields \/ \E u \in Threads : FirstCall(u)
      BY <1>4 DEF IInv, LoadedSoFar
    <3>2. \A u \in Threads : call'[u].pc = "load" =>
            \A k \in 1 .. call'[u].entry - 1 :
              FieldsOf(Dynamic[self.lib][k]) \subseteq self.fields
      BY <2>4, <3>1
    <3>3. \A u \in Threads : call'[u].pc = "check" => Needed \subseteq self.fields
      BY <2>4, <3>1
    <3>4. ~overlap' /\ self.tried => Needed \subseteq self.fields
      BY <1>4, <3>1
    <3>5. ASSUME ~overlap', NEW u \in Threads, call'[u].pc = "find"
          PROVE  Needed \subseteq self.fields
      <4>1. ~overlap
        BY <1>4, <3>5
      <4>2. CASE u = t
        BY <2>4, <3>4, <3>5, <4>2
      <4>3. CASE u # t
        BY <2>4, <3>1, <3>5, <4>1, <4>3
      <4> QED
        BY <4>2, <4>3
    <3> QED
      BY <1>1, <3>2, <3>3, <3>4, <3>5 DEF LoadedSoFar
  <2> QED
    BY <1>1, <1>4, <2>6, <2>7
       DEF IInv, OwnsMemory, PointersInOrder, CallsAreInside, UndefinedOnlyIf
<1> QED
  BY <1>2, <1>3, <1>4 DEF SymEnter
--------------------------------------------------------------------------------
(* The steps inside a call.                                                *)

\* A step inside a call that keeps the types and the memory of the handle: it is
\* enough to look at what was loaded, and at what is undefined.
LEMMA InsideCall ==
  ASSUME IInv, NEW t \in Threads, ~Idle(t), ~undefined,
         UNCHANGED <<linkmap, loads, handle, heap, mem, opening, overlap>>,
         self' \in [lib : Libs \cup {"none"}, bias : 0 .. MaxLoads, tried : BOOLEAN,
                   fields : SUBSET Fields],
         self'.lib = self.lib, self'.bias = self.bias,
         call' \in [Threads -> Calls], ret' \in [Threads -> Answers], undefined' \in BOOLEAN,
         \A u \in Threads : u # t => call'[u] = call[u],
         HasGnuHash(self.lib) => LoadedSoFar',
         undefined' => ~Mapped \/ ~HasGnuHash(self.lib) \/ overlap
  PROVE  IInv'
<1>1. handle = "open" /\ handle' = "open"
  BY DEF IInv, CallsAreInside
<1>2. TypeOK'
  BY <1>1 DEF IInv, TypeOK, Calls, Answers
<1>3. OwnsMemory' /\ PointersInOrder'
  BY DEF IInv, OwnsMemory, PointersInOrder
<1>4. CallsAreInside'
  BY <1>1 DEF CallsAreInside
<1>5. LoadedSoFar'
  <2> SUFFICES ASSUME ~HasGnuHash(self.lib) PROVE LoadedSoFar'
    OBVIOUS
  <2>1. ~HasGnuHash(self.lib)'
    BY DEF HasGnuHash
  <2> QED
    BY <2>1 DEF LoadedSoFar
<1>6. UndefinedOnlyIf'
  <2>1. /\ Mapped' <=> Mapped
        /\ HasGnuHash(self.lib)' <=> HasGnuHash(self.lib)
    BY DEF Mapped, Loaded, HasGnuHash
  <2> QED
    BY <1>1, <2>1 DEF UndefinedOnlyIf
<1> QED
  BY <1>2, <1>3, <1>4, <1>5, <1>6 DEF IInv

\* What LoadedSoFar says inside a call, for a library with all the tables.
LEMMA LoadedNow ==
  ASSUME IInv, NEW t \in Threads, ~Idle(t), HasGnuHash(self.lib)
  PROVE  /\ \A u \in Threads : call[u].pc = "load" =>
              \A k \in 1 .. call[u].entry - 1 :
                FieldsOf(Dynamic[self.lib][k]) \subseteq self.fields
         /\ \A u \in Threads : call[u].pc = "check" => Needed \subseteq self.fields
         /\ ~overlap => \A u \in Threads : call[u].pc = "find" => Needed \subseteq self.fields
         /\ ~overlap /\ self.tried =>
              Needed \subseteq self.fields \/ \E u \in Threads : FirstCall(u)
BY DEF IInv, CallsAreInside, LoadedSoFar

\* The types that a step inside a call starts from.
LEMMA TypesNow ==
  ASSUME IInv
  PROVE  /\ TypeOK
         /\ self \in [lib : Libs \cup {"none"}, bias : 0 .. MaxLoads, tried : BOOLEAN,
                      fields : SUBSET Fields]
         /\ call \in [Threads -> Calls] /\ ret \in [Threads -> Answers]
         /\ undefined \in BOOLEAN /\ overlap \in BOOLEAN
BY DEF IInv, TypeOK, Calls, Answers

\* A caller takes the loading of a table for its own.
LEMMA SymClaimInvariant ==
  ASSUME IInv, NEW t \in Threads, SymClaim(t)
  PROVE  IInv'
<1>1. /\ ~undefined /\ call[t].pc = "claim" /\ ~Idle(t)
      /\ UNCHANGED <<linkmap, loads, handle, heap, mem, opening, overlap>>
      /\ self' = [self EXCEPT !.tried = TRUE]
  BY DEF SymClaim, allocation, Idle
<1>2. /\ self' \in [lib : Libs \cup {"none"}, bias : 0 .. MaxLoads, tried : BOOLEAN,
                    fields : SUBSET Fields]
      /\ self'.lib = self.lib /\ self'.bias = self.bias /\ self'.fields = self.fields
  BY <1>1, TypesNow
<1>3. CASE ~Mapped /\ undefined' = TRUE /\ UNCHANGED <<call, ret>>
  <2>1. ASSUME HasGnuHash(self.lib) PROVE LoadedSoFar'
    <3>1. FirstCall(t)'
      BY <1>1, <1>3 DEF FirstCall
    <3> QED
      BY <1>1, <1>2, <1>3, <2>1, <3>1, LoadedNow DEF LoadedSoFar
  <2> QED
    BY <1>1, <1>2, <1>3, <2>1, TypesNow, InsideCall
<1>4. CASE Mapped /\ Dynamic[self.lib] = <<>> /\ Return(t, Null) /\ UNCHANGED undefined
  <2>1. ~HasGnuHash(self.lib)
    BY <1>4 DEF HasGnuHash
  <2>2. Null \in Answers
    BY DEF Answers
  <2>3. /\ call' \in [Threads -> Calls] /\ ret' \in [Threads -> Answers]
        /\ \A u \in Threads : u # t => call'[u] = call[u]
    BY <1>4, <2>2, TypesNow, ReturnTyping
  <2> QED
    BY <1>1, <1>2, <1>4, <2>1, <2>3, TypesNow, InsideCall
<1>5. CASE Mapped /\ GoOn(t, "load", 1) /\ UNCHANGED <<ret, undefined>>
  <2>1. /\ call' \in [Threads -> Calls]
        /\ call'[t].pc = "load" /\ call'[t].entry = 1
        /\ \A u \in Threads : u # t => call'[u] = call[u]
    BY <1>5, TypesNow, GoOnTyping
  <2>2. ASSUME HasGnuHash(self.lib) PROVE LoadedSoFar'
    <3>1. FirstCall(t)'
      BY <2>1 DEF FirstCall
    <3>2. ASSUME NEW u \in Threads, call'[u].pc = "load", NEW k \in 1 .. call'[u].entry - 1
          PROVE  FieldsOf(Dynamic[self.lib][k]) \subseteq self.fields
      <4>1. u # t
        BY <2>1, <3>2
      <4> QED
        BY <1>1, <2>1, <2>2, <3>2, <4>1, LoadedNow
    <3>3. \A u \in Threads : call'[u].pc = "check" => Needed \subseteq self.fields
      BY <1>1, <2>1, <2>2, LoadedNow
    <3>4. ~overlap => \A u \in Threads : call'[u].pc = "find" => Needed \subseteq self.fields
      BY <1>1, <2>1, <2>2, LoadedNow
    <3> QED
      BY <1>1, <1>2, <3>1, <3>2, <3>3, <3>4 DEF LoadedSoFar
  <2> QED
    BY <1>1, <1>2, <1>5, <2>1, <2>2, TypesNow, InsideCall
<1> QED
  BY <1>3, <1>4, <1>5 DEF SymClaim

\* The symbols of the dynamic section are loaded.
LEMMA LoadEntryInvariant ==
  ASSUME IInv, NEW t \in Threads, LoadEntry(t)
  PROVE  IInv'
<1> DEFINE e == call[t].entry
           tags == Dynamic[self.lib]
<1>1. /\ ~undefined /\ call[t].pc = "load" /\ ~Idle(t)
      /\ UNCHANGED <<linkmap, loads, handle, heap, mem, opening, ret, overlap>>
      /\ e \in Nat /\ e >= 1 /\ self.lib \in Libs
  <2>1. call[t].pc = "load" /\ ~Idle(t) /\ ~undefined
    BY DEF LoadEntry, Idle
  <2>2. self.lib \in Libs
    BY <2>1 DEF IInv, CallsAreInside, TypeOK
  <2> QED
    BY <2>1, <2>2, TypesNow, CallTyping DEF LoadEntry, allocation
<1>2. CASE ~Mapped /\ undefined' = TRUE /\ UNCHANGED <<self, call>>
  <2>1. ASSUME HasGnuHash(self.lib) PROVE LoadedSoFar'
    BY <1>1, <1>2, <2>1, LoadedNow DEF LoadedSoFar, FirstCall
  <2> QED
    BY <1>1, <1>2, <2>1, TypesNow, InsideCall
<1>3. CASE /\ Mapped /\ e <= Len(tags)
           /\ self' = [self EXCEPT !.fields = @ \cup FieldsOf(tags[e])]
           /\ GoOn(t, "load", e + 1) /\ UNCHANGED undefined
  <2>1. FieldsOf(tags[e]) \subseteq Fields
    BY DEF FieldsOf, Fields
  <2>2. /\ self' \in [lib : Libs \cup {"none"}, bias : 0 .. MaxLoads, tried : BOOLEAN,
                      fields : SUBSET Fields]
        /\ self'.lib = self.lib /\ self'.bias = self.bias /\ self'.tried = self.tried
        /\ self'.fields = self.fields \cup FieldsOf(tags[e])
    BY <1>3, <2>1, TypesNow
  <2>3. e + 1 \in Nat \ {0}
    BY <1>1
  <2>4. /\ call' \in [Threads -> Calls]
        /\ call'[t].pc = "load" /\ call'[t].entry = e + 1
        /\ \A u \in Threads : u # t => call'[u] = call[u]
    BY <1>3, <2>3, TypesNow, GoOnTyping
  <2>5. ASSUME HasGnuHash(self.lib) PROVE LoadedSoFar'
    <3>1. FirstCall(t)'
      BY <2>4 DEF FirstCall
    <3>2. ASSUME NEW u \in Threads, call'[u].pc = "load", NEW k \in 1 .. call'[u].entry - 1
          PROVE  FieldsOf(tags[k]) \subseteq self'.fields
      <4>1. CASE u = t /\ k = e
        BY <2>2, <4>1
      <4>2. CASE u = t /\ k # e
        <5>1. k \in 1 .. e - 1
          BY <1>1, <2>4, <3>2, <4>2
        <5> QED
          BY <1>1, <2>2, <2>5, <5>1, LoadedNow
      <4>3. CASE u # t
        BY <1>1, <2>2, <2>4, <2>5, <3>2, <4>3, LoadedNow
      <4> QED
        BY <4>1, <4>2, <4>3
    <3>3. \A u \in Threads : call'[u].pc = "check" => Needed \subseteq self'.fields
      BY <1>1, <2>2, <2>4, <2>5, LoadedNow
    <3>4. ~overlap => \A u \in Threads : call'[u].pc = "find" => Needed \subseteq self'.fields
      BY <1>1, <2>2, <2>4, <2>5, LoadedNow
    <3> QED
      BY <1>1, <2>2, <3>1, <3>2, <3>3, <3>4 DEF LoadedSoFar
  <2> QED
    BY <1>1, <1>3, <2>2, <2>4, <2>5, TypesNow, InsideCall
<1>4. CASE /\ Mapped /\ e > Len(tags)
           /\ GoOn(t, "check", 1) /\ UNCHANGED <<self, undefined>>
  <2>1. /\ call' \in [Threads -> Calls] /\ call'[t].pc = "check"
        /\ \A u \in Threads : u # t => call'[u] = call[u]
    BY <1>4, TypesNow, GoOnTyping
  <2>2. ASSUME HasGnuHash(self.lib) PROVE LoadedSoFar'
    <3>1. FirstCall(t)'
      BY <2>1 DEF FirstCall
    <3>2. ASSUME NEW tag \in {"SYMTAB", "STRTAB", "GNU_HASH"}
          PROVE  FieldsOf(tag) \subseteq self.fields
      <4>1. PICK k \in DOMAIN tags : tags[k] = tag
        BY <2>2 DEF HasGnuHash
      <4>2. tags \in Seq(STRING)
        BY <1>1, LibAssumption
      <4>3. k \in 1 .. Len(tags) /\ Len(tags) \in Nat
        BY <4>2, LenProperties
      <4>4. k \in 1 .. e - 1
        BY <1>1, <1>4, <4>3
      <4> QED
        BY <1>1, <2>2, <4>1, <4>4, LoadedNow
    <3>3. Needed \subseteq self.fields
      <4>1. /\ FieldsOf("SYMTAB") = {"dynsym"} /\ FieldsOf("STRTAB") = {"dynstr"}
            /\ FieldsOf("GNU_HASH") = {"gnu", "bloom"}
        BY DEF FieldsOf
      <4> QED
        BY <3>2, <4>1 DEF Needed
    <3>4. \A u \in Threads : call'[u].pc = "load" =>
            \A k \in 1 .. call'[u].entry - 1 : FieldsOf(tags[k]) \subseteq self.fields
      BY <1>1, <2>1, <2>2, LoadedNow
    <3> QED
      BY <1>1, <1>4, <3>1, <3>3, <3>4 DEF LoadedSoFar
  <2> QED
    BY <1>1, <1>4, <2>1, <2>2, TypesNow, InsideCall
<1> QED
  BY <1>2, <1>3, <1>4 DEF LoadEntry

\* A library with all the tables passes the check, whoever else loads it.
LEMMA CheckPasses ==
  ASSUME IInv, NEW t \in Threads, call[t].pc = "check", HasGnuHash(self.lib)
  PROVE  Complete(self.fields)
<1>1. ~Idle(t)
  BY DEF Idle
<1>2. Needed \subseteq self.fields
  BY <1>1, LoadedNow
<1> QED
  BY <1>2 DEF Needed, Complete

\* What the loading has found is looked at.
LEMMA LoadCheckInvariant ==
  ASSUME IInv, NEW t \in Threads, LoadCheck(t)
  PROVE  IInv'
<1>1. /\ ~undefined /\ call[t].pc = "check" /\ ~Idle(t)
      /\ UNCHANGED <<linkmap, loads, handle, heap, mem, opening, undefined, overlap>>
  BY DEF LoadCheck, allocation, Idle
<1>2. CASE Complete(self.fields) /\ GoOn(t, "find", 1) /\ UNCHANGED <<self, ret>>
  <2>1. /\ call' \in [Threads -> Calls] /\ call'[t].pc = "find"
        /\ \A u \in Threads : u # t => call'[u] = call[u]
    BY <1>2, TypesNow, GoOnTyping
  <2>2. ASSUME HasGnuHash(self.lib) PROVE LoadedSoFar'
    <3>1. Needed \subseteq self.fields
      BY <1>1, <2>2, LoadedNow
    <3>2. \A u \in Threads : call'[u].pc = "load" =>
            \A k \in 1 .. call'[u].entry - 1 :
              FieldsOf(Dynamic[self.lib][k]) \subseteq self.fields
      BY <1>1, <2>1, <2>2, LoadedNow
    <3> QED
      BY <1>1, <1>2, <3>1, <3>2 DEF LoadedSoFar
  <2> QED
    BY <1>1, <1>2, <2>1, <2>2, TypesNow, InsideCall
<1>3. CASE /\ ~Complete(self.fields)
           /\ self' = [self EXCEPT !.fields = @ \ {"dynstr", "dynsym", "sysv", "gnu"}]
           /\ Return(t, Null)
  <2>1. ~HasGnuHash(self.lib)
    BY <1>1, <1>3, CheckPasses
  <2>2. Null \in Answers
    BY DEF Answers
  <2>3. /\ call' \in [Threads -> Calls] /\ ret' \in [Threads -> Answers]
        /\ \A u \in Threads : u # t => call'[u] = call[u]
    BY <1>3, <2>2, TypesNow, ReturnTyping
  <2>4. /\ self' \in [lib : Libs \cup {"none"}, bias : 0 .. MaxLoads, tried : BOOLEAN,
                      fields : SUBSET Fields]
        /\ self'.lib = self.lib /\ self'.bias = self.bias
    BY <1>3, TypesNow
  <2> QED
    BY <1>1, <2>1, <2>3, <2>4, TypesNow, InsideCall
<1> QED
  BY <1>2, <1>3 DEF LoadCheck

\* What a lookup returns is typed: an address is that of a symbol of the library.
LEMMA FindReturns ==
  ASSUME IInv, NEW t \in Threads, Find(t)
  PROVE  \/ /\ Mapped /\ call[t].sym \in Exports[self.lib]
            /\ Address(self.lib, self.bias, call[t].sym) \in Answers
            /\ Return(t, Address(self.lib, self.bias, call[t].sym)) /\ UNCHANGED undefined
         \/ /\ call[t].sym \notin Exports[self.lib]
            /\ Return(t, Null) /\ UNCHANGED undefined
         \/ /\ ~(Mapped /\ Needed \subseteq self.fields)
            /\ undefined' = TRUE /\ UNCHANGED <<call, ret>>
<1>1. self.lib \in Libs /\ self.bias \in 0 .. MaxLoads
  BY DEF Find, IInv, CallsAreInside, Idle, TypeOK
<1>2. call[t].sym \in Exports[self.lib] => call[t].sym \in Symbols
  BY <1>1, LibAssumption
<1>3. call[t].sym \in Exports[self.lib] =>
        Address(self.lib, self.bias, call[t].sym) \in Answers
  BY <1>1, <1>2 DEF Answers
<1> QED
  BY <1>3 DEF Find, Needed

\* The answer is looked for in what is loaded.
LEMMA FindInvariant ==
  ASSUME IInv, NEW t \in Threads, Find(t)
  PROVE  IInv'
<1>1. /\ ~undefined /\ call[t].pc = "find" /\ ~Idle(t)
      /\ UNCHANGED <<linkmap, loads, handle, self, heap, mem, opening, overlap>>
  BY DEF Find, allocation, Idle
<1>2. ASSUME NEW r \in Answers, Return(t, r), UNCHANGED undefined PROVE IInv'
  <2>1. /\ call' \in [Threads -> Calls] /\ ret' \in [Threads -> Answers]
        /\ call'[t] = NoCall
        /\ \A u \in Threads : u # t => call'[u] = call[u]
    BY <1>2, TypesNow, ReturnTyping
  <2>2. ASSUME HasGnuHash(self.lib) PROVE LoadedSoFar'
    <3>1. call'[t].pc = "idle"
      BY <2>1 DEF NoCall
    <3>2. \A u \in Threads : call'[u].pc # "idle" => call'[u] = call[u]
      BY <2>1, <3>1
    <3>3. \A u \in Threads : FirstCall(u) => FirstCall(u)'
      BY <1>1, <2>1 DEF FirstCall
    <3> QED
      BY <1>1, <2>2, <3>2, <3>3, LoadedNow DEF LoadedSoFar
  <2> QED
    BY <1>1, <1>2, <2>1, <2>2, TypesNow, InsideCall
<1>3. CASE /\ ~(Mapped /\ Needed \subseteq self.fields)
           /\ undefined' = TRUE /\ UNCHANGED <<call, ret>>
  <2>1. ASSUME HasGnuHash(self.lib) PROVE LoadedSoFar'
    BY <1>1, <1>3, <2>1, LoadedNow DEF LoadedSoFar, FirstCall
  <2>2. ~Mapped \/ ~HasGnuHash(self.lib) \/ overlap
    BY <1>1, <1>3, LoadedNow
  <2> QED
    BY <1>1, <1>3, <2>1, <2>2, TypesNow, InsideCall
<1>4. Null \in Answers
  BY DEF Answers
<1> QED
  BY <1>2, <1>3, <1>4, FindReturns

\* Every step keeps the invariant.
LEMMA StepInvariant == IInv /\ [Next]_vars => IInv'
<1> SUFFICES ASSUME IInv, [Next]_vars PROVE IInv'
  OBVIOUS
<1>1. CASE UNCHANGED vars
  <2>1. /\ UNCHANGED <<linkmap, loads, handle, self, call, ret, undefined, overlap>>
        /\ UNCHANGED <<heap, mem, opening>>
    BY <1>1 DEF vars, allocation
  <2>2. TypeOK'
    BY <2>1 DEF IInv, TypeOK
  <2>3. (OwnsMemory /\ PointersInOrder /\ CallsAreInside)'
    BY <2>1 DEF IInv, OwnsMemory, PointersInOrder, CallsAreInside, Idle
  <2>4. LoadedSoFar'
    BY <2>1 DEF IInv, LoadedSoFar, FirstCall
  <2>5. UndefinedOnlyIf'
    BY <2>1 DEF IInv, UndefinedOnlyIf, Mapped, Loaded
  <2> QED
    BY <2>2, <2>3, <2>4, <2>5 DEF IInv
<1>2. CASE Next
  BY <1>2, DlopenInvariant, DlcloseInvariant, OpenInvariant, AllocationInvariant, CloseInvariant, SymEnterInvariant,
     SymClaimInvariant, LoadEntryInvariant, LoadCheckInvariant, FindInvariant DEF Next, Sym
<1> QED
  BY <1>1, <1>2

\* It holds in every state.
LEMMA Invariant == Spec => []IInv
BY InitInvariant, StepInvariant, PTL DEF Spec

--------------------------------------------------------------------------------
(* The results.                                                            *)

\* The variables of the handle, its calls and the list of libraries keep their
\* types.
THEOREM TypeCorrect == Spec => []TypeOK
<1>1. IInv => TypeOK
  BY DEF IInv
<1> QED
  BY <1>1, Invariant, PTL

\* Whichever allocation fails, nothing is allocated outside xdl_open but the two
\* blocks that an open handle points to (xdl.c:166-171 and xdl_close).
THEOREM HandleOwnsMemory == Spec => []OwnsMemory
<1>1. IInv => OwnsMemory
  BY DEF IInv
<1> QED
  BY <1>1, Invariant, PTL

\* Nothing undefined happens to a client that opens a library which is there, has
\* a .gnu.hash and stays loaded, and whose first call is over before the next.
THEOREM DefinedForCarefulClients == Spec => []UndefinedOnlyIf
<1>1. IInv => UndefinedOnlyIf
  BY DEF IInv
<1> QED
  BY <1>1, Invariant, PTL

\* A call that ends returns NULL for what is not there, or the address.
LEMMA ReturnsRight ==
  ASSUME IInv, [Next]_vars, NEW t \in Threads, ~Idle(t), Idle(t)'
  PROVE  IF ret'[t] = Null
         THEN call[t].sym \notin Exports[self.lib] \/ ~HasGnuHash(self.lib)
         ELSE /\ ret'[t] = Address(self.lib, self.bias, call[t].sym)
              /\ call[t].sym \in Exports[self.lib] /\ Mapped
<1> DEFINE Goal == IF ret'[t] = Null
                   THEN call[t].sym \notin Exports[self.lib] \/ ~HasGnuHash(self.lib)
                   ELSE /\ ret'[t] = Address(self.lib, self.bias, call[t].sym)
                        /\ call[t].sym \in Exports[self.lib] /\ Mapped
<1>1. ASSUME NEW r \in Answers, NEW u \in Threads, Return(u, r)
      PROVE  u = t /\ ret'[t] = r
  <2>1. u = t
    BY <1>1, TypesNow, ReturnTyping DEF Idle
  <2> QED
    BY <1>1, <2>1, TypesNow, ReturnTyping
<1>2. ASSUME NEW u \in Threads, NEW place \in {"load", "check", "find"},
             NEW entry \in Nat \ {0}, GoOn(u, place, entry)
      PROVE  FALSE
  <2>1. call'[t].pc # "idle"
    BY <1>2, TypesNow, GoOnTyping DEF Idle
  <2> QED
    BY <2>1 DEF Idle
<1>3. Null \in Answers
  BY DEF Answers
<1>4. call' # call
  BY DEF Idle
<1>5. ASSUME NEW u \in Threads, SymClaim(u) PROVE Goal
  <2>1. Return(u, Null) /\ Dynamic[self.lib] = <<>>
    BY <1>2, <1>4, <1>5 DEF SymClaim
  <2> QED
    BY <1>1, <1>3, <2>1 DEF HasGnuHash
<1>6. ASSUME NEW u \in Threads, LoadEntry(u) PROVE Goal
  <2>1. call[u].entry + 1 \in Nat \ {0}
    BY TypesNow, CallTyping
  <2> QED
    BY <1>2, <1>4, <1>6, <2>1 DEF LoadEntry
<1>7. ASSUME NEW u \in Threads, LoadCheck(u) PROVE Goal
  <2>1. Return(u, Null) /\ ~Complete(self.fields) /\ call[u].pc = "check"
    BY <1>2, <1>7 DEF LoadCheck
  <2>2. ~HasGnuHash(self.lib)
    BY <2>1, CheckPasses
  <2> QED
    BY <1>1, <1>3, <2>1, <2>2
<1>8. ASSUME NEW u \in Threads, Find(u) PROVE Goal
  <2> DEFINE a == Address(self.lib, self.bias, call[u].sym)
  <2>1. a # Null
    BY DEF Address, Null
  <2> QED
    BY <1>1, <1>3, <1>4, <1>8, <2>1, FindReturns
<1>9. ASSUME NEW u \in Threads, NEW s \in Symbols, SymEnter(u, s) PROVE Goal
  <2>1. Idle(u) /\ u # t
    BY <1>9 DEF SymEnter
  <2>2. CASE Return(u, Null)
    BY <1>1, <1>3, <2>1, <2>2
  <2>3. CASE call' = [call EXCEPT ![u] = [pc |-> IF self.tried THEN "find" ELSE "claim",
                                          sym |-> s, entry |-> 1]]
    BY <2>1, <2>3, TypesNow DEF Idle
  <2> QED
    BY <1>4, <1>9, <2>2, <2>3 DEF SymEnter
<1> QED
  BY <1>4, <1>5, <1>6, <1>7, <1>8, <1>9
     DEF Next, Sym, vars, allocation, Dlopen, Dlclose, Open, Allocate, CopyName, CopyNameFails, Close

\* Every call of xdl_sym returns the truth, also when first calls overlap: an
\* address is that of the symbol in the library as it is loaded now, NULL means
\* that there is none or that tables are missing.
THEOREM AnswersAreRight == Spec => RightAnswer
<1>1. IInv /\ [Next]_vars =>
        [\A t \in Threads :
           ~Idle(t) /\ Idle(t)' =>
             IF ret'[t] = Null
             THEN call[t].sym \notin Exports[self.lib] \/ ~HasGnuHash(self.lib)
             ELSE /\ ret'[t] = Address(self.lib, self.bias, call[t].sym)
                  /\ call[t].sym \in Exports[self.lib] /\ Mapped]_vars
  BY ReturnsRight
<1> QED
  BY <1>1, Invariant, PTL DEF Spec, RightAnswer

\* A library that goes by a name matches it.
LEMMA GoesByMatches ==
  ASSUME NEW named, NEW filename, GoesBy(named, filename)
  PROVE  Matches(filename, named)
BY DEF GoesBy, Matches, IsTailOf

\* xdl_open passes over no library that goes by the name, and takes the first.
LEMMA OpenTakesFirst ==
  ASSUME TypeOK, NEW f \in Filenames, NEW k \in DOMAIN linkmap, Open(f), linkmap[k].bias # 0,
         NameOf[linkmap[k].lib] # <<>>, GoesBy(NameOf[linkmap[k].lib], f)
  PROVE  opening' \in 1 .. k
<1>1. k \in Candidates(f)
  BY GoesByMatches DEF Candidates
<1>2. PICK j \in Candidates(f) : (\A i \in Candidates(f) : j <= i) /\ opening' = j
  BY <1>1 DEF Open
<1>3. j \in DOMAIN linkmap
  BY DEF Candidates
<1> QED
  BY <1>1, <1>2, <1>3, EntryTyping

\* xdl_open never misses a loaded library that goes by the name.
THEOREM OpenMissesNone == Spec => NoneMissed
<1>1. IInv /\ [Next]_vars =>
        [\A f \in Filenames, k \in DOMAIN linkmap :
           /\ Open(f) /\ linkmap[k].bias # 0
           /\ NameOf[linkmap[k].lib] # <<>> /\ GoesBy(NameOf[linkmap[k].lib], f)
           => opening' \in 1 .. k]_vars
  BY OpenTakesFirst DEF IInv
<1> QED
  BY <1>1, Invariant, PTL DEF Spec, NoneMissed

--------------------------------------------------------------------------------
(* The listing by memory map.                                              *)

\* What the kernel has gone past and is there all the time is in the buffer, in
\* the line at hand or already shown.
GonePast ==
  \A a \in stable : Target(a) /\ a.base < next =>
    a \in ToSet(buffer) \cup ToSet(line) \cup ToSet(shown)

MapsInv == MapsTypeOK /\ GonePast

\* What a sequence of libraries has in it.
LEMMA SeqRange ==
  ASSUME NEW S, NEW s \in Seq(S)
  PROVE  ToSet(s) = {s[i] : i \in 1 .. Len(s)}
BY LenProperties DEF ToSet

\* One more at its end.
LEMMA RangeOfAppend ==
  ASSUME NEW S, NEW s \in Seq(S), NEW a \in S
  PROVE  ToSet(Append(s, a)) = ToSet(s) \cup {a}
<1>1. /\ Append(s, a) \in Seq(S) /\ Len(Append(s, a)) = Len(s) + 1 /\ Len(s) \in Nat
      /\ \A i \in 1 .. Len(s) : Append(s, a)[i] = s[i]
      /\ Append(s, a)[Len(s) + 1] = a
  BY AppendProperties, LenProperties
<1>2. 1 .. Len(s) + 1 = 1 .. Len(s) \cup {Len(s) + 1}
  BY <1>1
<1>3. /\ ToSet(s) = {s[i] : i \in 1 .. Len(s)}
      /\ ToSet(Append(s, a)) = {Append(s, a)[i] : i \in 1 .. Len(s) + 1}
  BY <1>1, SeqRange
<1> QED
  BY <1>1, <1>2, <1>3

\* All but the first.
LEMMA RangeOfTail ==
  ASSUME NEW S, NEW s \in Seq(S), s # <<>>
  PROVE  Tail(s) \in Seq(S) /\ Head(s) \in S /\ ToSet(s) = {Head(s)} \cup ToSet(Tail(s))
<1>1. /\ Tail(s) \in Seq(S) /\ Len(Tail(s)) = Len(s) - 1 /\ Len(s) \in Nat \ {0} /\ Head(s) \in S
      /\ Head(s) = s[1] /\ \A i \in 1 .. Len(s) - 1 : Tail(s)[i] = s[i + 1]
  BY HeadTailProperties, EmptySeq, LenProperties
<1>2. \A i \in 2 .. Len(s) : i - 1 \in 1 .. Len(s) - 1 /\ s[i] = Tail(s)[i - 1]
  BY <1>1
<1>3. ToSet(s) = {s[i] : i \in 1 .. Len(s)} /\ ToSet(Tail(s)) = {Tail(s)[i] : i \in 1 .. Len(s) - 1}
  BY <1>1, SeqRange
<1>4. ASSUME NEW x \in ToSet(s) PROVE x \in {Head(s)} \cup ToSet(Tail(s))
  <2>1. PICK i \in 1 .. Len(s) : x = s[i]
    BY <1>3
  <2>2. CASE i = 1
    BY <1>1, <2>1, <2>2
  <2>3. CASE i # 1
    <3>1. i \in 2 .. Len(s)
      BY <1>1, <2>1, <2>3
    <3> QED
      BY <1>2, <1>3, <2>1, <3>1
  <2> QED
    BY <2>2, <2>3
<1>5. \A i \in 1 .. Len(s) - 1 : i + 1 \in 1 .. Len(s)
  BY <1>1
<1>6. ToSet(Tail(s)) \subseteq ToSet(s)
  BY <1>1, <1>3, <1>5
<1>7. 1 \in 1 .. Len(s)
  BY <1>1
<1>8. Head(s) \in ToSet(s)
  BY <1>1, <1>3, <1>7
<1> QED
  BY <1>1, <1>4, <1>6, <1>8

\* Nothing of the maps has been read at first.
LEMMA MapsInitInvariant == MapsInit => MapsInv
BY MapsAssumption, EmptySeq DEF MapsInit, MapsInv, MapsTypeOK, GonePast

\* The maps change while they are read.
LEMMA ChangeInvariant == MapsInv /\ Change => MapsInv'
<1> SUFFICES ASSUME MapsInv, Change PROVE MapsInv'
  OBVIOUS
<1>1. /\ memory' \subseteq Areas /\ stable' = stable \cap memory'
      /\ UNCHANGED <<step, buffer, next, line, shown>>
  BY DEF Change, MapsInv, MapsTypeOK
<1>2. changes' \in 0 .. MaxChanges
  BY MapsAssumption DEF Change, MapsInv, MapsTypeOK
<1> QED
  BY <1>1, <1>2 DEF MapsInv, MapsTypeOK, GonePast

\* The kernel fills the buffer.
LEMMA FillInvariant == MapsInv /\ Fill => MapsInv'
<1> SUFFICES ASSUME MapsInv, Fill PROVE MapsInv'
  OBVIOUS
<1>1. PICK k \in 0 .. Buffer : buffer' \in [1 .. k -> memory] /\ AreNext(buffer')
  BY DEF Fill
<1>2. /\ buffer' \in Seq(memory) /\ Len(buffer') = k /\ k \in Nat
  BY <1>1, MapsAssumption
<1>3. /\ step = "fgets" /\ buffer = <<>> /\ line = <<>>
      /\ UNCHANGED <<memory, changes, line, shown, stable>>
      /\ memory \subseteq Areas /\ stable \subseteq memory /\ next \in Nat
  BY DEF Fill, MapsInv, MapsTypeOK
<1>4. buffer' \in Seq(Areas)
  BY <1>2, <1>3, SeqMonotonic
<1>5. CASE buffer' = <<>> /\ step' = "returned" /\ UNCHANGED next
  BY <1>3, <1>4, <1>5 DEF MapsInv, MapsTypeOK, GonePast
<1>6. CASE buffer' # <<>> /\ next' = Last(buffer').base + 1 /\ UNCHANGED step
  <2>1. Last(buffer') \in memory /\ Last(buffer').base \in Nat
    BY <1>1, <1>2, <1>3, <1>6, MapsAssumption, EmptySeq DEF Last
  <2>2. MapsTypeOK'
    BY <1>1, <1>2, <1>3, <1>4, <1>6, <2>1 DEF MapsInv, MapsTypeOK
  <2>3. ASSUME NEW a \in stable', Target(a), a.base < next'
        PROVE  a \in ToSet(buffer') \cup ToSet(line') \cup ToSet(shown')
    <3>1. a \in memory /\ a.base \in Nat
      BY <1>3, MapsAssumption
    <3>2. CASE a.base < next
      <4>1. ToSet(buffer) = {}
        BY <1>3 DEF ToSet
      <4> QED
        BY <1>3, <2>3, <3>2, <4>1 DEF MapsInv, GonePast
    <3>3. CASE a.base >= next
      BY <1>1, <1>6, <2>1, <2>3, <3>1, <3>3 DEF AreNext
    <3> QED
      BY <1>3, <3>1, <3>2, <3>3
  <2> QED
    BY <2>2, <2>3 DEF MapsInv, GonePast
<1> QED
  BY <1>5, <1>6 DEF Fill

\* A line is taken from the buffer.
LEMMA FgetsInvariant == MapsInv /\ Fgets => MapsInv'
<1> SUFFICES ASSUME MapsInv, Fgets PROVE MapsInv'
  OBVIOUS
<1>1. /\ step = "fgets" /\ buffer # <<>> /\ line = <<>> /\ buffer \in Seq(Areas)
      /\ line' = <<Head(buffer)>> /\ buffer' = Tail(buffer) /\ step' = "check"
      /\ UNCHANGED <<memory, changes, next, shown, stable>>
  BY DEF Fgets, MapsInv, MapsTypeOK
<1>2. /\ buffer' \in Seq(Areas) /\ Head(buffer) \in Areas
      /\ ToSet(buffer) = {Head(buffer)} \cup ToSet(buffer')
  BY <1>1, RangeOfTail
<1>3. Len(buffer') <= Buffer
  BY <1>1, <1>2, MapsAssumption, HeadTailProperties, LenProperties DEF MapsInv, MapsTypeOK
<1>4. ToSet(line) = {} /\ ToSet(line') = {Head(buffer)}
  BY <1>1 DEF ToSet
<1>5. MapsTypeOK'
  BY <1>1, <1>2, <1>3 DEF MapsInv, MapsTypeOK
<1>6. GonePast'
  BY <1>1, <1>2, <1>4 DEF MapsInv, GonePast
<1> QED
  BY <1>5, <1>6 DEF MapsInv

\* A target passes every test of the loop, and its memory can be read.
LEMMA TargetIsFound ==
  ASSUME NEW a \in Areas, Target(a)
  PROVE  Scanned(a) /\ a.elf /\ Named(a) /\ a.perms # "---p"
<1>1. a.path # <<>>
  <2> SUFFICES ASSUME a.path = <<>> PROVE FALSE
    OBVIOUS
  <2>1. Len(FilePath) \in Nat \ {0}
    BY MapsAssumption, EmptySeq
  <2>2. Len(FilePath) <= Len(<<>>)
    BY DEF Target, IsPrefix
  <2> QED
    BY <2>1, <2>2
<1> QED
  BY <1>1 DEF Target, Scanned, Named

\* A line is compared with the address.
LEMMA CheckInvariant == MapsInv /\ Check => MapsInv'
<1> SUFFICES ASSUME MapsInv, Check PROVE MapsInv'
  OBVIOUS
<1>1. PICK a \in Areas : line = <<a>>
  BY DEF Check, MapsInv, MapsTypeOK
<1>2. /\ step = "check" /\ line[1] = a /\ ToSet(line) = {a} /\ shown \in Seq(Areas)
      /\ UNCHANGED <<memory, changes, buffer, next, stable>>
  BY <1>1 DEF Check, ToSet, MapsInv, MapsTypeOK
<1>3. CASE step' = "killed" /\ UNCHANGED <<line, shown>>
  BY <1>2, <1>3 DEF MapsInv, MapsTypeOK, GonePast
<1>4. CASE /\ ~(Scanned(a) /\ (a \notin memory \/ a.perms = "---p"))
           /\ step' = "fgets" /\ line' = <<>>
           /\ shown' = IF Scanned(a) /\ a.elf /\ Named(a) THEN Append(shown, a) ELSE shown
  <2>1. /\ shown' \in Seq(Areas) /\ ToSet(shown) \subseteq ToSet(shown')
        /\ Scanned(a) /\ a.elf /\ Named(a) => a \in ToSet(shown')
    BY <1>2, <1>4, AppendProperties, RangeOfAppend
  <2>2. MapsTypeOK'
    BY <1>2, <1>4, <2>1 DEF MapsInv, MapsTypeOK
  <2>3. ASSUME NEW b \in stable', Target(b), b.base < next'
        PROVE  b \in ToSet(buffer') \cup ToSet(line') \cup ToSet(shown')
    <3>1. b \in ToSet(buffer) \cup {a} \cup ToSet(shown)
      BY <1>2, <2>3 DEF MapsInv, GonePast
    <3>2. CASE b = a
      BY <2>1, <2>3, <3>2, TargetIsFound
    <3> QED
      BY <1>2, <2>1, <3>1, <3>2
  <2> QED
    BY <2>2, <2>3 DEF MapsInv, GonePast
<1> QED
  BY <1>2, <1>3, <1>4 DEF Check

\* Every step keeps the invariant of the maps.
LEMMA MapsStepInvariant == MapsInv /\ [MapsNext]_mapsVars => MapsInv'
<1> SUFFICES ASSUME MapsInv, [MapsNext]_mapsVars PROVE MapsInv'
  OBVIOUS
<1>1. CASE UNCHANGED mapsVars
  BY <1>1 DEF mapsVars, MapsInv, MapsTypeOK, GonePast
<1>2. CASE Fopen
  BY <1>2 DEF Fopen, MapsInv, MapsTypeOK, GonePast
<1> QED
  BY <1>1, <1>2, ChangeInvariant, FillInvariant, FgetsInvariant, CheckInvariant DEF MapsNext, Walk

\* It holds in every state.
LEMMA MapsInvariant == MapsSpec => []MapsInv
BY MapsInitInvariant, MapsStepInvariant, PTL DEF MapsSpec

\* Wherever the buffer ends and whatever other threads map and unmap meanwhile: a
\* walk that has gone past all of memory has shown every target that was mapped
\* throughout (xdl.c, xdl_iterate_by_maps).
THEOREM MapsSkipNone == MapsSpec => []NoneSkipped
<1>1. MapsInv => NoneSkipped
  <2> SUFFICES ASSUME MapsInv, step = "fgets", \A a \in memory : a.base < next, buffer = <<>>,
                      NEW a \in stable, Target(a)
               PROVE  Contains(shown, a)
    BY DEF NoneSkipped
  <2>1. /\ line = <<>> /\ a.base < next /\ shown \in Seq(Areas)
    BY DEF MapsInv, MapsTypeOK
  <2>2. a \in ToSet(shown)
    BY <2>1 DEF MapsInv, GonePast, ToSet
  <2> QED
    BY <2>1, <2>2, SeqRange DEF Contains
<1> QED
  BY <1>1, MapsInvariant, PTL

--------------------------------------------------------------------------------
(* XdlLookup.  What a well-formed section says about one name.             *)

\* What the linker guarantees of a hash section.
LEMMA SectionFacts ==
  ASSUME NEW tb \in Sections, NEW n \in Names
  PROVE  /\ tb.count \in Nat \ {0} /\ tb.symoffset \in Nat
         /\ Bucket(tb, Hash[n]) \in SymbolIndices(tb)
         /\ \A j \in Exported(tb) :
              Chain(tb, j) \in Nat /\ (j = tb.count - 1 => LowBit(Chain(tb, j)))
         /\ Exported(tb) \subseteq Nat
BY SectionAssumption DEF WellFormed, ChainsEnd, Exported, SymbolIndices

\* A name that is defined is found from its bucket on, and the filter lets it pass.
LEMMA DefinitionReached ==
  ASSUME NEW tb \in Sections, NEW n \in Names, NEW j \in Definitions(tb, n)
  PROVE  /\ j \in Exported(tb) /\ tb.dynsym[j] = n
         /\ tb.symoffset <= Bucket(tb, Hash[n]) /\ Bucket(tb, Hash[n]) <= j
         /\ \A k \in Exported(tb) : Bucket(tb, Hash[n]) <= k /\ k < j => ~LowBit(Chain(tb, k))
         /\ SameButLowBit(Hash[n], Chain(tb, j))
         /\ {Bit(Hash[n]), Bit(Shifted(tb, Hash[n]))} \subseteq Word(tb, Hash[n])
<1>1. j \in Exported(tb) /\ tb.dynsym[j] = n
  BY DEF Definitions
<1>2. ReachedFromBucket(tb, j)
  BY <1>1, SectionAssumption DEF WellFormed
<1>3. QED
  BY <1>1, <1>2 DEF ReachedFromBucket

--------------------------------------------------------------------------------
(* The inductive invariant of the lookup.                                  *)

\* The locals of the call agree with each other, and nothing is returned early.
LookupLocals ==
  /\ table \in Sections /\ name \in Names /\ hash = Hash[name]
  /\ pc \in {"bloom", "bucket", "walk", "done"}
  /\ index \in Nat
  /\ pc # "done" => answer = Pending

LookupInv == LookupLocals /\ InsideTables /\ NothingMissed /\ Correct

\* No lookup has been answered at first.
LEMMA LookupInitInvariant == LookupInit => LookupInv
BY DEF LookupInit, LookupInv, LookupLocals, InsideTables, NothingMissed, Correct

\* The filter answers only for names that have no definition.
LEMMA BloomFilterInvariant == LookupInv /\ BloomFilter => LookupInv'
<1> SUFFICES ASSUME LookupInv, BloomFilter PROVE LookupInv'
  OBVIOUS
<1>1. LookupLocals /\ pc = "bloom" /\ UNCHANGED <<table, name, hash, index>>
  BY DEF LookupInv, BloomFilter
<1>2. CASE {Bit(hash), Bit(Shifted(table, hash))} \subseteq Word(table, hash)
  BY <1>1, <1>2 DEF BloomFilter, LookupInv, LookupLocals, InsideTables, NothingMissed, Correct
<1>3. CASE ~({Bit(hash), Bit(Shifted(table, hash))} \subseteq Word(table, hash))
  <2>1. Definitions(table, name) = {}
    BY <1>1, <1>3, DefinitionReached DEF LookupLocals
  <2>2. pc' = "done" /\ answer' = NULL
    BY <1>3 DEF BloomFilter, ReturnIndex
  <2>3. Correct'
    BY <1>1, <2>1, <2>2 DEF Correct, Definitions, Exported, SymbolIndices
  <2>4. QED
    BY <1>1, <2>2, <2>3 DEF LookupInv, LookupLocals, InsideTables, NothingMissed
<1>4. QED
  BY <1>2, <1>3

\* An empty bucket is one of a name without definition; the walk starts at or
\* before the first definition.
LEMMA ReadBucketInvariant == LookupInv /\ ReadBucket => LookupInv'
<1> SUFFICES ASSUME LookupInv, ReadBucket PROVE LookupInv'
  OBVIOUS
<1>1. LookupLocals /\ pc = "bucket" /\ UNCHANGED <<table, name, hash>> /\ index' = Bucket(table, hash)
  BY DEF LookupInv, ReadBucket
<1>2. /\ table.count \in Nat \ {0} /\ table.symoffset \in Nat
      /\ Bucket(table, hash) \in SymbolIndices(table)
  BY <1>1, SectionFacts DEF LookupLocals
<1>3. Bucket(table, hash) \in Nat
  BY <1>2 DEF SymbolIndices
<1>4. CASE Bucket(table, hash) < table.symoffset
  <2>1. Definitions(table, name) = {}
    <3> SUFFICES ASSUME NEW j \in Definitions(table, name) PROVE FALSE
      OBVIOUS
    <3>1. table.symoffset <= Bucket(table, hash)
      BY <1>1, DefinitionReached DEF LookupLocals
    <3>2. QED
      BY <1>2, <1>3, <1>4, <3>1
  <2>2. pc' = "done" /\ answer' = NULL
    BY <1>4 DEF ReadBucket, ReturnIndex
  <2>3. Correct'
    BY <1>1, <2>1, <2>2 DEF Correct, Definitions, Exported, SymbolIndices
  <2>4. QED
    BY <1>1, <1>3, <2>2, <2>3 DEF LookupInv, LookupLocals, InsideTables, NothingMissed
<1>5. CASE ~(Bucket(table, hash) < table.symoffset)
  <2>1. pc' = "walk" /\ UNCHANGED answer
    BY <1>5 DEF ReadBucket
  <2>2. Bucket(table, hash) \in Exported(table)
    BY <1>2, <1>3, <1>5 DEF Exported
  <2>3. InsideTables'
    BY <1>1, <2>2 DEF InsideTables, Exported, SymbolIndices
  <2>4. NothingMissed'
    <3>1. \A j \in Definitions(table, name) : Bucket(table, hash) <= j
      BY <1>1, DefinitionReached DEF LookupLocals
    <3>2. \A j \in Exported(table) :
            ~(Bucket(table, hash) <= j /\ j < Bucket(table, hash))
      BY <1>3, <1>1, SectionFacts DEF LookupLocals
    <3>3. Definitions(table, name)' = Definitions(table, name)
          /\ Exported(table)' = Exported(table) /\ Bucket(table, hash)' = Bucket(table, hash)
      BY <1>1 DEF Definitions, Exported, SymbolIndices, Bucket
    <3>4. QED
      BY <1>1, <1>3, <3>1, <3>2, <3>3 DEF NothingMissed
  <2>5. QED
    BY <1>1, <1>3, <2>1, <2>3, <2>4 DEF LookupInv, LookupLocals, Correct
<1>6. QED
  BY <1>4, <1>5

\* A turn of the loop returns a definition, or the end of the chain says that
\* there is none, or the walk goes on and has still missed nothing.
LEMMA WalkChainInvariant == LookupInv /\ WalkChain => LookupInv'
<1> SUFFICES ASSUME LookupInv, WalkChain PROVE LookupInv'
  OBVIOUS
<1> DEFINE found == SameButLowBit(hash, Chain(table, index)) /\ table.dynsym[index] = name
           last == LowBit(Chain(table, index))
<1>1. LookupLocals /\ pc = "walk" /\ UNCHANGED <<table, name, hash>>
  BY DEF LookupInv, WalkChain
<1>2. /\ table.count \in Nat \ {0} /\ table.symoffset \in Nat /\ index \in Nat
      /\ index \in Exported(table) /\ Exported(table) \subseteq Nat
      /\ index = table.count - 1 => last
  BY <1>1, SectionFacts DEF LookupInv, LookupLocals, InsideTables
<1>3. /\ Bucket(table, hash) <= index
      /\ \A j \in Exported(table) : Bucket(table, hash) <= j /\ j < index => ~LowBit(Chain(table, j))
      /\ \A j \in Definitions(table, name) : index <= j
  BY <1>1 DEF LookupInv, NothingMissed
<1>4. index \in Definitions(table, name) <=> found
  BY <1>1, <1>2, DefinitionReached DEF Definitions, LookupLocals
<1>5. /\ Definitions(table, name)' = Definitions(table, name)
      /\ Exported(table)' = Exported(table) /\ Bucket(table, hash)' = Bucket(table, hash)
  BY <1>1 DEF Definitions, Exported, SymbolIndices, Bucket
<1>6. CASE found
  <2>1. pc' = "done" /\ answer' = index /\ UNCHANGED index
    BY <1>6 DEF WalkChain, ReturnIndex
  <2>2. Correct'
    BY <1>4, <1>5, <1>6, <2>1 DEF Correct
  <2>3. QED
    BY <1>1, <1>2, <2>1, <2>2 DEF LookupInv, LookupLocals, InsideTables, NothingMissed
<1>7. CASE ~found /\ last
  <2>1. pc' = "done" /\ answer' = NULL /\ UNCHANGED index
    BY <1>7 DEF WalkChain, ReturnIndex
  <2>2. Definitions(table, name) = {}
    <3> SUFFICES ASSUME NEW j \in Definitions(table, name) PROVE FALSE
      OBVIOUS
    <3>1. j \in Nat /\ index <= j /\ index # j
      BY <1>1, <1>2, <1>3, <1>4, <1>7, DefinitionReached DEF LookupLocals
    <3>2. Bucket(table, hash) <= index /\ index < j
      BY <1>2, <1>3, <3>1
    <3>3. ~last
      BY <1>1, <1>2, <3>2, DefinitionReached DEF LookupLocals
    <3>4. QED
      BY <1>7, <3>3
  <2>3. Correct'
    BY <1>5, <2>1, <2>2 DEF Correct
  <2>4. QED
    BY <1>1, <1>2, <2>1, <2>3 DEF LookupInv, LookupLocals, InsideTables, NothingMissed
<1>8. CASE ~found /\ ~last
  <2>1. index' = index + 1 /\ UNCHANGED <<pc, answer>>
    BY <1>8 DEF WalkChain
  <2>2. index + 1 \in Exported(table)
    BY <1>2, <1>8 DEF Exported, SymbolIndices
  <2>3. Bucket(table, hash) <= index + 1
    <3>1. Bucket(table, hash) \in Nat
      BY <1>1, SectionFacts DEF LookupLocals, SymbolIndices
    <3>2. QED
      BY <1>2, <1>3, <3>1
  <2>4. \A j \in Exported(table) : Bucket(table, hash) <= j /\ j < index + 1 => ~LowBit(Chain(table, j))
    <3>1. \A j \in Exported(table) : j < index + 1 => j < index \/ j = index
      BY <1>2
    <3>2. QED
      BY <1>3, <1>8, <3>1
  <2>5. \A j \in Definitions(table, name) : index + 1 <= j
    <3>1. \A j \in Definitions(table, name) : j \in Nat /\ j # index
      BY <1>2, <1>4, <1>8 DEF Definitions
    <3>2. QED
      BY <1>2, <1>3, <3>1
  <2>6. \A j : Chain(table, j)' = Chain(table, j)
    BY <1>1 DEF Chain
  <2>7. NothingMissed' /\ InsideTables'
    BY <1>1, <1>5, <2>1, <2>2, <2>3, <2>4, <2>5 DEF NothingMissed, InsideTables, Chain
  <2>8. QED
    BY <1>1, <1>2, <2>1, <2>7 DEF LookupInv, LookupLocals, Correct
<1>9. QED
  BY <1>6, <1>7, <1>8

\* A lookup is answered with a definition, if there is one.
LEMMA CallInvariant == LookupInv /\ Call => LookupInv'
BY DEF Call, LookupInv, LookupLocals, InsideTables, NothingMissed, Correct

\* Every step keeps that.
LEMMA LookupStepInvariant == LookupInv /\ [LookupNext]_lookupVars => LookupInv'
<1> SUFFICES ASSUME LookupInv, [LookupNext]_lookupVars PROVE LookupInv'
  OBVIOUS
<1>1. CASE UNCHANGED lookupVars
  BY <1>1 DEF lookupVars, LookupInv, LookupLocals, InsideTables, NothingMissed, Correct, Definitions, Exported,
     SymbolIndices, Bucket, Chain
<1>2. QED
  BY <1>1, BloomFilterInvariant, ReadBucketInvariant, WalkChainInvariant, CallInvariant DEF LookupNext

\* It holds in every state.
LEMMA LookupInvariant == LookupSpec => []LookupInv
BY LookupInitInvariant, LookupStepInvariant, PTL DEF LookupSpec

--------------------------------------------------------------------------------
(* The results.                                                            *)

\* The walk, which has no bound of its own, never leaves the tables.
THEOREM StaysInside == LookupSpec => []InsideTables
<1>1. LookupInv => InsideTables
  BY DEF LookupInv
<1>2. QED
  BY <1>1, LookupInvariant, PTL

\* Nothing the walk has passed was a definition of the name.
THEOREM MissesNothing == LookupSpec => []NothingMissed
<1>1. LookupInv => NothingMissed
  BY DEF LookupInv
<1>2. QED
  BY <1>1, LookupInvariant, PTL

\* NULL exactly for the names without definition, else one of the definitions.
THEOREM LookupCorrect == LookupSpec => []Correct
<1>1. LookupInv => Correct
  BY DEF LookupInv
<1>2. QED
  BY <1>1, LookupInvariant, PTL

\* The safety part of Implements: initial states map to initial states, and
\* every step of the walk maps to Answer, to Ask or to a stutter.
THEOREM StepsImplement ==
  LookupSpec => Abstract!Init /\ [][Abstract!Answer \/ Abstract!Ask]_(Abstract!table)
<1>1. LookupInit => Abstract!Init
  BY NullAssumption, SectionFacts DEF LookupInit, Abstract!Init, Definitions
<1>2. LookupInv /\ [LookupNext]_lookupVars => [Abstract!Answer \/ Abstract!Ask]_(Abstract!table)
  <2> SUFFICES ASSUME LookupInv, LookupInv', [LookupNext]_lookupVars
               PROVE  [Abstract!Answer \/ Abstract!Ask]_(Abstract!table)
    BY LookupStepInvariant
  <2>1. UNCHANGED table => UNCHANGED [n \in Names |-> Definitions(table, n)]
    BY DEF Definitions, Exported, SymbolIndices
  <2>2. CASE BloomFilter \/ ReadBucket \/ WalkChain
    <3>1. UNCHANGED <<table, name>> /\ pc # "done" /\ name \in Names
      BY <2>2 DEF BloomFilter, ReadBucket, WalkChain, LookupInv, LookupLocals
    <3>2. CASE UNCHANGED answer
      BY <2>1, <3>1, <3>2 DEF Abstract!table
    <3>3. CASE pc' = "done"
      <4>1. answer = Pending
        BY <3>1 DEF LookupInv, LookupLocals
      <4>2. Definitions(table, name)' = Definitions(table, name)
        BY <3>1 DEF Definitions, Exported, SymbolIndices
      <4>3. answer' \in (IF Definitions(table, name) = {} THEN {NULL} ELSE Definitions(table, name))
        BY <3>3, <4>2 DEF LookupInv, Correct
      <4>4. Abstract!Answer
        BY <2>1, <3>1, <4>1, <4>3 DEF Abstract!Answer
      <4>5. QED
        BY <4>4
    <3>4. QED
      BY <2>2, <3>2, <3>3 DEF BloomFilter, ReadBucket, WalkChain, ReturnIndex
  <2>3. CASE Call
    <3>1. answer # Pending
      BY <2>3, NullAssumption, SectionFacts
         DEF Call, LookupInv, Correct, LookupLocals, Definitions
    <3>2. QED
      BY <2>1, <2>3, <3>1 DEF Call, Abstract!Ask
  <2>4. CASE UNCHANGED lookupVars
    BY <2>1, <2>4 DEF lookupVars, Abstract!table
  <2>5. QED
    BY <2>2, <2>3, <2>4 DEF LookupNext
<1>3. QED
  BY <1>1, <1>2, LookupInvariant, PTL DEF LookupSpec
================================================================================
