------------------------------- MODULE XdlLookup -------------------------------
(***************************************************************************)
(* Symbol lookup of xdl/xdl.c through the .gnu.hash section of a library:  *)
(* xdl_dynsym_find_symbol_use_gnu_hash, one step per table it reads.       *)
(*                                                                         *)
(* The tables are written by the static linker and only read here; what a  *)
(* linker writes is the external assumption WellFormed.  A table keeps the *)
(* fields of gnu_hash; dynsym[i] is the name of symbol i (dynstr + st_name)*)
(* and a bloom word is the set of its bits.                                *)
(***************************************************************************)
EXTENDS Naturals

CONSTANTS
  Names,         \* symbol names
  Hash,          \* Hash[n]: what xdl_gnu_hash gives for n
  Sections,      \* the tables of the libraries that may be open
  ElfclassBits,  \* bits of a bloom word
  NULL,
  Pending

\* 2^bloom_shift is kept as a number: hash >> bloom_shift is a division by it.
Shifted(tb, h) == h \div tb.bloom_scale

Bit(h) == h % ElfclassBits

\* hash | 1 = sym_hash | 1
SameButLowBit(h, k) == h \div 2 = k \div 2

LowBit(h) == h % 2 = 1

Word(tb, h) == tb.bloom[(h \div ElfclassBits) % tb.bloom_cnt]

Bucket(tb, h) == tb.buckets[h % tb.buckets_cnt]

Chain(tb, i) == tb.chains[i - tb.symoffset]

SymbolIndices(tb) == 0..(tb.count - 1)

\* The symbols the section covers: those from symoffset on, which are defined.
Exported(tb) == {i \in SymbolIndices(tb) : tb.symoffset <= i}

Definitions(tb, n) == {i \in Exported(tb) : tb.dynsym[i] = n}

(***************************************************************************)
(* What a linker writes (external).                                        *)
(***************************************************************************)

\* Every definition is reached from its bucket, has the hash of its name in
\* its chain entry, and has both its bits in the bloom filter.
ReachedFromBucket(tb, i) ==
  LET h == Hash[tb.dynsym[i]] IN
  /\ tb.symoffset <= Bucket(tb, h) /\ Bucket(tb, h) <= i
  /\ \A j \in Exported(tb) : Bucket(tb, h) <= j /\ j < i => ~LowBit(Chain(tb, j))
  /\ SameButLowBit(h, Chain(tb, i))
  /\ {Bit(h), Bit(Shifted(tb, h))} \subseteq Word(tb, h)

\* A bucket holds the index of a symbol or 0, and the last chain entry is
\* marked as an end.
ChainsEnd(tb) ==
  /\ \A n \in Names : Bucket(tb, Hash[n]) \in SymbolIndices(tb)
  /\ \A i \in Exported(tb) : Chain(tb, i) \in Nat /\ (i = tb.count - 1 => LowBit(Chain(tb, i)))

WellFormed(tb) ==
  /\ tb.count \in Nat \ {0} /\ tb.symoffset \in Nat
  /\ \A i \in Exported(tb) : tb.dynsym[i] \in Names /\ ReachedFromBucket(tb, i)
  /\ ChainsEnd(tb)

ASSUME SectionAssumption == \A tb \in Sections : WellFormed(tb)
ASSUME HashAssumption == Hash \in [Names -> Nat]
ASSUME NullAssumption == NULL \notin Nat /\ Pending \notin Nat /\ NULL # Pending

VARIABLES
  table,   \* gnu_hash, dynsym and dynstr of the handle
  name,    \* sym_name
  hash,    \* what xdl_gnu_hash gave for it
  pc,      \* which table is read next
  index,   \* index of the symbol the walk is at
  answer   \* what the call returned: a symbol's index, or NULL

lookupVars == <<table, name, hash, pc, index, answer>>

LookupInit ==
  /\ table \in Sections
  /\ name \in Names
  /\ hash = Hash[name]
  /\ pc = "bloom"
  /\ index = 0
  /\ answer = Pending

ReturnIndex(r) ==
  /\ answer' = r
  /\ pc' = "done"

\* Mutant: the test of the filter is the wrong way round.
BloomFilter_AnyMissing ==
  /\ pc = "bloom"
  /\ IF Bit(hash) \in Word(table, hash) /\ Bit(Shifted(table, hash)) \in Word(table, hash)
     THEN ReturnIndex(NULL)
     ELSE pc' = "bucket" /\ UNCHANGED answer
  /\ UNCHANGED <<table, name, hash, index>>

\* If at least one bit is not set, this symbol is surely missing.
BloomFilter ==
  /\ pc = "bloom"
  /\ IF {Bit(hash), Bit(Shifted(table, hash))} \subseteq Word(table, hash)
     THEN pc' = "bucket" /\ UNCHANGED answer
     ELSE ReturnIndex(NULL)
  /\ UNCHANGED <<table, name, hash, index>>

\* Ignore STN_UNDEF, which is what an empty bucket holds.
ReadBucket ==
  /\ pc = "bucket"
  /\ index' = Bucket(table, hash)
  /\ IF Bucket(table, hash) < table.symoffset
     THEN ReturnIndex(NULL)
     ELSE pc' = "walk" /\ UNCHANGED answer
  /\ UNCHANGED <<table, name, hash>>

\* Mutants: the end mark is ignored; a hash match is taken for a name match.
WalkChain_NoEnd ==
  /\ pc = "walk"
  /\ IF SameButLowBit(hash, Chain(table, index)) /\ table.dynsym[index] = name
     THEN ReturnIndex(index) /\ UNCHANGED index
     ELSE index' = index + 1 /\ UNCHANGED <<pc, answer>>
  /\ UNCHANGED <<table, name, hash>>

WalkChain_HashOnly ==
  /\ pc = "walk"
  /\ \/ /\ SameButLowBit(hash, Chain(table, index))
        /\ ReturnIndex(index) /\ UNCHANGED index
     \/ /\ ~SameButLowBit(hash, Chain(table, index))
        /\ IF LowBit(Chain(table, index))
           THEN ReturnIndex(NULL) /\ UNCHANGED index
           ELSE index' = index + 1 /\ UNCHANGED <<pc, answer>>
  /\ UNCHANGED <<table, name, hash>>

\* One turn of the loop: compare, then stop at the end mark or go on.
WalkChain ==
  /\ pc = "walk"
  /\ LET found == SameButLowBit(hash, Chain(table, index)) /\ table.dynsym[index] = name
         last == LowBit(Chain(table, index))
     IN \/ found /\ ReturnIndex(index) /\ UNCHANGED index
        \/ ~found /\ last /\ ReturnIndex(NULL) /\ UNCHANGED index
        \/ ~found /\ ~last /\ index' = index + 1 /\ UNCHANGED <<pc, answer>>
  /\ UNCHANGED <<table, name, hash>>

\* The next call of xdl_sym on the same handle.
Call ==
  /\ pc = "done"
  /\ name' \in Names
  /\ hash' = Hash[name']
  /\ pc' = "bloom"
  /\ index' = 0
  /\ answer' = Pending
  /\ UNCHANGED table

LookupNext == BloomFilter \/ ReadBucket \/ WalkChain \/ Call

LookupSpec ==
  LookupInit /\ [][LookupNext]_lookupVars /\ WF_lookupVars(BloomFilter \/ ReadBucket \/ WalkChain)

--------------------------------------------------------------------------------
(***************************************************************************)
(* Properties.                                                             *)
(***************************************************************************)

LookupTypeOK ==
  /\ table.count \in Nat /\ hash \in Nat
  /\ name \in Names
  /\ pc \in {"bloom", "bucket", "walk", "done"}
  /\ index \in SymbolIndices(table)
  /\ answer \in Nat \cup {NULL, Pending}

\* The walk has no bound of its own: it ends only at a marked entry.  It never
\* reads a chain entry or a symbol outside the tables (xdl.c:283-296).
InsideTables == pc = "walk" => index \in Exported(table)

\* Whatever the bloom filter, empty buckets, shared chains and equal hashes do:
\* NULL is returned exactly when the name has no definition, and a symbol
\* that is returned is a definition of that very name.
Correct ==
  pc = "done" => IF Definitions(table, name) = {} THEN answer = NULL
                                                  ELSE answer \in Definitions(table, name)

\* The walk has missed nothing: every definition of the name is at or behind
\* the entry it is about to look at, in the chain it is in.
NothingMissed ==
  pc = "walk" =>
    /\ Bucket(table, hash) <= index
    /\ \A j \in Exported(table) : Bucket(table, hash) <= j /\ j < index => ~LowBit(Chain(table, j))
    /\ \A j \in Definitions(table, name) : index <= j

Abstract == INSTANCE SymbolTable WITH
  defs <- [n \in Names |-> Definitions(table, n)], asked <- name

\* The lookup implements the promise of SymbolTable, and every call returns.
Implements == Abstract!Spec
================================================================================
