------------------------------ MODULE MCXdlLookup ------------------------------
(***************************************************************************)
(* Instance of XdlLookup for TLC: every .gnu.hash section a linker may     *)
(* write for the libraries that export some of five names, one of them     *)
(* possibly twice, with one to three buckets and one or two bloom words.   *)
(***************************************************************************)
EXTENDS XdlLookup, GnuHash

\* The same function, which TLC keeps as a table and evaluates once.
Explicit(f) == f @@ <<>>

\* <<2>> and <<3>> differ in the low bit of the hash only, <<1, 34>> and
\* <<2, 1>> not at all.
MCNames == {<<2>>, <<3>>, <<1, 34>>, <<2, 1>>, <<9>>}
MCHash == Explicit([n \in MCNames |-> gnu_hash_of(n)])

\* The hash as the ELF documents give it: 5381 * 33^k + sum of c * 33^(k - j).
ElfHash ==
  LET hashOf(n) == LET k == Len(n) IN
        5381 * 33^k + FoldLeft(LAMBDA x, y : x + y, 0, [j \in 1..k |-> n[j] * 33^(k - j)])
  IN Explicit([n \in MCNames |-> hashOf(n) % 2^W])

BloomScale == 8

\* The section for the exported names in list, with hashes elf, behind STN_UNDEF and imports.
Link(elf, list, imports, nbuckets, nwords) ==
  LET bucketOf == Explicit([n \in MCNames |-> elf[n] % nbuckets])
      exports == SortSeq(list, LAMBDA n, m : bucketOf[n] < bucketOf[m])
      names == imports \o exports
      offset == 1 + Len(imports)
      defined == offset..Len(names)
      starts(s) == s = offset \/ bucketOf[names[s - 1]] # bucketOf[names[s]]
      ends(s) == s = Len(names) \/ bucketOf[names[s + 1]] # bucketOf[names[s]]
      first(b) == {s \in defined : starts(s) /\ bucketOf[names[s]] = b}
      bits(n, w) == IF (elf[n] \div ElfclassBits) % nwords = w
                    THEN {elf[n] % ElfclassBits, (elf[n] \div BloomScale) % ElfclassBits}
                    ELSE {}
  IN [count |-> 1 + Len(names),
      symoffset |-> offset,
      dynsym |-> (0 :> <<>>) @@ names,
      buckets_cnt |-> nbuckets,
      buckets |-> Explicit([b \in 0..(nbuckets - 1) |->
                    IF first(b) = {} THEN 0 ELSE CHOOSE s \in first(b) : TRUE]),
      chains |-> Explicit([c \in 0..(Len(exports) - 1) |->
                   (elf[exports[c + 1]] \div 2) * 2 + (IF ends(c + offset) THEN 1 ELSE 0)]),
      bloom_cnt |-> nwords,
      bloom_scale |-> BloomScale,
      bloom |-> Explicit([w \in 0..(nwords - 1) |-> UNION {bits(n, w) : n \in ToSet(exports)}])]

\* What library number k exports: a set of names, or that with one name twice.
AllNames == <<<<2>>, <<3>>, <<1, 34>>, <<2, 1>>, <<9>>>>
Exports(k) ==
  SelectSeq(AllNames, LAMBDA n : \E j \in 1..5 : n = AllNames[j] /\ (k \div 2^(j - 1)) % 2 = 1)
    \o (IF k >= 32 THEN <<<<2, 1>>>> ELSE <<>>)

MCSections ==
  LET elf == ElfHash IN
  {Link(elf, Exports(l), imports, nbuckets, nwords) :
     l \in 0..63, imports \in {<<>>, <<<<9>>>>}, nbuckets \in 1..3, nwords \in 1..2}
================================================================================
