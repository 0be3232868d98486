----------------------------- MODULE MCIPCProvider -----------------------------
(***************************************************************************)
(* Instance of IPCProvider for TLC.                                        *)
(***************************************************************************)
EXTENDS IPCProvider, TLC

CONSTANTS t1, t2, c1, c2, ann, bob, first, second

MCThreads == {t1, t2}
MCNames == {ann, bob}
MCGrades == {first}
MCGivenIds == {0, 2}

\* The columns name and grade of content values and the id they set, if any.
V(name, grade, ids) == [name |-> name, grade |-> grade, ids |-> ids]

\* Whole rows without and with an id, one column only, a null, nothing.
MCValues ==
  {V(ann, first, {}), V(ann, first, {0}), V(bob, first, {2}), V(bob, Absent, {}),
   V(Null, first, {}), V(Absent, Absent, {})}

S(a, b, closes) == [given |-> TRUE, either |-> {a}, or |-> {b}, closes |-> closes]

MCSelections == {NoSelection, S(ann, ann, FALSE), S(ann, bob, FALSE), S(bob, ann, TRUE)}

Symmetry == Permutations(MCThreads) \cup Permutations(MCNames)
================================================================================
