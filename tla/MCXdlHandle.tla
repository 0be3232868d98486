------------------------------ MODULE MCXdlHandle ------------------------------
(***************************************************************************)
(* Instance of XdlHandle for TLC: a library as the NDK builds it, one with *)
(* a .hash only, one without string table, one without dynamic section and *)
(* a fixed one; their names end alike.                                     *)
(***************************************************************************)
EXTENDS XdlHandle, TLC

CONSTANTS t1, t2

MCThreads == {t1, t2}
MCLibs == {"full", "sysv", "broken", "bare", "fixed"}
MCNameOf ==
  [l \in MCLibs |->
     CASE l = "full" -> <<"/", "lib/", "a.so">>
       [] l = "sysv" -> <<"/", "lib/", "x", "a.so">>
       [] l = "broken" -> <<"lib/", "a.so">>
       [] l = "bare" -> <<"a.so">>
       [] l = "fixed" -> <<"a.so">>]
MCFixed == {"fixed"}
MCDynamic ==
  [l \in MCLibs |->
     CASE l = "full" -> <<"other", "GNU_HASH", "SYMTAB", "STRTAB">>
       [] l = "sysv" -> <<"HASH", "STRTAB", "SYMTAB">>
       [] l = "broken" -> <<"GNU_HASH", "SYMTAB">>
       [] l = "bare" -> <<>>
       [] l = "fixed" -> <<"GNU_HASH", "SYMTAB", "STRTAB">>]
MCSymbols == {"f", "g"}
MCExports == [l \in MCLibs |-> {"f"}]
MCSeparators == {"/", "lib/"}
MCBlocks == 1 .. 2
MCFilenames == {<<"a.so">>, <<"/", "lib/", "a.so">>}
================================================================================
