------------------------------ MODULE MCZlibDef ------------------------------
(***************************************************************************)
(* Instance of ZlibDef for TLC: files of every length from 0 to beyond two *)
(* chunks.  All bytes differ, so that no two can be exchanged unnoticed.   *)
(***************************************************************************)
EXTENDS ZlibDef

MCSources == {[i \in 1 .. n |-> i] : n \in 0 .. 2 * CHUNK + 1}
================================================================================
