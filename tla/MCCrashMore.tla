------------------------------ MODULE MCCrashMore ------------------------------
(* Instance of CrashMore for TLC: SIGABRT, a signal that may not be set to   *)
(* anything, and SIGSEGV.                                                    *)
EXTENDS CrashMore, TLC

CONSTANTS main, worker, dfl, ours, crash_more, owner1, owner2, owner3

MCThreads == {main, worker}
MCDispositions == {dfl, ours, crash_more, owner1, owner2, owner3}
MCOrig == (1 :> owner1) @@ (2 :> owner2) @@ (3 :> owner3)
MCTable == <<1, 2, 3>>
MCSegv == {3}
MCFaulty == {2}
================================================================================
