----------------------------- MODULE MCCrashSignal -----------------------------
(* Instance of CrashSignal for TLC: each slot had a disposition of its own.  *)
EXTENDS CrashSignal, TLC

CONSTANTS main, worker, dfl, ours, owner1, owner2, owner3

MCThreads == {main, worker}
MCDispositions == {dfl, ours, owner1, owner2, owner3}
MCOrig == (1 :> owner1) @@ (2 :> owner2)
MCOrig3 == (1 :> owner1) @@ (2 :> owner2) @@ (3 :> owner3)
MCNone == {}
MCSlot2 == {2}
MCSlots23 == {2, 3}
================================================================================
