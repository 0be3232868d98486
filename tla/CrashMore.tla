------------------------------- MODULE CrashMore -------------------------------
(***************************************************************************)
(* The second crash handler of the library (ptracer/ptracer.c) in one      *)
(* process with the first: initCrashHandler installs crash_handler_more    *)
(* for seven signals and keeps one displaced disposition, that of SIGSEGV, *)
(* which the handler puts in place of whatever signal it was called for.   *)
(*                                                                         *)
(* The slots are those of CrashSignal; MoreTable lists the ones of         *)
(* initCrashHandler in its order, SIGSEGV last.  It names three more:      *)
(* SIGKILL, which cannot be caught (that call fails and nobody looks), and *)
(* SIGINT and SIGQUIT, which are sent and never raised by a fault: the     *)
(* first handler never touches them, and nothing is said of them here.     *)
(* The handler blocks its own signal only, but it is a single sigaction:   *)
(* another signal on the same thread takes effect before or after it, as   *)
(* one on another thread does.                                             *)
(***************************************************************************)
EXTENDS CrashSignal, Sequences

CONSTANTS
  More,       \* crash_handler_more
  MoreTable,  \* the slots of initCrashHandler, in order
  MaxInit     \* bound: calls of initCrashHandler

ASSUME MoreAssumption ==
  /\ More \in Dispositions \ {Dfl, Ours} /\ \A s \in Slot : Orig[s] # More
  /\ MoreTable \in Seq(Slot) /\ MoreTable # <<>>
  /\ MoreTable[Len(MoreTable)] # Abrt
  /\ MaxInit \in Nat

VARIABLES
  act_old,  \* the one saved action, zeroed at first
  setup,    \* control of initCrashHandler on Main: pc, entry k, reported tmp
  more,     \* control of crash_handler_more on each thread
  inits,    \* history and bound: calls of initCrashHandler
  hasty     \* history: the handler ran before act_old was saved, or saving failed

moreVars == <<act_old, setup, more, inits, hasty>>
allVars == <<vars, moreVars>>

Segv == MoreTable[Len(MoreTable)]

MoreInit ==
  /\ Init
  /\ act_old = Dfl
  /\ setup = [pc |-> "idle", k |-> 1, tmp |-> Dfl]
  /\ more = [t \in Threads |-> "none"]
  /\ inits = 0
  /\ hasty = FALSE

\* The thread runs ordinary code, neither registration included.
AtLarge(t) == Free(t) /\ (t = Main => ~Registering /\ setup.pc = "idle")

--------------------------------------------------------------------------------
(* initCrashHandler, on the UI thread.                                     *)

InitCrashHandler ==
  /\ AtLarge(Main)
  /\ inits < MaxInit
  /\ inits' = inits + 1
  /\ setup' = [setup EXCEPT !.pc = "install", !.k = 1]
  /\ UNCHANGED <<vars, act_old, more, hasty>>

SetDisposition(s, d) ==
  /\ disp' = [disp EXCEPT ![s] = d]
  /\ UNCHANGED <<oldact, altstack, reg, rc, cause, hnd, ended, regs, asyncs, spoiled>>

\* Mutant: the old disposition of every signal is asked for.
InstallMore_KeepAll ==
  /\ Free(Main) /\ setup.pc = "install"
  /\ SetDisposition(MoreTable[setup.k], More)
  /\ setup' = IF setup.k = Len(MoreTable)
              THEN [setup EXCEPT !.pc = "store", !.tmp = disp[MoreTable[setup.k]]]
              ELSE [setup EXCEPT !.k = @ + 1]
  /\ act_old' = disp[MoreTable[setup.k]]
  /\ UNCHANGED <<more, inits, hasty>>

\* sigaction for one signal after the other; the old disposition is asked for
\* with the last one only.
InstallMore ==
  /\ Free(Main) /\ setup.pc = "install"
  /\ SetDisposition(MoreTable[setup.k], More)
  /\ setup' = IF setup.k = Len(MoreTable)
              THEN [setup EXCEPT !.pc = "store", !.tmp = disp[MoreTable[setup.k]]]
              ELSE [setup EXCEPT !.k = @ + 1]
  /\ UNCHANGED <<act_old, more, inits, hasty>>

\* sigaction fails, and nobody looks: the signal keeps its disposition, and with
\* the last one nothing is saved.
InstallMoreFails ==
  /\ Free(Main) /\ setup.pc = "install"
  /\ MoreTable[setup.k] \in Faulty
  /\ setup' = IF setup.k = Len(MoreTable) THEN [setup EXCEPT !.pc = "idle"]
                                          ELSE [setup EXCEPT !.k = @ + 1]
  /\ hasty' = (hasty \/ setup.k = Len(MoreTable))
  /\ UNCHANGED <<vars, act_old, more, inits>>

StoreMore ==
  /\ Free(Main) /\ setup.pc = "store"
  /\ act_old' = setup.tmp
  /\ setup' = [setup EXCEPT !.pc = "idle"]
  /\ UNCHANGED <<vars, more, inits, hasty>>

--------------------------------------------------------------------------------
(* Signals, and crash_handler_more on the thread that takes one.           *)

EnterMore(t) ==
  /\ Running /\ cause[t].sig # 0 /\ hnd[t].pc = "none" /\ more[t] = "none"
  /\ disp[cause[t].sig] = More
  /\ more' = [more EXCEPT ![t] = "restore"]
  /\ UNCHANGED <<vars, act_old, setup, inits, hasty>>

\* Mutant: the handler puts the default action in place.
RestoreMore_ToDefault(t) ==
  /\ Running /\ more[t] = "restore"
  /\ SetDisposition(cause[t].sig, Dfl)
  /\ more' = [more EXCEPT ![t] = "ret"]
  /\ hasty' = (hasty \/ setup.pc # "idle")
  /\ UNCHANGED <<act_old, setup, inits>>

\* Mutant: the handler only walks the stack.
RestoreMore_Nothing(t) ==
  /\ Running /\ more[t] = "restore"
  /\ more' = [more EXCEPT ![t] = "ret"]
  /\ hasty' = (hasty \/ setup.pc # "idle")
  /\ UNCHANGED <<vars, act_old, setup, inits>>

\* The walk of the stack, then sigaction(sig, &act_old, 0).
RestoreMore(t) ==
  /\ Running /\ more[t] = "restore"
  /\ SetDisposition(cause[t].sig, act_old)
  /\ more' = [more EXCEPT ![t] = "ret"]
  /\ hasty' = (hasty \/ setup.pc # "idle")
  /\ UNCHANGED <<act_old, setup, inits>>

\* sigaction fails, and nobody looks.
RestoreMoreFails(t) ==
  /\ Running /\ more[t] = "restore"
  /\ cause[t].sig \in Faulty
  /\ more' = [more EXCEPT ![t] = "ret"]
  /\ UNCHANGED <<vars, act_old, setup, inits, hasty>>

ReturnMore(t) ==
  /\ Running /\ more[t] = "ret"
  /\ more' = [more EXCEPT ![t] = "none"]
  /\ Resume(t)
  /\ UNCHANGED <<oldact, altstack, reg, rc, hnd, regs, asyncs, spoiled>>
  /\ UNCHANGED <<act_old, setup, inits, hasty>>

\* triggerCrash: a store to address 100.
TriggerCrash == \E s \in NullStore : AtLarge(Main) /\ Fault(Main, s)

\* The first handler, and an owner that ends the process, as in CrashSignal.
First ==
  /\ \/ setup.pc = "idle" /\ RegisterSignal
     \/ TriggerCrash
     \/ \E t \in Threads, s \in Slot : (AtLarge(t) /\ Fault(t, s)) \/ Send(t, s)
     \/ \E t \in Threads : AtLarge(t) /\ Abort(t)
  /\ UNCHANGED moreVars

TakeFirst(t) ==
  /\ more[t] = "none"
  /\ \/ EnterHandler(t) \/ Unregister(t) \/ UnregisterFails(t) \/ HandlerReturn(t)
     \/ cause[t].sig # 0 /\ disp[cause[t].sig] # More /\ EndProcess(t)
  /\ UNCHANGED moreVars

TakeMore(t) == EnterMore(t) \/ RestoreMore(t) \/ RestoreMoreFails(t) \/ ReturnMore(t)

MoreNext ==
  \/ InitCrashHandler \/ InstallMore \/ InstallMoreFails \/ StoreMore
  \/ First
  \/ \E t \in Threads : TakeFirst(t) \/ TakeMore(t)

MoreSpec == MoreInit /\ [][MoreNext]_allVars

MoreFairness ==
  /\ WF_allVars(InstallMore \/ InstallMoreFails \/ StoreMore)
  /\ WF_allVars((Install \/ Store \/ InstallFails) /\ UNCHANGED moreVars)
  /\ \A t \in Threads : WF_allVars(TakeFirst(t) \/ TakeMore(t))

MoreFairSpec == MoreSpec /\ MoreFairness

--------------------------------------------------------------------------------
(* Properties.                                                             *)

MoreTypeOK ==
  /\ TypeOK
  /\ act_old \in Dispositions
  /\ setup \in [pc : {"idle", "install", "store"}, k : 1 .. Len(MoreTable), tmp : Dispositions]
  /\ more \in [Threads -> {"none", "restore", "ret"}]
  /\ \A t \in Threads : more[t] # "none" => cause[t].sig # 0 /\ hnd[t].pc = "none"
  /\ inits \in 0 .. MaxInit
  /\ hasty \in BOOLEAN

\* Each handler has displaced the other: what one puts back is the other.
Knot ==
  \/ act_old = More
  \/ act_old = Ours /\ \E s \in Slot : oldact[s] = More
  \/ \E s \in Slot : oldact[s] = Ours

\* The one saved action serves every signal, so a signal may get the owner of
\* SIGSEGV, but never that of a third signal (ptracer.c:68,82).
OneStranger ==
  \A s \in Slot : {disp[s], oldact[s]} \subseteq {Orig[s], Orig[Segv], Dfl, Ours, More}

\* In whatever order and however often the two handlers were installed, a
\* SIGSEGV that ends the process was given to its original owner, unless a
\* handler ran while one of them was being installed or before the saved action
\* was there, or saving it failed.
SegvPassedOn ==
  ended.sig = Segv /\ ~spoiled /\ ~hasty => ended.by = Orig[Segv]

\* An abort() does end the process, through whichever handlers, and so does a
\* fault, unless each handler puts the other back (the activity is created, test2
\* runs, and the activity is created again) or some thread faults for ever,
\* because its disposition cannot be changed: its turns through the first handler
\* hook the other signals for all threads again.
CrashesUnlessKnotted ==
  \A t \in Threads :
    (cause[t].kind \in {"fault", "abort"}) ~>
      \/ ~Running
      \/ /\ cause[t].kind = "fault"
         /\ \/ Knot
            \/ \E u \in Threads : cause[u].kind = "fault" /\ cause[u].sig \in Faulty
================================================================================
