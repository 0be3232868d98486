------------------------------ MODULE CrashSignal ------------------------------
(***************************************************************************)
(* The crash-signal hook of the native library (signal/xcc_signal.c):      *)
(* register_signal installs one handler for every entry of the static      *)
(* table signal_crash_infos and keeps the disposition it displaced; the    *)
(* handler puts every displaced disposition back and returns, so that the  *)
(* faulting instruction runs again and reaches whoever owned the signal    *)
(* before.  Registration runs on the UI thread, once per creation of the   *)
(* activity; signals reach any thread at any time.                         *)
(*                                                                         *)
(* A slot is an entry of the table, in table order.  The kernel's side of  *)
(* sigaction (swap the disposition, then report the old one) and of signal *)
(* delivery is external, and modelled from the flags the code passes:      *)
(* sigfillset blocks everything inside the handler, and without            *)
(* SA_RESETHAND the disposition stays until it is replaced.  So is libc's   *)
(* abort(), which does not survive a handler that returns.                 *)
(***************************************************************************)
EXTENDS Naturals

CONSTANTS
  Threads,      \* the threads of the process
  Main,         \* the UI thread, the one that registers
  N,            \* number of entries of signal_crash_infos
  NullStore,    \* slots a store through a null pointer may raise: SIGSEGV, or
                \* SIGTRAP or SIGILL if the compiler sees it and emits a trap
  Dispositions, \* what a signal may be set to
  Dfl,          \* SIG_DFL, which is also what a zeroed struct sigaction says
  Ours,         \* crash_signal_handler
  Orig,         \* Orig[s]: disposition of slot s when the library is loaded
  Abrt,         \* the slot of SIGABRT
  Faulty,       \* slots for which a call of sigaction may fail
  MaxRegister,  \* bound: calls of register_signal
  MaxAsync      \* bound: signals sent by kill or tgkill

Slot == 1..N

ASSUME NAssumption == N \in Nat \ {0}
ASSUME ThreadAssumption == Main \in Threads
ASSUME SlotAssumption == Abrt \in Slot /\ NullStore \subseteq Slot \ {Abrt} /\ Faulty \subseteq Slot
ASSUME DispAssumption ==
  /\ {Dfl, Ours} \subseteq Dispositions
  /\ Dfl # Ours
  /\ Orig \in [Slot -> Dispositions \ {Ours}]
ASSUME BoundAssumption == MaxRegister \in Nat /\ MaxAsync \in Nat

VARIABLES
  disp,     \* the kernel's table: slot -> disposition
  oldact,   \* signal_crash_infos[s].oldact, zero-initialised
  altstack, \* the block that is a thread's alternate stack; 0: libc's own
  reg,      \* control of register_signal on Main: pc, slot i, reported tmp
  rc,       \* what register_signal returned last
  cause,    \* the signal a thread is to take: its slot (0: none) and kind
  hnd,      \* control of crash_signal_handler on each thread: pc and slot i
  ended,    \* how the process ended: the slot (0: still running), and by whom
  regs,     \* history and bound: calls of register_signal
  asyncs,   \* history and bound: asynchronous signals sent
  spoiled   \* history: registration nested, failed or overlapped a handler or
            \* the end of an abort()

vars == <<disp, oldact, altstack, reg, rc, cause, hnd, ended, regs, asyncs, spoiled>>

NoSignal == [sig |-> 0, kind |-> "none"]
NoHandler == [pc |-> "none", i |-> 1]

Running == ended.sig = 0

\* A thread that executes ordinary code: no signal to take, no handler on top.
Free(t) == Running /\ cause[t] = NoSignal /\ hnd[t] = NoHandler

Registering == reg.pc # "idle"
Handling == \E t \in Threads : hnd[t].pc # "none"

\* The handler has returned to abort(), which raises SIGABRT once more.
Aborting == \E t \in Threads : cause[t].kind = "again"

Init ==
  /\ disp = Orig
  /\ oldact = [s \in Slot |-> Dfl]
  /\ altstack = [t \in Threads |-> 0]
  /\ reg = [pc |-> "idle", i |-> 1, tmp |-> Dfl]
  /\ rc = "none"
  /\ cause = [t \in Threads |-> NoSignal]
  /\ hnd = [t \in Threads |-> NoHandler]
  /\ ended = [sig |-> 0, by |-> Dfl]
  /\ regs = 0
  /\ asyncs = 0
  /\ spoiled = FALSE

(***************************************************************************)
(* register_signal, on the UI thread.                                      *)
(***************************************************************************)

\* register_signal returns c and leaves its loop.
Return(c) ==
  /\ reg' = [reg EXCEPT !.pc = "idle"]
  /\ rc' = c

\* calloc and sigaltstack: either may fail, and then nothing is installed.
RegisterEnter ==
  /\ Free(Main) /\ ~Registering
  /\ regs < MaxRegister
  /\ regs' = regs + 1
  /\ \/ /\ \E c \in {"NOMEM", "SYS"} : Return(c)
        /\ UNCHANGED <<altstack, spoiled>>
     \/ /\ altstack' = [altstack EXCEPT ![Main] = regs + 1]
        /\ reg' = [reg EXCEPT !.pc = "install", !.i = 1]
        /\ spoiled' = (spoiled \/ Handling \/ Aborting)
        /\ UNCHANGED rc
  /\ UNCHANGED <<disp, oldact, cause, hnd, ended, asyncs>>

\* sigaction(signum, &act, ...): the kernel swaps the disposition ...
Install ==
  /\ Free(Main) /\ reg.pc = "install"
  /\ disp' = [disp EXCEPT ![reg.i] = Ours]
  /\ reg' = [reg EXCEPT !.pc = "store", !.tmp = disp[reg.i]]
  /\ spoiled' = (spoiled \/ disp[reg.i] = Ours)
  /\ UNCHANGED <<oldact, altstack, rc, cause, hnd, ended, regs, asyncs>>

\* Mutant: NULL is passed for the old disposition.
Store_NotKept ==
  /\ Free(Main) /\ reg.pc = "store"
  /\ IF reg.i = N
     THEN Return("ok")
     ELSE /\ reg' = [reg EXCEPT !.pc = "install", !.i = reg.i + 1]
          /\ UNCHANGED rc
  /\ UNCHANGED <<disp, oldact, altstack, cause, hnd, ended, regs, asyncs, spoiled>>

\* ... and the old one is then written to the table, for every thread to read.
Store ==
  /\ Free(Main) /\ reg.pc = "store"
  /\ oldact' = [oldact EXCEPT ![reg.i] = reg.tmp]
  /\ IF reg.i = N
     THEN Return("ok")
     ELSE /\ reg' = [reg EXCEPT !.pc = "install", !.i = reg.i + 1]
          /\ UNCHANGED rc
  /\ UNCHANGED <<disp, altstack, cause, hnd, ended, regs, asyncs, spoiled>>

\* sigaction fails: return at once, with the entries before this one installed.
InstallFails ==
  /\ Free(Main) /\ reg.pc = "install"
  /\ reg.i \in Faulty
  /\ Return("SYS")
  /\ spoiled' = TRUE
  /\ UNCHANGED <<disp, oldact, altstack, cause, hnd, ended, regs, asyncs>>

(***************************************************************************)
(* Signals, and crash_signal_handler on the thread that takes one.         *)
(***************************************************************************)

\* Thread t is stopped by signal s.
Raise(t, s, kind) ==
  /\ cause' = [cause EXCEPT ![t] = [sig |-> s, kind |-> kind]]
  /\ UNCHANGED <<disp, oldact, altstack, reg, rc, hnd, ended, regs, spoiled>>

\* An instruction of the thread's own code faults.
Fault(t, s) ==
  /\ Free(t) /\ s # Abrt
  /\ t = Main => ~Registering
  /\ Raise(t, s, "fault")
  /\ UNCHANGED asyncs

\* testCrash: a store through a null pointer, on the UI thread.
TestCrash == \E s \in NullStore : Fault(Main, s)

\* The thread's own code calls abort(), which raises SIGABRT on the thread.
Abort(t) ==
  /\ Free(t)
  /\ t = Main => ~Registering
  /\ Raise(t, Abrt, "abort")
  /\ UNCHANGED asyncs

\* Somebody sends the signal; the thread may be anywhere in its own code.
Send(t, s) ==
  /\ Free(t)
  /\ asyncs < MaxAsync
  /\ asyncs' = asyncs + 1
  /\ Raise(t, s, "sent")

\* The kernel starts crash_signal_handler on thread t.
EnterHandler(t) ==
  /\ Running /\ cause[t].sig # 0 /\ hnd[t].pc = "none"
  /\ disp[cause[t].sig] = Ours
  /\ hnd' = [hnd EXCEPT ![t] = [pc |-> "unreg", i |-> 1]]
  /\ spoiled' = (spoiled \/ Registering)
  /\ UNCHANGED <<disp, oldact, altstack, reg, rc, cause, ended, regs, asyncs>>

\* Any other disposition ends the process: the default action at once, the
\* system's crash reporter after its report.
EndProcess(t) ==
  /\ Running /\ cause[t].sig # 0 /\ hnd[t].pc = "none"
  /\ disp[cause[t].sig] # Ours
  /\ ended' = [sig |-> cause[t].sig, by |-> disp[cause[t].sig]]
  /\ UNCHANGED <<disp, oldact, altstack, reg, rc, cause, hnd, regs, asyncs, spoiled>>

\* Mutant: the loop stops one entry early.
NextSlot_StopsEarly(t) ==
  hnd' = [hnd EXCEPT ![t] = IF @.i + 1 >= N THEN [pc |-> "ret", i |-> 1]
                                            ELSE [pc |-> "unreg", i |-> @.i + 1]]

\* The handler's loop over the table goes on to the next entry, or returns.
NextSlot(t) ==
  hnd' = [hnd EXCEPT ![t] = IF @.i = N THEN [pc |-> "ret", i |-> 1]
                                       ELSE [pc |-> "unreg", i |-> @.i + 1]]

\* Mutant: one saved disposition is used for every signal.
Unregister_OneForAll(t) ==
  /\ Running /\ hnd[t].pc = "unreg"
  /\ disp' = [disp EXCEPT ![hnd[t].i] = oldact[1]]
  /\ NextSlot(t)
  /\ UNCHANGED <<oldact, altstack, reg, rc, cause, ended, regs, asyncs, spoiled>>

\* signal_crash_unregister puts the displaced disposition of one entry back.
Unregister(t) ==
  /\ Running /\ hnd[t].pc = "unreg"
  /\ disp' = [disp EXCEPT ![hnd[t].i] = oldact[hnd[t].i]]
  /\ NextSlot(t)
  /\ UNCHANGED <<oldact, altstack, reg, rc, cause, ended, regs, asyncs, spoiled>>

\* sigaction fails: the loop notes it and goes on.
UnregisterFails(t) ==
  /\ Running /\ hnd[t].pc = "unreg"
  /\ hnd[t].i \in Faulty
  /\ NextSlot(t)
  /\ spoiled' = TRUE
  /\ UNCHANGED <<disp, oldact, altstack, reg, rc, cause, ended, regs, asyncs>>

\* What the thread does once a handler has returned to it: a faulting
\* instruction runs, and faults, again; a thread that was sent the signal goes
\* on; abort() gives SIGABRT its default action and raises it a second time, and
\* should that return too, exits (written as a death of SIGABRT by default).
Resume(t) ==
  \/ cause[t].kind = "fault" /\ UNCHANGED <<disp, cause, ended>>
  \/ /\ cause[t].kind = "sent"
     /\ cause' = [cause EXCEPT ![t] = NoSignal]
     /\ UNCHANGED <<disp, ended>>
  \/ /\ cause[t].kind = "abort"
     /\ disp' = [disp EXCEPT ![Abrt] = Dfl]
     /\ cause' = [cause EXCEPT ![t] = [sig |-> Abrt, kind |-> "again"]]
     /\ UNCHANGED ended
  \/ /\ cause[t].kind = "again"
     /\ ended' = [sig |-> Abrt, by |-> Dfl]
     /\ UNCHANGED <<disp, cause>>

\* The handler returns.
HandlerReturn(t) ==
  /\ Running /\ hnd[t].pc = "ret"
  /\ hnd' = [hnd EXCEPT ![t] = NoHandler]
  /\ Resume(t)
  /\ UNCHANGED <<oldact, altstack, reg, rc, regs, asyncs, spoiled>>

RegisterSignal == RegisterEnter \/ Install \/ Store \/ InstallFails

TakeSignal(t) ==
  EnterHandler(t) \/ EndProcess(t) \/ Unregister(t) \/ UnregisterFails(t) \/ HandlerReturn(t)

Next ==
  \/ RegisterSignal
  \/ TestCrash
  \/ \E t \in Threads, s \in Slot : Fault(t, s) \/ Send(t, s)
  \/ \E t \in Threads : Abort(t) \/ TakeSignal(t)

Spec == Init /\ [][Next]_vars

\* The scheduler keeps running every thread that has something to do.
Fairness ==
  /\ WF_vars(Install \/ Store \/ InstallFails)
  /\ \A t \in Threads : WF_vars(TakeSignal(t))

FairSpec == Spec /\ Fairness

--------------------------------------------------------------------------------
(***************************************************************************)
(* Properties.                                                             *)
(***************************************************************************)

Frames == [pc : {"idle", "install", "store"}, i : Slot, tmp : Dispositions]
Causes == [sig : Slot \cup {0}, kind : {"none", "fault", "sent", "abort", "again"}]
Handlers == [pc : {"none", "unreg", "ret"}, i : Slot]

\* Type invariant: every variable holds what the C declarations allow.
TypeOK ==
  /\ disp \in [Slot -> Dispositions]
  /\ oldact \in [Slot -> Dispositions]
  /\ altstack \in [Threads -> Nat]
  /\ reg \in Frames
  /\ rc \in {"none", "ok", "NOMEM", "SYS"}
  /\ cause \in [Threads -> Causes]
  /\ hnd \in [Threads -> Handlers]
  /\ ended \in [sig : Slot \cup {0}, by : Dispositions]
  /\ regs \in Nat
  /\ asyncs \in Nat
  /\ spoiled \in BOOLEAN

\* Whatever overlaps, nests or fails, a signal is never handed to the handler
\* of another signal: each entry of the table displaces and restores its own
\* disposition, or a zeroed one that was not written yet (xcc_signal.c:34,79).
NoCrossWiring ==
  \A s \in Slot : {disp[s], oldact[s]} \subseteq {Orig[s], Dfl, Ours}

\* The signal's disposition is the one from before the library was loaded, or
\* it is SIGABRT and an abort() that the handler returned to has reset it.
Owned(s) == disp[s] = Orig[s] \/ (s = Abrt /\ disp[s] = Dfl /\ Aborting)

\* When the handler is about to return, every one of the signals has the
\* disposition it had before the library was loaded, even if several threads
\* crash at once, but for the SIGABRT that an abort() elsewhere has just reset;
\* unless the registration nested, failed or overlapped (xcc_signal.c:28-46).
Restored ==
  \A t \in Threads : hnd[t].pc = "ret" /\ ~spoiled => \A s \in Slot : Owned(s)

\* The process never dies of a signal without the original owner of that
\* signal (the system's crash reporter) having been given it, on the same
\* condition, with one exception: an abort() that this library's handler
\* returned to ends the process by SIGABRT's default action, since libc does not
\* look at what the handler put back (xcc_signal.c:20,43-46).
PassedOn ==
  ~Running /\ ~spoiled =>
    \/ ended.by = Orig[ended.sig]
    \/ ended = [sig |-> Abrt, by |-> Dfl] /\ Aborting

\* The big alternate stack is in place before the first handler that relies on
\* it (SA_ONSTACK) is, and a failed registration never takes it away.
HandlerHasStack ==
  (\E s \in Slot : disp[s] = Ours) => altstack[Main] # 0

\* The crash that the app provokes on purpose does end the process: testCrash
\* (xcc_signal.c:52, "crash!").
TestCrashCrashes ==
  \A s \in NullStore : (cause[Main] = [sig |-> s, kind |-> "fault"]) ~> ~Running

(***************************************************************************)
(* The inductive strengthening of Restored and PassedOn.                   *)
(***************************************************************************)

\* The table holds what the entry displaced.
Saved(s) == oldact[s] = Orig[s]

\* The kernel has reported what entry s displaced, the table not yet.
InFlight(s) == reg.pc = "store" /\ reg.i = s /\ reg.tmp = Orig[s]

\* An installed handler has its predecessor on record.
DisplacedOnRecord ==
  \A s \in Slot : ~Owned(s) => disp[s] = Ours /\ (Saved(s) \/ InFlight(s))

\* The loop of register_signal runs alone and has saved the entries behind it.
FilledSoFar ==
  /\ Registering => ~Handling /\ ~Aborting /\ \A s \in Slot : s < reg.i => Saved(s)
  /\ reg.pc = "store" => InFlight(reg.i)

\* The records are complete before a handler may run, and while one runs.
CompleteForHandlers ==
  Handling \/ Aborting \/ (~Registering /\ \E s \in Slot : disp[s] = Ours) =>
    \A s \in Slot : Saved(s)

\* A running handler has restored the entries it has passed.
RestoredSoFar ==
  \A t \in Threads, s \in Slot : hnd[t].pc = "unreg" /\ s < hnd[t].i => Owned(s)

\* All of it, while nothing nested, overlapped or failed.
CleanTable ==
  ~spoiled => DisplacedOnRecord /\ FilledSoFar /\ CompleteForHandlers /\ RestoredSoFar
================================================================================
