--------------------------- MODULE CrashSignalProofs ---------------------------
(***************************************************************************)
(* For any threads, any table of signals and any number of registrations:  *)
(* a signal is never given to another signal's owner, and as long as no    *)
(* registration nests, overlaps a handler or fails, every fault and every  *)
(* sent signal reaches its original owner; an abort() may end by SIGABRT's *)
(* default action instead.  With the second crash handler beside the  *)
(* first, the only stranger a signal may get is the owner of SIGSEGV, and  *)
(* a SIGSEGV still reaches its own.                                        *)
(***************************************************************************)
EXTENDS CrashMore, TLAPS

--------------------------------------------------------------------------------
(* Slots and the control record of register_signal.                        *)

\* The slots that a loop over the table runs through.
LEMMA SlotSteps == 1 \in Slot /\ N \in Slot /\ \A i \in Slot : i # N => i + 1 \in Slot
BY NAssumption DEF Slot

\* A frame of a thread remains one.
LEMMA FrameUpdates ==
  ASSUME NEW f \in Frames, NEW p \in {"idle", "install", "store"},
         NEW k \in Slot, NEW d \in Dispositions
  PROVE  /\ [f EXCEPT !.pc = p] \in Frames
         /\ [f EXCEPT !.pc = p, !.i = k] \in Frames
         /\ [f EXCEPT !.pc = p, !.tmp = d] \in Frames
BY DEF Frames

--------------------------------------------------------------------------------
(* Type correctness.                                                       *)

\* The initial state has its types.
LEMMA InitTyping == Init => TypeOK
<1> SUFFICES ASSUME Init PROVE TypeOK
  OBVIOUS
<1>1. disp \in [Slot -> Dispositions] /\ oldact \in [Slot -> Dispositions]
  BY DispAssumption DEF Init
<1>2. altstack \in [Threads -> Nat] /\ regs \in Nat /\ asyncs \in Nat
  BY DEF Init
<1>3. reg \in Frames
  BY DispAssumption, SlotSteps DEF Init, Frames
<1>4. rc \in {"none", "ok", "NOMEM", "SYS"} /\ spoiled \in BOOLEAN
  BY DEF Init
<1>5. cause \in [Threads -> Causes]
  BY DEF Init, Causes, NoSignal
<1>6. hnd \in [Threads -> Handlers]
  BY SlotSteps DEF Init, Handlers, NoHandler
<1>7. ended \in [sig : Slot \cup {0}, by : Dispositions]
  BY DispAssumption DEF Init
<1>8. QED
  BY <1>1, <1>2, <1>3, <1>4, <1>5, <1>6, <1>7 DEF TypeOK

\* The steps of register_signal.
LEMMA RegisterTyping == TypeOK /\ RegisterSignal => TypeOK'
<1> SUFFICES ASSUME TypeOK, RegisterSignal PROVE TypeOK'
  OBVIOUS
<1>0. reg \in Frames /\ reg.i \in Slot /\ reg.tmp \in Dispositions
  BY DEF TypeOK, Frames
<1>1. CASE RegisterEnter
  <2>1. reg' \in Frames
    BY <1>0, <1>1, FrameUpdates, SlotSteps DEF RegisterEnter, Return
  <2>2. rc' \in {"none", "ok", "NOMEM", "SYS"}
    BY <1>1 DEF RegisterEnter, Return, TypeOK
  <2>3. regs' \in Nat /\ regs + 1 \in Nat
    BY <1>1 DEF RegisterEnter, TypeOK
  <2>4. altstack' \in [Threads -> Nat]
    BY <1>1, <2>3 DEF RegisterEnter, TypeOK
  <2>5. spoiled' \in BOOLEAN
    BY <1>1 DEF RegisterEnter, TypeOK
  <2>6. QED
    BY <1>1, <2>1, <2>2, <2>3, <2>4, <2>5 DEF RegisterEnter, TypeOK
<1>2. CASE Install
  <2>1. reg' \in Frames
    BY <1>0, <1>2, FrameUpdates DEF Install, TypeOK
  <2>2. disp' \in [Slot -> Dispositions]
    BY <1>0, <1>2, DispAssumption DEF Install, TypeOK
  <2>3. spoiled' \in BOOLEAN
    BY <1>2 DEF Install, TypeOK
  <2>4. QED
    BY <1>2, <2>1, <2>2, <2>3 DEF Install, TypeOK
<1>3. CASE Store
  <2>1. reg' \in Frames
    BY <1>0, <1>3, FrameUpdates, SlotSteps DEF Store, Return
  <2>2. rc' \in {"none", "ok", "NOMEM", "SYS"} /\ oldact' \in [Slot -> Dispositions]
    BY <1>0, <1>3 DEF Store, Return, TypeOK
  <2>3. QED
    BY <1>3, <2>1, <2>2 DEF Store, TypeOK
<1>4. CASE InstallFails
  <2>1. reg' \in Frames
    BY <1>0, <1>4, FrameUpdates DEF InstallFails, Return
  <2>2. QED
    BY <1>4, <2>1 DEF InstallFails, Return, TypeOK
<1>5. QED
  BY <1>1, <1>2, <1>3, <1>4 DEF RegisterSignal

\* A signal is raised, or the handler takes a step.
LEMMA SignalTyping ==
  ASSUME TypeOK, NEW t \in Threads, NEW s \in Slot,
         Fault(t, s) \/ Send(t, s) \/ Abort(t) \/ TakeSignal(t)
  PROVE  TypeOK'
<1>0. /\ cause[t] \in Causes /\ cause[t].sig \in Slot \cup {0}
      /\ hnd[t] \in Handlers /\ hnd[t].i \in Slot
  BY DEF TypeOK, Causes, Handlers
<1>1. CASE Fault(t, s) \/ Send(t, s) \/ Abort(t)
  <2>1. cause' \in [Threads -> Causes]
    BY <1>1, SlotAssumption DEF Fault, Send, Abort, Raise, TypeOK, Causes
  <2>2. asyncs' \in Nat
    BY <1>1 DEF Fault, Send, Abort, TypeOK
  <2>3. QED
    BY <1>1, <2>1, <2>2 DEF Fault, Send, Abort, Raise, TypeOK
<1>2. CASE EnterHandler(t)
  <2>1. hnd' \in [Threads -> Handlers]
    BY <1>2, SlotSteps DEF EnterHandler, TypeOK, Handlers
  <2>2. spoiled' \in BOOLEAN
    BY <1>2 DEF EnterHandler, TypeOK
  <2>3. QED
    BY <1>2, <2>1, <2>2 DEF EnterHandler, TypeOK
<1>3. CASE EndProcess(t)
  <2>1. disp[cause[t].sig] \in Dispositions
    BY <1>0, <1>3 DEF EndProcess, TypeOK
  <2>2. ended' \in [sig : Slot \cup {0}, by : Dispositions]
    BY <1>0, <1>3, <2>1 DEF EndProcess
  <2>3. QED
    BY <1>3, <2>2 DEF EndProcess, TypeOK
<1>4. CASE Unregister(t) \/ UnregisterFails(t)
  <2>1. hnd' \in [Threads -> Handlers]
    BY <1>0, <1>4, SlotSteps DEF Unregister, UnregisterFails, NextSlot, TypeOK, Handlers
  <2>2. disp' \in [Slot -> Dispositions] /\ spoiled' \in BOOLEAN
    BY <1>0, <1>4 DEF Unregister, UnregisterFails, TypeOK
  <2>3. QED
    BY <1>4, <2>1, <2>2 DEF Unregister, UnregisterFails, TypeOK
<1>5. CASE HandlerReturn(t)
  <2>1. NoSignal \in Causes /\ NoHandler \in Handlers /\ [sig |-> Abrt, kind |-> "again"] \in Causes
    BY SlotSteps, SlotAssumption DEF NoSignal, NoHandler, Causes, Handlers
  <2>2. cause' \in [Threads -> Causes] /\ hnd' \in [Threads -> Handlers]
    BY <1>0, <1>5, <2>1 DEF HandlerReturn, Resume, TypeOK
  <2>3. disp' \in [Slot -> Dispositions]
    BY <1>5, DispAssumption DEF HandlerReturn, Resume, TypeOK
  <2>4. ended' \in [sig : Slot \cup {0}, by : Dispositions]
    BY <1>5, DispAssumption, SlotAssumption DEF HandlerReturn, Resume, TypeOK
  <2>5. QED
    BY <1>5, <2>2, <2>3, <2>4 DEF HandlerReturn, TypeOK
<1>6. QED
  BY <1>1, <1>2, <1>3, <1>4, <1>5 DEF TakeSignal

\* Every variable keeps the type of its C declaration, through every step of
\* register_signal and of crash_signal_handler.
THEOREM Typing == Spec => []TypeOK
<1>1. TypeOK /\ [Next]_vars => TypeOK'
  <2> SUFFICES ASSUME TypeOK, [Next]_vars PROVE TypeOK'
    OBVIOUS
  <2>1. CASE UNCHANGED vars
    BY <2>1 DEF vars, TypeOK
  <2>2. CASE Next
    BY <2>2, RegisterTyping, SignalTyping, ThreadAssumption, SlotAssumption, SlotSteps
       DEF Next, TestCrash
  <2>3. QED
    BY <2>1, <2>2
<1>2. QED
  BY <1>1, InitTyping, PTL DEF Spec

--------------------------------------------------------------------------------
(* No cross-wiring, under every interleaving, nesting and failure.         *)

\* What the kernel has reported for an entry, and the table does not hold yet.
ReportedOwn == reg.pc = "store" => reg.tmp \in {Orig[reg.i], Dfl, Ours}

\* A signal is never handed to the handler of another signal: each entry of
\* signal_crash_infos displaces and restores its own disposition or a zeroed one.
THEOREM NeverCrossWired == Spec => []NoCrossWiring
<1> DEFINE IInv == NoCrossWiring /\ ReportedOwn
<1>1. Init => IInv
  BY DEF Init, NoCrossWiring, ReportedOwn
<1>2. TypeOK /\ IInv /\ [Next]_vars => IInv'
  <2> SUFFICES ASSUME TypeOK, IInv, [Next]_vars PROVE IInv'
    OBVIOUS
  <2>0. reg \in Frames /\ reg.i \in Slot /\ disp \in [Slot -> Dispositions]
        /\ oldact \in [Slot -> Dispositions]
    BY DEF TypeOK, Frames
  <2>1. CASE RegisterEnter
    BY <2>0, <2>1 DEF RegisterEnter, Return, NoCrossWiring, ReportedOwn, Frames
  <2>2. CASE Install
    BY <2>0, <2>2 DEF Install, NoCrossWiring, ReportedOwn, Frames
  <2>3. CASE Store
    BY <2>0, <2>3 DEF Store, Return, NoCrossWiring, ReportedOwn, Frames
  <2>4. CASE InstallFails
    BY <2>0, <2>4 DEF InstallFails, Return, NoCrossWiring, ReportedOwn, Frames
  <2>5. ASSUME NEW t \in Threads, NEW s \in Slot, Fault(t, s) \/ Send(t, s) \/ Abort(t)
        PROVE  IInv'
    BY <2>5 DEF Fault, Send, Abort, Raise, NoCrossWiring, ReportedOwn
  <2>6. ASSUME NEW t \in Threads, TakeSignal(t)
        PROVE  IInv'
    <3>1. CASE Unregister(t)
      <4>1. hnd[t].i \in Slot
        BY DEF TypeOK, Handlers
      <4>2. QED
        BY <2>0, <3>1, <4>1 DEF Unregister, NoCrossWiring, ReportedOwn
    <3>2. CASE ~Unregister(t)
      <4>1. UNCHANGED <<oldact, reg>> /\ \A s \in Slot : disp'[s] \in {disp[s], Dfl}
        BY <2>0, <2>6, <3>2 DEF TakeSignal, EnterHandler, EndProcess, UnregisterFails,
                                HandlerReturn, Resume
      <4>2. QED
        BY <4>1 DEF NoCrossWiring, ReportedOwn
    <3>3. QED
      BY <3>1, <3>2
  <2>7. CASE UNCHANGED vars
    BY <2>7 DEF vars, NoCrossWiring, ReportedOwn
  <2>8. QED
    BY <2>1, <2>2, <2>3, <2>4, <2>5, <2>6, <2>7, ThreadAssumption, SlotAssumption
       DEF Next, RegisterSignal, TestCrash
<1>3. QED
  BY <1>1, <1>2, Typing, PTL DEF Spec

--------------------------------------------------------------------------------
(* The stack comes before the handlers.                                    *)

StackFirst ==
  Registering \/ (\E s \in Slot : Ours \in {disp[s], oldact[s]}) => altstack[Main] # 0

\* The alternate stack is set before the first handler that relies on it, and
\* no failed registration takes it away.
THEOREM StackBeforeHandlers == Spec => []HandlerHasStack
<1>1. Init => StackFirst
  BY DispAssumption DEF Init, StackFirst, Registering
<1>2. TypeOK /\ StackFirst /\ [Next]_vars => StackFirst'
  <2> SUFFICES ASSUME TypeOK, StackFirst, [Next]_vars PROVE StackFirst'
    OBVIOUS
  <2>0. reg \in Frames /\ reg.i \in Slot /\ disp \in [Slot -> Dispositions]
        /\ oldact \in [Slot -> Dispositions] /\ altstack \in [Threads -> Nat]
    BY DEF TypeOK, Frames
  <2>1. CASE RegisterEnter
    <3>1. altstack'[Main] # 0 \/ (UNCHANGED altstack /\ ~Registering')
      <4>1. regs \in Nat /\ regs + 1 # 0
        BY DEF TypeOK
      <4>2. CASE UNCHANGED altstack /\ reg' = [reg EXCEPT !.pc = "idle"]
        BY <2>0, <4>2 DEF Registering, Frames
      <4>3. CASE altstack' = [altstack EXCEPT ![Main] = regs + 1]
        BY <2>0, <4>1, <4>3, ThreadAssumption
      <4>4. QED
        BY <2>1, <4>2, <4>3 DEF RegisterEnter, Return
    <3>2. UNCHANGED <<disp, oldact>>
      BY <2>1 DEF RegisterEnter
    <3>3. QED
      BY <3>1, <3>2 DEF StackFirst
  <2>2. CASE Install \/ Store \/ InstallFails
    <3>1. Registering /\ UNCHANGED altstack
      BY <2>2 DEF Install, Store, InstallFails, Registering
    <3>2. QED
      BY <3>1 DEF StackFirst
  <2>3. ASSUME NEW t \in Threads, NEW s \in Slot, Fault(t, s) \/ Send(t, s) \/ Abort(t)
        PROVE  StackFirst'
    BY <2>3 DEF Fault, Send, Abort, Raise, StackFirst, Registering
  <2>4. ASSUME NEW t \in Threads, TakeSignal(t)
        PROVE  StackFirst'
    <3>1. CASE Unregister(t)
      <4>1. hnd[t].i \in Slot
        BY DEF TypeOK, Handlers
      <4>2. UNCHANGED <<reg, oldact, altstack>>
            /\ \A s \in Slot : disp'[s] \in {disp[s], oldact[s]}
        BY <2>0, <3>1, <4>1 DEF Unregister
      <4>3. QED
        BY <4>2 DEF StackFirst, Registering
    <3>2. CASE ~Unregister(t)
      <4>1. UNCHANGED <<oldact, reg, altstack>> /\ \A s \in Slot : disp'[s] \in {disp[s], Dfl}
        BY <2>0, <2>4, <3>2 DEF TakeSignal, EnterHandler, EndProcess, UnregisterFails,
                                HandlerReturn, Resume
      <4>2. QED
        BY <4>1, DispAssumption DEF StackFirst, Registering
    <3>3. QED
      BY <3>1, <3>2
  <2>5. CASE UNCHANGED vars
    BY <2>5 DEF vars, StackFirst, Registering
  <2>6. QED
    BY <2>1, <2>2, <2>3, <2>4, <2>5, ThreadAssumption, SlotAssumption
       DEF Next, RegisterSignal, TestCrash
<1>3. StackFirst => HandlerHasStack
  BY DEF StackFirst, HandlerHasStack
<1>4. QED
  BY <1>1, <1>2, <1>3, Typing, PTL DEF Spec

--------------------------------------------------------------------------------
(* Every crash reaches the signal's original owner.                        *)

\* What the steps of the registration keep.
LEMMA RegistrationKeepsTable ==
  ASSUME TypeOK, CleanTable, Restored, RegisterSignal
  PROVE  CleanTable' /\ Restored'
<1> SUFFICES ASSUME ~spoiled' PROVE CleanTable' /\ Restored'
  BY DEF CleanTable, Restored
<1>0. /\ reg \in Frames /\ reg.i \in Slot /\ reg.pc \in {"idle", "install", "store"}
      /\ disp \in [Slot -> Dispositions] /\ oldact \in [Slot -> Dispositions]
      /\ spoiled \in BOOLEAN /\ hnd' = hnd /\ Aborting' = Aborting
  BY DEF TypeOK, Frames, RegisterSignal, RegisterEnter, Install, Store, InstallFails, Aborting
<1>1. CASE RegisterEnter
  <2>1. ~spoiled /\ ~Registering /\ UNCHANGED <<disp, oldact, hnd>>
        /\ \A s \in Slot : Owned(s)' = Owned(s)
    BY <1>0, <1>1 DEF RegisterEnter, Owned
  <2>2. DisplacedOnRecord /\ FilledSoFar /\ CompleteForHandlers /\ RestoredSoFar
    BY <2>1 DEF CleanTable
  <2>3. Restored' /\ RestoredSoFar'
    BY <2>1, <2>2 DEF Restored, RestoredSoFar
  <2>4. CASE reg' = [reg EXCEPT !.pc = "idle"]
    <3>1. ~Registering' /\ reg'.pc = "idle"
      BY <1>0, <2>4 DEF Frames, Registering
    <3>2. QED
      BY <1>0, <2>1, <2>2, <2>3, <3>1
         DEF CleanTable, DisplacedOnRecord, FilledSoFar, CompleteForHandlers, Saved, InFlight,
             Registering, Handling
  <2>5. CASE reg' = [reg EXCEPT !.pc = "install", !.i = 1] /\ ~Handling /\ ~Aborting
    <3>1. reg'.pc = "install" /\ \A s \in Slot : ~(s < reg'.i)
      BY <1>0, <2>5 DEF Frames, Slot
    <3>2. QED
      BY <1>0, <2>1, <2>2, <2>3, <2>5, <3>1
         DEF CleanTable, DisplacedOnRecord, FilledSoFar, CompleteForHandlers, Saved, InFlight,
             Registering, Handling
  <2>6. QED
    BY <1>0, <1>1, <2>4, <2>5 DEF RegisterEnter, Return
<1>2. CASE Install
  <2>1. ~spoiled /\ disp[reg.i] # Ours /\ reg.pc = "install" /\ UNCHANGED <<oldact, hnd>>
    BY <1>0, <1>2 DEF Install
  <2>2. DisplacedOnRecord /\ FilledSoFar /\ CompleteForHandlers /\ RestoredSoFar
    BY <2>1 DEF CleanTable
  <2>3. /\ reg'.pc = "store" /\ reg'.i = reg.i /\ reg'.tmp = disp[reg.i]
        /\ disp' = [disp EXCEPT ![reg.i] = Ours]
    BY <1>0, <1>2 DEF Install, Frames
  <2>5. ~Handling /\ ~Handling' /\ Registering' /\ ~Aborting /\ ~Aborting'
    BY <1>0, <2>1, <2>2, <2>3 DEF FilledSoFar, Registering, Handling
  <2>4. disp[reg.i] = Orig[reg.i] /\ InFlight(reg.i)'
    BY <1>0, <2>1, <2>2, <2>3, <2>5 DEF DisplacedOnRecord, InFlight, Owned
  <2>6. DisplacedOnRecord'
    <3> SUFFICES ASSUME NEW s \in Slot, ~Owned(s)'
                 PROVE  disp'[s] = Ours /\ (Saved(s)' \/ InFlight(s)')
      BY DEF DisplacedOnRecord
    <3>1. CASE s = reg.i
      BY <1>0, <2>3, <2>4, <3>1
    <3>2. CASE s # reg.i
      BY <1>0, <2>1, <2>2, <2>3, <3>2 DEF DisplacedOnRecord, Saved, InFlight, Owned
    <3>3. QED
      BY <3>1, <3>2
  <2>7. FilledSoFar'
    BY <2>1, <2>2, <2>3, <2>4, <2>5 DEF FilledSoFar, Saved, Registering
  <2>8. Restored' /\ RestoredSoFar' /\ CompleteForHandlers'
    BY <2>5 DEF Restored, RestoredSoFar, CompleteForHandlers, Handling
  <2>9. QED
    BY <2>6, <2>7, <2>8 DEF CleanTable
<1>3. CASE Store
  <2>1. ~spoiled /\ reg.pc = "store" /\ UNCHANGED <<disp, hnd>>
        /\ oldact' = [oldact EXCEPT ![reg.i] = reg.tmp]
    BY <1>3 DEF Store
  <2>2. DisplacedOnRecord /\ FilledSoFar /\ CompleteForHandlers /\ RestoredSoFar
    BY <2>1 DEF CleanTable
  <2>3. reg.tmp = Orig[reg.i] /\ ~Handling /\ ~Handling' /\ ~Aborting /\ ~Aborting'
        /\ \A s \in Slot : Owned(s)' = Owned(s)
    BY <1>0, <2>1, <2>2 DEF FilledSoFar, InFlight, Registering, Handling, Owned
  <2>4. \A s \in Slot : s = reg.i \/ Saved(s) => Saved(s)'
    BY <1>0, <2>1, <2>3 DEF Saved
  <2>5. /\ reg'.pc \in {"idle", "install"}
        /\ reg'.pc = "idle" => reg.i = N
        /\ reg'.pc = "install" => reg'.i = reg.i + 1
    BY <1>0, <1>3 DEF Store, Return, Frames
  <2>6. \A s \in Slot : s < reg.i + 1 => Saved(s)'
    <3>1. \A s \in Slot : s < reg.i => Saved(s)
      BY <2>1, <2>2 DEF FilledSoFar, Registering
    <3>2. \A s \in Slot : s < reg.i + 1 => s < reg.i \/ s = reg.i
      BY <1>0, NAssumption DEF Slot
    <3>3. QED
      BY <2>4, <3>1, <3>2
  <2>7. DisplacedOnRecord'
    BY <2>1, <2>2, <2>3, <2>4 DEF DisplacedOnRecord, InFlight
  <2>8. FilledSoFar'
    BY <2>3, <2>5, <2>6 DEF FilledSoFar, Registering
  <2>9. CompleteForHandlers'
    <3>1. \A s \in Slot : s < N + 1
      BY NAssumption DEF Slot
    <3>2. ~Registering' => \A s \in Slot : Saved(s)'
      BY <2>5, <2>6, <3>1 DEF Registering
    <3>3. QED
      BY <2>3, <3>2 DEF CompleteForHandlers
  <2>10. QED
    BY <2>3, <2>7, <2>8, <2>9 DEF CleanTable, Restored, RestoredSoFar, Handling
<1>4. CASE InstallFails
  BY <1>4 DEF InstallFails
<1>5. QED
  BY <1>1, <1>2, <1>3, <1>4 DEF RegisterSignal

\* What the steps of the handler keep.
LEMMA HandlerKeepsTable ==
  ASSUME TypeOK, CleanTable, Restored, NEW t \in Threads, TakeSignal(t)
  PROVE  CleanTable' /\ Restored'
<1> SUFFICES ASSUME ~spoiled' PROVE CleanTable' /\ Restored'
  BY DEF CleanTable, Restored
<1>0. /\ ~spoiled /\ UNCHANGED <<oldact, reg>>
      /\ cause[t].sig \in Slot \cup {0} /\ hnd[t] \in Handlers /\ hnd[t].i \in Slot
      /\ hnd \in [Threads -> Handlers] /\ disp \in [Slot -> Dispositions]
      /\ cause \in [Threads -> Causes]
  BY DEF TypeOK, Causes, Handlers, TakeSignal, EnterHandler, EndProcess, Unregister,
         UnregisterFails, HandlerReturn, Resume
<1>1. DisplacedOnRecord /\ FilledSoFar /\ CompleteForHandlers /\ RestoredSoFar
  BY <1>0 DEF CleanTable
<1>2. CASE EnterHandler(t)
  <2>1. /\ UNCHANGED <<disp, cause>> /\ hnd'[t] = [pc |-> "unreg", i |-> 1]
        /\ \A u \in Threads : u # t => hnd'[u] = hnd[u]
    BY <1>0, <1>2 DEF EnterHandler
  <2>2. ~Registering /\ cause[t].sig \in Slot /\ disp[cause[t].sig] = Ours
    BY <1>0, <1>2 DEF EnterHandler
  <2>3. \A s \in Slot : Saved(s) /\ Saved(s)' /\ Owned(s)' = Owned(s)
    BY <1>0, <1>1, <2>1, <2>2 DEF CompleteForHandlers, Saved, Owned, Aborting
  <2>4. RestoredSoFar' /\ Restored'
    <3>1. \A s \in Slot : ~(s < 1)
      BY DEF Slot
    <3>2. QED
      BY <1>0, <1>1, <2>1, <2>3, <3>1 DEF RestoredSoFar, Restored
  <2>5. QED
    BY <1>0, <1>1, <2>1, <2>2, <2>3, <2>4
       DEF CleanTable, DisplacedOnRecord, FilledSoFar, CompleteForHandlers, Registering, InFlight
<1>3. CASE EndProcess(t)
  <2>1. UNCHANGED <<disp, oldact, reg, cause, hnd>>
    BY <1>0, <1>3 DEF EndProcess
  <2>2. QED
    BY <1>0, <1>1, <2>1 DEF CleanTable, Restored, DisplacedOnRecord, FilledSoFar,
       CompleteForHandlers, RestoredSoFar, Registering, Handling, Aborting, Owned, Saved, InFlight
<1>4. CASE Unregister(t)
  <2>1. /\ hnd[t].pc = "unreg" /\ Handling /\ UNCHANGED cause
        /\ disp' = [disp EXCEPT ![hnd[t].i] = oldact[hnd[t].i]]
        /\ \A u \in Threads : u # t => hnd'[u] = hnd[u]
        /\ hnd'[t] = IF hnd[t].i = N THEN [pc |-> "ret", i |-> 1]
                                     ELSE [pc |-> "unreg", i |-> hnd[t].i + 1]
    BY <1>0, <1>4 DEF Unregister, NextSlot, Handling
  <2>2. ~Registering /\ \A s \in Slot : Saved(s) /\ Saved(s)'
    BY <1>0, <1>1, <2>1 DEF FilledSoFar, CompleteForHandlers, Saved
  <2>3. \A s \in Slot : disp'[s] = IF s = hnd[t].i THEN Orig[s] ELSE disp[s]
    BY <1>0, <2>1, <2>2 DEF Saved
  <2>4. \A s \in Slot : s < hnd[t].i + 1 => s < hnd[t].i \/ s = hnd[t].i
    BY <1>0, NAssumption DEF Slot
  <2>5. \A s \in Slot : Owned(s) \/ s = hnd[t].i => Owned(s)'
    BY <2>1, <2>3 DEF Owned, Aborting
  <2>6. \A s \in Slot : s < hnd[t].i + 1 => Owned(s)'
    BY <1>0, <1>1, <2>1, <2>4, <2>5 DEF RestoredSoFar
  <2>7. RestoredSoFar'
    <3> SUFFICES ASSUME NEW u \in Threads, NEW s \in Slot, hnd'[u].pc = "unreg", s < hnd'[u].i
                 PROVE  Owned(s)'
      BY DEF RestoredSoFar
    <3>1. CASE u = t
      BY <2>1, <2>6, <3>1
    <3>2. CASE u # t
      BY <1>1, <2>1, <2>5, <3>2 DEF RestoredSoFar
    <3>3. QED
      BY <3>1, <3>2
  <2>8. Restored'
    <3> SUFFICES ASSUME NEW u \in Threads, hnd'[u].pc = "ret", NEW s \in Slot PROVE Owned(s)'
      BY DEF Restored
    <3>1. CASE u = t
      <4>1. hnd[t].i = N /\ s < N + 1
        BY <2>1, <3>1, NAssumption DEF Slot
      <4>2. QED
        BY <2>6, <4>1
    <3>2. CASE u # t
      BY <1>0, <2>1, <2>5, <3>2 DEF Restored
    <3>3. QED
      BY <3>1, <3>2
  <2>9. DisplacedOnRecord'
    BY <1>0, <1>1, <2>2, <2>3, <2>5 DEF DisplacedOnRecord
  <2>10. FilledSoFar' /\ CompleteForHandlers'
    BY <1>0, <1>1, <2>2 DEF FilledSoFar, CompleteForHandlers, Registering
  <2>11. QED
    BY <2>7, <2>8, <2>9, <2>10 DEF CleanTable
<1>5. CASE UnregisterFails(t)
  BY <1>5 DEF UnregisterFails
<1>6. CASE HandlerReturn(t)
  <2>1. /\ hnd'[t].pc = "none" /\ Handling
        /\ \A u \in Threads : u # t => hnd'[u] = hnd[u]
    BY <1>0, <1>6 DEF HandlerReturn, NoHandler, Handling
  <2>2. \A s \in Slot : Saved(s) /\ Saved(s)'
    BY <1>0, <1>1, <2>1 DEF CompleteForHandlers, Saved
  <2>3. ~Registering
    BY <1>1, <2>1 DEF FilledSoFar
  <2>4. \A s \in Slot : disp'[s] = disp[s] \/ (s = Abrt /\ disp'[s] = Dfl /\ Aborting')
    <3>1. CASE cause[t].kind = "abort"
      <4>1. Aborting'
        BY <1>0, <1>6, <3>1 DEF HandlerReturn, Resume, Aborting
      <4>2. disp' = [disp EXCEPT ![Abrt] = Dfl]
        BY <1>6, <3>1 DEF HandlerReturn, Resume
      <4>3. QED
        BY <1>0, <4>1, <4>2
    <3>2. CASE cause[t].kind # "abort"
      BY <1>6, <3>2 DEF HandlerReturn, Resume
    <3>3. QED
      BY <3>1, <3>2
  <2>5. Aborting => Aborting'
    BY <1>0, <1>6 DEF HandlerReturn, Resume, Aborting
  <2>6. \A s \in Slot : Owned(s) => Owned(s)'
    BY <2>4, <2>5 DEF Owned
  <2>7. RestoredSoFar' /\ Restored'
    BY <1>0, <1>1, <2>1, <2>6 DEF RestoredSoFar, Restored
  <2>8. DisplacedOnRecord'
    BY <1>0, <1>1, <2>2, <2>4, <2>6 DEF DisplacedOnRecord, Owned
  <2>9. FilledSoFar' /\ CompleteForHandlers'
    BY <1>0, <2>2, <2>3 DEF FilledSoFar, CompleteForHandlers, Registering
  <2>10. QED
    BY <2>7, <2>8, <2>9 DEF CleanTable
<1>7. QED
  BY <1>2, <1>3, <1>4, <1>5, <1>6 DEF TakeSignal

\* The step that ends the process.
LEMMA EndKeepsOwner ==
  ASSUME TypeOK, CleanTable, PassedOn, [Next]_vars
  PROVE  PassedOn'
<1>1. ASSUME NEW t \in Threads, EndProcess(t)
      PROVE  PassedOn'
  <2> SUFFICES ASSUME ~spoiled' PROVE PassedOn'
    BY DEF PassedOn
  <2>1. ~spoiled /\ cause[t].sig \in Slot /\ disp[cause[t].sig] # Ours
        /\ ended' = [sig |-> cause[t].sig, by |-> disp[cause[t].sig]] /\ Aborting' = Aborting
    BY <1>1 DEF EndProcess, TypeOK, Causes, Aborting
  <2>2. Owned(cause[t].sig)
    BY <2>1 DEF CleanTable, DisplacedOnRecord
  <2>3. CASE disp[cause[t].sig] = Orig[cause[t].sig]
    BY <2>1, <2>3 DEF PassedOn
  <2>4. CASE cause[t].sig = Abrt /\ disp[cause[t].sig] = Dfl /\ Aborting
    BY <2>1, <2>4 DEF PassedOn
  <2>5. QED
    BY <2>2, <2>3, <2>4 DEF Owned
<1>2. ASSUME NEW t \in Threads, HandlerReturn(t), cause[t].kind = "again"
      PROVE  PassedOn'
  BY <1>2 DEF HandlerReturn, Resume, PassedOn, Aborting
<1>3. CASE Running /\ UNCHANGED ended
  BY <1>3 DEF Running, PassedOn
<1>4. CASE UNCHANGED vars
  BY <1>4 DEF vars, PassedOn, Running, Aborting
<1>5. \/ \E t \in Threads : EndProcess(t)
      \/ \E t \in Threads : HandlerReturn(t) /\ cause[t].kind = "again"
      \/ (Running /\ UNCHANGED ended)
      \/ UNCHANGED vars
  <2>1. ASSUME NEW t \in Threads, TakeSignal(t)
        PROVE  \/ EndProcess(t)
               \/ HandlerReturn(t) /\ cause[t].kind = "again"
               \/ (Running /\ UNCHANGED ended)
    BY <2>1 DEF TakeSignal, EnterHandler, Unregister, UnregisterFails, HandlerReturn, Resume
  <2>2. RegisterSignal => Running /\ UNCHANGED ended
    BY DEF RegisterSignal, RegisterEnter, Install, Store, InstallFails, Free
  <2>3. ASSUME NEW t \in Threads, NEW s \in Slot, Fault(t, s) \/ Send(t, s) \/ Abort(t)
        PROVE  Running /\ UNCHANGED ended
    BY <2>3 DEF Fault, Send, Abort, Raise, Free
  <2>4. QED
    BY <2>1, <2>2, <2>3, ThreadAssumption, SlotAssumption DEF Next, TestCrash
<1>6. QED
  BY <1>1, <1>2, <1>3, <1>4, <1>5

\* A signal that is raised changes no record.
LEMMA RaiseKeepsTable ==
  ASSUME TypeOK, CleanTable, Restored,
         NEW t \in Threads, NEW s \in Slot, Fault(t, s) \/ Send(t, s) \/ Abort(t)
  PROVE  CleanTable' /\ Restored'
<1>1. UNCHANGED <<disp, oldact, reg, hnd, spoiled>>
  BY DEF Fault, Send, Abort, Raise
<1>2. Aborting' = Aborting
  <2>1. cause \in [Threads -> Causes] /\ cause[t].kind = "none" /\ cause'[t].kind # "again"
        /\ \A u \in Threads : u # t => cause'[u] = cause[u]
    BY DEF Fault, Send, Abort, Raise, Free, NoSignal, TypeOK
  <2>2. QED
    BY <2>1 DEF Aborting
<1>3. QED
  BY <1>1, <1>2 DEF CleanTable, Restored, DisplacedOnRecord, FilledSoFar,
     CompleteForHandlers, RestoredSoFar, Registering, Handling, Owned, Saved, InFlight

\* The records of the displaced dispositions are in order as long as nothing
\* nests, overlaps or fails, and therefore ...
THEOREM RecordsInOrder == Spec => [](CleanTable /\ Restored /\ PassedOn)
<1> DEFINE IInv == CleanTable /\ Restored /\ PassedOn
<1>1. Init => IInv
  <2> SUFFICES ASSUME Init PROVE IInv
    OBVIOUS
  <2>1. ~Registering /\ ~Handling /\ ~Aborting /\ Running /\ disp = Orig
        /\ \A t \in Threads : hnd[t].pc = "none"
    BY DEF Init, Registering, Handling, Aborting, Running, NoHandler, NoSignal
  <2>2. \A s \in Slot : disp[s] # Ours /\ Owned(s)
    BY <2>1, DispAssumption DEF Owned
  <2>3. QED
    BY <2>1, <2>2 DEF CleanTable, Restored, PassedOn, DisplacedOnRecord, FilledSoFar,
       CompleteForHandlers, RestoredSoFar, Registering
<1>2. TypeOK /\ IInv /\ [Next]_vars => IInv'
  <2> SUFFICES ASSUME TypeOK, IInv, [Next]_vars PROVE IInv'
    OBVIOUS
  <2>1. PassedOn'
    BY EndKeepsOwner
  <2>2. CASE UNCHANGED vars
    BY <2>1, <2>2 DEF vars, CleanTable, Restored, DisplacedOnRecord, FilledSoFar,
       CompleteForHandlers, RestoredSoFar, Registering, Handling, Aborting, Owned, Saved, InFlight
  <2>3. CASE Next
    BY <2>1, <2>3, RegistrationKeepsTable, HandlerKeepsTable, RaiseKeepsTable,
       ThreadAssumption, SlotAssumption
       DEF Next, TestCrash
  <2>4. QED
    BY <2>2, <2>3
<1>3. QED
  BY <1>1, <1>2, Typing, PTL DEF Spec

\* ... when a handler is about to return, every signal of the table has the
\* disposition it had before the library was loaded,
THEOREM AllRestored == Spec => []Restored
BY RecordsInOrder, PTL

\* ... and the process never dies of a signal without that signal's original
\* owner having been given it, unless it dies by the default action of SIGABRT
\* and the handler has returned to an abort() (xcc_signal.c:20,43-46).
THEOREM AllPassedOn == Spec => []PassedOn
BY RecordsInOrder, PTL

--------------------------------------------------------------------------------
(* The second handler (CrashMore): types.                                  *)

SetupFrames == [pc : {"idle", "install", "store"}, k : 1 .. Len(MoreTable), tmp : Dispositions]

\* The table of the second handler names signals.
LEMMA MoreTableSlots ==
  /\ Len(MoreTable) \in Nat \ {0} /\ Segv \in Slot
  /\ \A k \in 1 .. Len(MoreTable) : MoreTable[k] \in Slot
BY MoreAssumption DEF Segv

\* A frame of initCrashHandler remains one.
LEMMA SetupUpdates ==
  ASSUME NEW f \in SetupFrames, NEW p \in {"idle", "install", "store"},
         NEW n \in 1 .. Len(MoreTable), NEW d \in Dispositions
  PROVE  /\ [f EXCEPT !.pc = p] \in SetupFrames
         /\ [f EXCEPT !.k = n] \in SetupFrames
         /\ [f EXCEPT !.pc = p, !.k = n] \in SetupFrames
         /\ [f EXCEPT !.pc = p, !.tmp = d] \in SetupFrames
BY DEF SetupFrames

\* initCrashHandler keeps the types.
LEMMA SetupTyping ==
  ASSUME MoreTypeOK, InitCrashHandler \/ InstallMore \/ InstallMoreFails \/ StoreMore
  PROVE  MoreTypeOK'
<1>0. /\ TypeOK /\ setup \in SetupFrames /\ setup.k \in 1 .. Len(MoreTable) /\ setup.tmp \in Dispositions
      /\ disp \in [Slot -> Dispositions] /\ inits \in 0 .. MaxInit
  BY DEF MoreTypeOK, SetupFrames, TypeOK
<1>1. CASE InitCrashHandler
  <2>1. inits' \in 0 .. MaxInit
    BY <1>0, <1>1, MoreAssumption DEF InitCrashHandler
  <2>2. setup' \in SetupFrames
    <3>1. 1 \in 1 .. Len(MoreTable)
      BY MoreTableSlots
    <3> QED
      BY <1>0, <1>1, <3>1, SetupUpdates DEF InitCrashHandler
  <2>3. UNCHANGED <<vars, act_old, more, hasty>>
    BY <1>1 DEF InitCrashHandler
  <2> QED
    BY <2>1, <2>2, <2>3 DEF vars, MoreTypeOK, TypeOK, SetupFrames
<1>2. CASE InstallMore
  <2>1. MoreTable[setup.k] \in Slot /\ More \in Dispositions
    BY <1>0, MoreTableSlots, MoreAssumption
  <2>2. disp' \in [Slot -> Dispositions] /\ disp[MoreTable[setup.k]] \in Dispositions
    BY <1>0, <1>2, <2>1 DEF InstallMore, SetDisposition
  <2>3. setup' \in SetupFrames
    <3>1. setup.k # Len(MoreTable) => setup.k + 1 \in 1 .. Len(MoreTable)
      BY <1>0, MoreTableSlots
    <3> QED
      BY <1>0, <1>2, <2>2, <3>1, SetupUpdates DEF InstallMore
  <2>4. UNCHANGED <<oldact, altstack, reg, rc, cause, hnd, ended, regs, asyncs, spoiled,
                    act_old, more, inits, hasty>>
    BY <1>2 DEF InstallMore, SetDisposition
  <2> QED
    BY <2>2, <2>3, <2>4 DEF MoreTypeOK, TypeOK, SetupFrames
<1>3. CASE StoreMore
  <2>1. setup' \in SetupFrames /\ act_old' \in Dispositions
    BY <1>0, <1>3 DEF StoreMore, SetupFrames
  <2>2. UNCHANGED <<vars, more, inits, hasty>>
    BY <1>3 DEF StoreMore
  <2> QED
    BY <2>1, <2>2 DEF vars, MoreTypeOK, TypeOK, SetupFrames
<1>4. CASE InstallMoreFails
  <2>1. setup.k # Len(MoreTable) => setup.k + 1 \in 1 .. Len(MoreTable)
    BY <1>0, MoreTableSlots
  <2>2. setup' \in SetupFrames
    BY <1>0, <1>4, <2>1, SetupUpdates DEF InstallMoreFails
  <2>3. UNCHANGED <<vars, act_old, more, inits>> /\ hasty' \in BOOLEAN
    BY <1>4 DEF InstallMoreFails, MoreTypeOK
  <2> QED
    BY <2>2, <2>3 DEF vars, MoreTypeOK, TypeOK, SetupFrames
<1> QED
  BY <1>1, <1>2, <1>3, <1>4

\* crash_handler_more keeps the types.
LEMMA MoreHandlerTyping ==
  ASSUME MoreTypeOK, NEW t \in Threads, TakeMore(t)
  PROVE  MoreTypeOK'
<1>0. /\ TypeOK /\ more \in [Threads -> {"none", "restore", "ret"}]
      /\ \A u \in Threads : more[u] # "none" => cause[u].sig # 0 /\ hnd[u].pc = "none"
      /\ cause \in [Threads -> Causes] /\ cause[t].sig \in Slot \cup {0}
      /\ disp \in [Slot -> Dispositions] /\ act_old \in Dispositions
  BY DEF MoreTypeOK, TypeOK, Causes
<1>1. CASE EnterMore(t)
  <2>1. UNCHANGED <<vars, act_old, setup, inits, hasty>>
    BY <1>1 DEF EnterMore
  <2>2. /\ more' \in [Threads -> {"none", "restore", "ret"}]
        /\ \A u \in Threads : more'[u] # "none" => cause[u].sig # 0 /\ hnd[u].pc = "none"
    BY <1>0, <1>1 DEF EnterMore
  <2> QED
    BY <2>1, <2>2 DEF vars, MoreTypeOK, TypeOK
<1>2. CASE RestoreMore(t)
  <2>1. UNCHANGED <<oldact, altstack, reg, rc, cause, hnd, ended, regs, asyncs, spoiled,
                    act_old, setup, inits>>
    BY <1>2 DEF RestoreMore, SetDisposition
  <2>2. cause[t].sig \in Slot
    BY <1>0, <1>2 DEF RestoreMore
  <2>3. disp' \in [Slot -> Dispositions] /\ hasty' \in BOOLEAN
    BY <1>0, <1>2, <2>2 DEF RestoreMore, SetDisposition, MoreTypeOK
  <2>4. /\ more' \in [Threads -> {"none", "restore", "ret"}]
        /\ \A u \in Threads : more'[u] # "none" => cause[u].sig # 0 /\ hnd[u].pc = "none"
    BY <1>0, <1>2 DEF RestoreMore
  <2> QED
    BY <2>1, <2>3, <2>4 DEF MoreTypeOK, TypeOK
<1>3. CASE RestoreMoreFails(t)
  <2>1. UNCHANGED <<vars, act_old, setup, inits, hasty>>
    BY <1>3 DEF RestoreMoreFails
  <2>2. /\ more' \in [Threads -> {"none", "restore", "ret"}]
        /\ \A u \in Threads : more'[u] # "none" => cause[u].sig # 0 /\ hnd[u].pc = "none"
    BY <1>0, <1>3 DEF RestoreMoreFails
  <2> QED
    BY <2>1, <2>2 DEF vars, MoreTypeOK, TypeOK
<1>4. CASE ReturnMore(t)
  <2>1. UNCHANGED <<oldact, altstack, reg, rc, hnd, regs, asyncs, spoiled,
                    act_old, setup, inits, hasty>>
    BY <1>4 DEF ReturnMore
  <2>2. cause' \in [Threads -> Causes] /\ \A u \in Threads \ {t} : cause'[u] = cause[u]
    BY <1>0, <1>4, SlotAssumption DEF ReturnMore, Resume, NoSignal, Causes
  <2>3. disp' \in [Slot -> Dispositions]
    BY <1>0, <1>4, DispAssumption DEF ReturnMore, Resume
  <2>4. ended' \in [sig : Slot \cup {0}, by : Dispositions]
    BY <1>0, <1>4, DispAssumption, SlotAssumption DEF ReturnMore, Resume, TypeOK
  <2>5. more' \in [Threads -> {"none", "restore", "ret"}] /\ more'[t] = "none"
        /\ \A u \in Threads \ {t} : more'[u] = more[u]
    BY <1>0, <1>4 DEF ReturnMore
  <2> QED
    BY <1>0, <2>1, <2>2, <2>3, <2>4, <2>5 DEF MoreTypeOK, TypeOK
<1> QED
  BY <1>1, <1>2, <1>3, <1>4 DEF TakeMore

\* The steps of the first handler: they leave the second alone, and raise or
\* drop no signal that it is handling.
LEMMA FirstTyping ==
  ASSUME MoreTypeOK, First \/ \E t \in Threads : TakeFirst(t)
  PROVE  MoreTypeOK'
<1>1. TypeOK /\ UNCHANGED moreVars
  BY DEF MoreTypeOK, First, TakeFirst
<1>2. TypeOK'
  BY <1>1, RegisterTyping, SignalTyping, ThreadAssumption, SlotAssumption, SlotSteps
     DEF First, TriggerCrash, TakeFirst, TakeSignal
<1>3. \A t \in Threads : more[t] # "none" => cause'[t].sig # 0 /\ hnd'[t].pc = "none"
  <2> SUFFICES ASSUME NEW t \in Threads, more[t] # "none"
               PROVE  cause'[t].sig # 0 /\ hnd'[t].pc = "none"
    OBVIOUS
  <2>0. /\ cause \in [Threads -> Causes] /\ hnd \in [Threads -> Handlers]
        /\ cause[t].sig # 0 /\ hnd[t].pc = "none"
    BY DEF MoreTypeOK, TypeOK
  <2>1. CASE RegisterSignal
    BY <2>0, <2>1 DEF RegisterSignal, RegisterEnter, Install, Store, InstallFails
  <2>2. ASSUME NEW u \in Threads, NEW s \in Slot, Fault(u, s) \/ Send(u, s) \/ Abort(u)
        PROVE  cause'[t].sig # 0 /\ hnd'[t].pc = "none"
    <3>1. u # t
      BY <2>0, <2>2 DEF Fault, Send, Abort, Free, NoSignal
    <3> QED
      BY <2>0, <2>2, <3>1 DEF Fault, Send, Abort, Raise
  <2>3. ASSUME NEW u \in Threads, TakeFirst(u)
        PROVE  cause'[t].sig # 0 /\ hnd'[t].pc = "none"
    <3>1. u # t
      BY <2>3 DEF TakeFirst
    <3> QED
      BY <2>0, <2>3, <3>1 DEF TakeFirst, EnterHandler, Unregister, UnregisterFails, NextSlot,
                              HandlerReturn, Resume, EndProcess
  <2> QED
    BY <2>1, <2>2, <2>3, ThreadAssumption, SlotAssumption DEF First, TriggerCrash
<1> QED
  BY <1>1, <1>2, <1>3 DEF moreVars, MoreTypeOK

\* Every variable of both handlers keeps its type, and crash_handler_more runs
\* only where a signal was taken and the first handler is not running.
THEOREM MoreTyping == MoreSpec => []MoreTypeOK
<1>1. MoreInit => MoreTypeOK
  <2> SUFFICES ASSUME MoreInit PROVE MoreTypeOK
    OBVIOUS
  <2>1. TypeOK
    BY InitTyping DEF MoreInit
  <2>2. inits \in 0 .. MaxInit /\ setup \in SetupFrames /\ act_old \in Dispositions
    BY DispAssumption, MoreAssumption, MoreTableSlots DEF MoreInit, SetupFrames
  <2> QED
    BY <2>1, <2>2 DEF MoreInit, MoreTypeOK, SetupFrames
<1>2. MoreTypeOK /\ [MoreNext]_allVars => MoreTypeOK'
  <2> SUFFICES ASSUME MoreTypeOK, [MoreNext]_allVars PROVE MoreTypeOK'
    OBVIOUS
  <2>1. CASE UNCHANGED allVars
    BY <2>1 DEF allVars, vars, moreVars, MoreTypeOK, TypeOK
  <2>2. CASE MoreNext
    BY <2>2, SetupTyping, MoreHandlerTyping, FirstTyping DEF MoreNext
  <2> QED
    BY <2>1, <2>2
<1> QED
  BY <1>1, <1>2, PTL DEF MoreSpec

--------------------------------------------------------------------------------
(* The second handler: whom a signal may be given to.                      *)

\* What the second handler may put in place of any signal.
Strangers == {Orig[Segv], Dfl, Ours, More}

\* What is saved, reported or saved soon comes from the entry's own signal or
\* from SIGSEGV.
StrangersInv ==
  /\ \A s \in Slot : {disp[s], oldact[s]} \subseteq {Orig[s]} \cup Strangers
  /\ act_old \in Strangers /\ setup.tmp \in Strangers
  /\ reg.pc = "store" => reg.tmp \in {Orig[reg.i]} \cup Strangers

\* register_signal moves dispositions within an entry only.
LEMMA RegisterStrangers ==
  ASSUME MoreTypeOK, StrangersInv, RegisterSignal, UNCHANGED moreVars
  PROVE  StrangersInv'
<1>0. /\ reg \in Frames /\ reg.i \in Slot /\ Ours \in Strangers
      /\ disp \in [Slot -> Dispositions] /\ oldact \in [Slot -> Dispositions]
  BY DEF MoreTypeOK, TypeOK, Frames, Strangers
<1>1. CASE RegisterEnter
  BY <1>0, <1>1 DEF RegisterEnter, Return, StrangersInv, Frames, moreVars
<1>2. CASE Install
  <2>1. reg'.i = reg.i /\ reg'.tmp = disp[reg.i]
    BY <1>0, <1>2 DEF Install, Frames
  <2>2. \A s \in Slot : disp'[s] \in {disp[s], Ours}
    BY <1>0, <1>2 DEF Install
  <2>3. UNCHANGED <<oldact, act_old, setup>>
    BY <1>2 DEF Install, moreVars
  <2> QED
    BY <1>0, <2>1, <2>2, <2>3 DEF StrangersInv
<1>3. CASE Store
  <2>1. reg'.pc # "store" /\ UNCHANGED <<disp, act_old, setup>>
    BY <1>0, <1>3 DEF Store, Return, Frames, moreVars
  <2>2. \A s \in Slot : oldact'[s] = oldact[s] \/ (s = reg.i /\ oldact'[s] = reg.tmp)
    BY <1>0, <1>3 DEF Store
  <2>3. reg.pc = "store"
    BY <1>3 DEF Store
  <2> QED
    BY <2>1, <2>2, <2>3 DEF StrangersInv
<1>4. CASE InstallFails
  BY <1>0, <1>4 DEF InstallFails, Return, StrangersInv, Frames, moreVars
<1> QED
  BY <1>1, <1>2, <1>3, <1>4 DEF RegisterSignal

\* initCrashHandler saves what it found for SIGSEGV, and crash_handler_more puts
\* what was saved in place of any signal.
LEMMA MoreStrangers ==
  ASSUME MoreTypeOK, StrangersInv,
         InitCrashHandler \/ InstallMore \/ InstallMoreFails \/ StoreMore \/ \E t \in Threads : TakeMore(t)
  PROVE  StrangersInv'
<1>0. /\ disp \in [Slot -> Dispositions] /\ cause \in [Threads -> Causes]
      /\ setup.k \in 1 .. Len(MoreTable) /\ setup \in SetupFrames
      /\ disp[Segv] \in Strangers /\ More \in Strangers
  BY MoreTableSlots DEF MoreTypeOK, TypeOK, SetupFrames, StrangersInv, Strangers
<1>1. UNCHANGED <<oldact, reg>>
  BY DEF InitCrashHandler, InstallMore, InstallMoreFails, StoreMore, TakeMore, EnterMore,
         RestoreMore, RestoreMoreFails, ReturnMore, SetDisposition, vars
<1>2. \A s \in Slot : disp'[s] \in {disp[s], More, act_old, Dfl}
  <2>1. CASE InitCrashHandler \/ InstallMore \/ InstallMoreFails \/ StoreMore
    BY <1>0, <2>1 DEF InitCrashHandler, InstallMore, InstallMoreFails, StoreMore, SetDisposition, vars
  <2>2. ASSUME NEW t \in Threads, TakeMore(t)
        PROVE  \A s \in Slot : disp'[s] \in {disp[s], More, act_old, Dfl}
    BY <1>0, <2>2 DEF TakeMore, EnterMore, RestoreMore, RestoreMoreFails, ReturnMore, Resume,
                      SetDisposition, vars
  <2> QED
    BY <2>1, <2>2
<1>3. setup'.tmp \in {setup.tmp, disp[Segv]}
  <2>1. CASE InitCrashHandler \/ InstallMore \/ InstallMoreFails \/ StoreMore
    BY <1>0, <2>1 DEF InitCrashHandler, InstallMore, InstallMoreFails, StoreMore, SetupFrames, Segv
  <2>2. ASSUME NEW t \in Threads, TakeMore(t) PROVE UNCHANGED setup
    BY <2>2 DEF TakeMore, EnterMore, RestoreMore, RestoreMoreFails, ReturnMore
  <2> QED
    BY <2>1, <2>2
<1>4. act_old' \in {act_old, setup.tmp}
  BY DEF InitCrashHandler, InstallMore, InstallMoreFails, StoreMore, TakeMore, EnterMore,
         RestoreMore, RestoreMoreFails, ReturnMore
<1>5. Dfl \in Strangers
  BY DEF Strangers
<1> QED
  BY <1>0, <1>1, <1>2, <1>3, <1>4, <1>5 DEF StrangersInv

\* Signals, and the handler of CrashSignal, which restores within an entry.
LEMMA HandlerStrangers ==
  ASSUME MoreTypeOK, StrangersInv, UNCHANGED moreVars,
         \/ \E t \in Threads, s \in Slot : Fault(t, s) \/ Send(t, s) \/ Abort(t)
         \/ \E t \in Threads : TakeFirst(t)
  PROVE  StrangersInv'
<1>0. /\ disp \in [Slot -> Dispositions]
      /\ \A t \in Threads : hnd[t].i \in Slot
  BY DEF MoreTypeOK, TypeOK, Handlers
<1>1. UNCHANGED <<oldact, reg, act_old, setup>>
  BY DEF Fault, Send, Abort, Raise, TakeFirst, EnterHandler, Unregister, UnregisterFails,
         HandlerReturn, Resume, EndProcess, moreVars
<1>2. \A s \in Slot : disp'[s] \in {disp[s], oldact[s], Dfl}
  <2>1. ASSUME NEW t \in Threads, NEW s \in Slot, Fault(t, s) \/ Send(t, s) \/ Abort(t)
        PROVE  UNCHANGED disp
    BY <2>1 DEF Fault, Send, Abort, Raise
  <2>2. ASSUME NEW t \in Threads, TakeFirst(t)
        PROVE  \A s \in Slot : disp'[s] \in {disp[s], oldact[s], Dfl}
    BY <1>0, <2>2 DEF TakeFirst, EnterHandler, Unregister, UnregisterFails, HandlerReturn, Resume,
                      EndProcess
  <2> QED
    BY <2>1, <2>2
<1> QED
  BY <1>1, <1>2 DEF StrangersInv, Strangers

\* One saved action serves every signal of initCrashHandler, so a signal may get
\* the owner of SIGSEGV, but never that of a third signal (ptracer.c:68,82).
THEOREM StrangerIsSegvs == MoreSpec => []OneStranger
<1>1. MoreInit => StrangersInv
  BY DEF MoreInit, Init, StrangersInv, Strangers
<1>2. MoreTypeOK /\ StrangersInv /\ [MoreNext]_allVars => StrangersInv'
  <2> SUFFICES ASSUME MoreTypeOK, StrangersInv, [MoreNext]_allVars PROVE StrangersInv'
    OBVIOUS
  <2>1. CASE UNCHANGED allVars
    BY <2>1 DEF allVars, vars, moreVars, StrangersInv
  <2>2. CASE First
    <3>1. /\ UNCHANGED moreVars
          /\ \/ RegisterSignal
             \/ \E t \in Threads, s \in Slot : Fault(t, s) \/ Send(t, s) \/ Abort(t)
      BY <2>2, ThreadAssumption, SlotAssumption DEF First, TriggerCrash
    <3> QED
      BY <3>1, RegisterStrangers, HandlerStrangers
  <2>3. ASSUME NEW t \in Threads, TakeFirst(t) PROVE StrangersInv'
    <3>1. UNCHANGED moreVars
      BY <2>3 DEF TakeFirst
    <3> QED
      BY <2>3, <3>1, HandlerStrangers
  <2> QED
    BY <2>1, <2>2, <2>3, MoreStrangers DEF MoreNext
<1>3. StrangersInv => OneStranger
  BY DEF StrangersInv, Strangers, OneStranger
<1> QED
  BY <1>1, <1>2, <1>3, MoreTyping, PTL DEF MoreSpec

--------------------------------------------------------------------------------
(* Both handlers: a SIGSEGV reaches its owner.                             *)

SegvOwners == {Orig[Segv], Ours, More}

\* The first handler is installed for some signal, or will be put back.
Hooked ==
  \/ \E s \in Slot : Ours \in {disp[s], oldact[s]}
  \/ Ours \in {act_old, setup.tmp}

\* The first handler's record for SIGSEGV is good when it may be used: while the
\* handler runs, and between registrations once it is installed.
FirstRecord ==
  /\ Registering => ~Handling
  /\ Handling \/ (~Registering /\ Hooked) => oldact[Segv] \in SegvOwners
  /\ Registering /\ Segv < reg.i => oldact[Segv] \in SegvOwners
  /\ reg.pc = "store" /\ reg.i = Segv => reg.tmp \in SegvOwners

\* The second handler's record is good outside initCrashHandler.
SecondRecord ==
  /\ setup.pc = "store" => setup.tmp \in SegvOwners
  /\ setup.pc = "idle" /\ inits > 0 => act_old \in SegvOwners

\* Before the first call of initCrashHandler there is no trace of the second.
NoMore ==
  inits = 0 =>
    /\ \A s \in Slot : More \notin {disp[s], oldact[s]}
    /\ reg.pc = "store" => reg.tmp # More
    /\ More \notin {act_old, setup.tmp} /\ setup.pc = "idle"
    /\ \A t \in Threads : more[t] = "none"

\* All of it, while nothing is nested, overlapped, failed or hasty.
SegvInv ==
  ~spoiled /\ ~hasty =>
    disp[Segv] \in SegvOwners /\ FirstRecord /\ SecondRecord /\ NoMore

\* Typing facts that the steps below start from.
LEMMA MoreFacts ==
  ASSUME MoreTypeOK
  PROVE  /\ reg \in Frames /\ reg.i \in Slot /\ setup \in SetupFrames
         /\ disp \in [Slot -> Dispositions] /\ oldact \in [Slot -> Dispositions]
         /\ hnd \in [Threads -> Handlers] /\ \A t \in Threads : hnd[t].i \in Slot
         /\ cause \in [Threads -> Causes] /\ more \in [Threads -> {"none", "restore", "ret"}]
         /\ inits \in Nat /\ setup.k \in 1 .. Len(MoreTable) /\ MoreTable[setup.k] \in Slot
         /\ Segv \in Slot /\ spoiled \in BOOLEAN /\ hasty \in BOOLEAN
         /\ Ours \in SegvOwners /\ More \in SegvOwners /\ Ours # More
         /\ Dfl \notin {Ours, More} /\ Segv # Abrt
<1>1. /\ TypeOK /\ setup \in SetupFrames /\ more \in [Threads -> {"none", "restore", "ret"}]
      /\ inits \in Nat /\ hasty \in BOOLEAN
  BY DEF MoreTypeOK, SetupFrames
<1>2. setup.k \in 1 .. Len(MoreTable)
  BY <1>1 DEF SetupFrames
<1>3. /\ reg \in Frames /\ reg.i \in Slot
      /\ hnd \in [Threads -> Handlers] /\ \A t \in Threads : hnd[t].i \in Slot
      /\ disp \in [Slot -> Dispositions] /\ oldact \in [Slot -> Dispositions]
      /\ cause \in [Threads -> Causes] /\ spoiled \in BOOLEAN
  BY <1>1 DEF TypeOK, Frames, Handlers
<1>4. Ours \in SegvOwners /\ More \in SegvOwners /\ Ours # More
      /\ Dfl \notin {Ours, More} /\ Segv # Abrt
  BY MoreAssumption, DispAssumption DEF SegvOwners, Segv
<1> QED
  BY <1>1, <1>2, <1>3, <1>4, MoreTableSlots

\* register_signal, running alone, records the owner or the second handler.
LEMMA RegisterSegv ==
  ASSUME MoreTypeOK, SegvInv, RegisterSignal, UNCHANGED moreVars
  PROVE  SegvInv'
<1> SUFFICES ASSUME ~spoiled', ~hasty
             PROVE  (disp[Segv] \in SegvOwners /\ FirstRecord /\ SecondRecord /\ NoMore)'
  BY DEF SegvInv, moreVars
<1>0. UNCHANGED <<act_old, setup, more, inits, hasty, hnd>> /\ UNCHANGED Handling
  BY DEF moreVars, RegisterSignal, RegisterEnter, Install, Store, InstallFails, Handling
<1>1. ~spoiled
  BY DEF RegisterSignal, RegisterEnter, Install, Store, InstallFails
<1>2. disp[Segv] \in SegvOwners /\ FirstRecord /\ SecondRecord /\ NoMore
  BY <1>1 DEF SegvInv
<1>3. SecondRecord'
  BY <1>0, <1>2 DEF SecondRecord
<1>4. CASE RegisterEnter
  <2>1. UNCHANGED <<disp, oldact>> /\ ~Registering
    BY <1>4 DEF RegisterEnter
  <2>2. /\ reg'.pc # "store"
        /\ \/ UNCHANGED Registering
           \/ Registering' /\ reg'.i = 1 /\ ~Handling
    BY <1>4, MoreFacts DEF RegisterEnter, Return, Registering, Frames
  <2>3. UNCHANGED Hooked
    BY <1>0, <2>1 DEF Hooked
  <2>4. ~ (Segv < 1)
    BY MoreTableSlots DEF Slot
  <2>5. FirstRecord'
    BY <1>0, <1>2, <2>1, <2>2, <2>3, <2>4 DEF FirstRecord
  <2>6. NoMore'
    BY <1>0, <1>2, <2>1, <2>2 DEF NoMore
  <2> QED
    BY <1>2, <1>3, <2>1, <2>5, <2>6
<1>5. CASE Install
  <2>1. /\ UNCHANGED oldact /\ Registering /\ Registering'
        /\ reg'.pc = "store" /\ reg'.i = reg.i /\ reg'.tmp = disp[reg.i]
    BY <1>5, MoreFacts DEF Install, Registering, Frames
  <2>2. \A s \in Slot : disp'[s] \in {disp[s], Ours}
    BY <1>5, MoreFacts DEF Install
  <2>3. disp'[Segv] \in SegvOwners
    BY <1>2, <2>2, MoreFacts
  <2>4. FirstRecord'
    BY <1>0, <1>2, <2>1 DEF FirstRecord
  <2>5. NoMore'
    BY <1>0, <1>2, <2>1, <2>2, MoreFacts DEF NoMore
  <2> QED
    BY <1>3, <2>3, <2>4, <2>5
<1>6. CASE Store
  <2>1. UNCHANGED disp /\ Registering /\ reg.pc = "store" /\ reg'.pc # "store"
    BY <1>6, MoreFacts DEF Store, Return, Registering, Frames
  <2>2. \/ reg.i = N /\ ~Registering'
        \/ reg.i # N /\ Registering' /\ reg'.i = reg.i + 1
    BY <1>6, MoreFacts DEF Store, Return, Registering, Frames
  <2>3. \A s \in Slot : oldact'[s] = IF s = reg.i THEN reg.tmp ELSE oldact[s]
    BY <1>6, MoreFacts DEF Store
  <2>4. Segv <= reg.i => oldact'[Segv] \in SegvOwners
    <3>1. CASE Segv = reg.i
      BY <1>2, <2>1, <2>3, <3>1, MoreFacts DEF FirstRecord
    <3>2. CASE Segv < reg.i
      BY <1>2, <2>1, <2>3, <3>2, MoreFacts DEF FirstRecord, Slot
    <3> QED
      BY <3>1, <3>2, MoreFacts DEF Slot
  <2>5. Segv <= N /\ Segv \in Nat /\ reg.i \in Nat /\ N \in Nat
    BY MoreFacts, NAssumption DEF Slot
  <2>6. FirstRecord'
    BY <1>0, <1>2, <2>1, <2>2, <2>4, <2>5 DEF FirstRecord
  <2>7. NoMore'
    BY <1>0, <1>2, <2>1, <2>3 DEF NoMore
  <2> QED
    BY <1>2, <1>3, <2>1, <2>6, <2>7
<1> QED
  BY <1>4, <1>5, <1>6 DEF RegisterSignal, InstallFails

\* initCrashHandler saves the owner or the first handler.
LEMMA SetupSegv ==
  ASSUME MoreTypeOK, SegvInv, InitCrashHandler \/ InstallMore \/ InstallMoreFails \/ StoreMore
  PROVE  SegvInv'
<1>a. (spoiled => spoiled') /\ (hasty => hasty')
  <2>1. UNCHANGED spoiled
    BY DEF InitCrashHandler, InstallMore, InstallMoreFails, StoreMore, SetDisposition, vars
  <2>2. InstallMoreFails => (hasty => hasty')
    BY Zenon DEF InstallMoreFails
  <2>3. ~InstallMoreFails => UNCHANGED hasty
    BY DEF InitCrashHandler, InstallMore, StoreMore
  <2> QED
    BY <2>1, <2>2, <2>3
<1> SUFFICES ASSUME ~spoiled, ~hasty, ~hasty'
             PROVE  (disp[Segv] \in SegvOwners /\ FirstRecord /\ SecondRecord /\ NoMore)'
  BY <1>a DEF SegvInv
<1>0. UNCHANGED <<oldact, reg, hnd, more>> /\ UNCHANGED <<Registering, Handling>>
  BY DEF InitCrashHandler, InstallMore, InstallMoreFails, StoreMore, SetDisposition, vars,
         Registering, Handling
<1>1. disp[Segv] \in SegvOwners /\ FirstRecord /\ SecondRecord /\ NoMore
  BY DEF SegvInv
<1>2. \A s \in Slot : disp'[s] \in {disp[s], More}
  BY MoreFacts DEF InitCrashHandler, InstallMore, InstallMoreFails, StoreMore, SetDisposition, vars
<1>3. disp'[Segv] \in SegvOwners
  BY <1>1, <1>2, MoreFacts
<1>4. act_old' \in {act_old, setup.tmp} /\ setup'.tmp \in {setup.tmp, disp[Segv]}
  BY MoreFacts DEF InitCrashHandler, InstallMore, InstallMoreFails, StoreMore, SetupFrames, Segv
<1>5. Hooked' => Hooked
  BY <1>0, <1>2, <1>4, MoreFacts DEF Hooked
<1>6. FirstRecord'
  BY <1>0, <1>1, <1>5 DEF FirstRecord
<1>7. SecondRecord' /\ inits' # 0
  <2>1. CASE InitCrashHandler
    BY <2>1, MoreFacts DEF InitCrashHandler, SecondRecord, SetupFrames
  <2>2. CASE InstallMore
    <3>1. inits # 0 /\ UNCHANGED inits
      BY <1>1, <2>2 DEF InstallMore, NoMore
    <3>2. setup'.pc = "install" \/ (setup'.pc = "store" /\ setup'.tmp = disp[Segv])
      BY <2>2, MoreFacts DEF InstallMore, SetupFrames, Segv
    <3> QED
      BY <1>1, <3>1, <3>2 DEF SecondRecord
  <2>3. CASE StoreMore
    <3>1. inits # 0 /\ UNCHANGED inits
      BY <1>1, <2>3 DEF StoreMore, NoMore
    <3>2. setup'.pc = "idle" /\ act_old' = setup.tmp /\ setup.pc = "store"
      BY <2>3, MoreFacts DEF StoreMore, SetupFrames
    <3> QED
      BY <1>1, <3>1, <3>2 DEF SecondRecord
  <2>4. CASE InstallMoreFails
    <3>1. inits # 0 /\ UNCHANGED inits
      BY <1>1, <2>4 DEF InstallMoreFails, NoMore
    <3>2. setup.k # Len(MoreTable)
      BY <2>4, Zenon DEF InstallMoreFails
    <3>3. setup'.pc = "install"
      BY <2>4, <3>2, MoreFacts DEF InstallMoreFails, SetupFrames
    <3> QED
      BY <3>1, <3>3 DEF SecondRecord
  <2> QED
    BY <2>1, <2>2, <2>3, <2>4
<1>8. NoMore'
  BY <1>7 DEF NoMore
<1> QED
  BY <1>3, <1>6, <1>7, <1>8

\* crash_handler_more puts back what initCrashHandler saved, or is hasty.
LEMMA MoreHandlerSegv ==
  ASSUME MoreTypeOK, SegvInv, NEW t \in Threads, TakeMore(t)
  PROVE  SegvInv'
<1> SUFFICES ASSUME ~spoiled, ~hasty'
             PROVE  (disp[Segv] \in SegvOwners /\ FirstRecord /\ SecondRecord /\ NoMore)'
  BY DEF SegvInv, TakeMore, EnterMore, RestoreMore, RestoreMoreFails, ReturnMore, Resume, SetDisposition, vars
<1>0. UNCHANGED <<oldact, reg, hnd, act_old, setup, inits>> /\ UNCHANGED <<Registering, Handling>>
  BY DEF TakeMore, EnterMore, RestoreMore, RestoreMoreFails, ReturnMore, Resume, SetDisposition,
         vars, Registering, Handling
<1>1. ~hasty /\ (RestoreMore(t) => setup.pc = "idle")
  <2>1. RestoreMore(t) => ~ (hasty \/ setup.pc # "idle")
    BY Zenon DEF RestoreMore
  <2>2. ~ RestoreMore(t) => UNCHANGED hasty
    BY DEF TakeMore, EnterMore, RestoreMoreFails, ReturnMore
  <2> QED
    BY <2>1, <2>2
<1>2. disp[Segv] \in SegvOwners /\ FirstRecord /\ SecondRecord /\ NoMore
  BY <1>1 DEF SegvInv
<1>3. inits # 0
  <2>1. EnterMore(t) => \E s \in Slot : disp[s] = More
    BY MoreFacts DEF EnterMore, Causes
  <2>2. EnterMore(t) \/ more[t] # "none"
    BY DEF TakeMore, RestoreMore, RestoreMoreFails, ReturnMore
  <2> QED
    BY <1>2, <2>1, <2>2 DEF NoMore
<1>4. \A s \in Slot : \/ disp'[s] = disp[s]
                      \/ RestoreMore(t) /\ disp'[s] = act_old
                      \/ s = Abrt /\ disp'[s] = Dfl
  <2>1. CASE EnterMore(t) \/ RestoreMoreFails(t)
    BY <2>1 DEF EnterMore, RestoreMoreFails, vars
  <2>2. CASE RestoreMore(t)
    <3>1. disp' = [disp EXCEPT ![cause[t].sig] = act_old]
      BY <2>2 DEF RestoreMore, SetDisposition
    <3> QED
      BY <2>2, <3>1, MoreFacts
  <2>3. CASE ReturnMore(t)
    <3>1. disp' = disp \/ disp' = [disp EXCEPT ![Abrt] = Dfl]
      BY <2>3 DEF ReturnMore, Resume
    <3> QED
      BY <3>1, MoreFacts
  <2> QED
    BY <2>1, <2>2, <2>3 DEF TakeMore
<1>5. disp'[Segv] \in SegvOwners
  BY <1>1, <1>2, <1>3, <1>4, MoreFacts DEF SecondRecord
<1>6. Hooked' => Hooked
  BY <1>0, <1>4, MoreFacts DEF Hooked
<1>7. FirstRecord'
  BY <1>0, <1>2, <1>6 DEF FirstRecord
<1>8. SecondRecord' /\ NoMore'
  BY <1>0, <1>2, <1>3, MoreFacts DEF SecondRecord, NoMore
<1> QED
  BY <1>5, <1>7, <1>8

\* A raised signal changes nothing; the first handler puts its record back.
LEMMA HandlerSegv ==
  ASSUME MoreTypeOK, SegvInv, UNCHANGED moreVars,
         \/ \E t \in Threads, s \in Slot : Fault(t, s) \/ Send(t, s) \/ Abort(t)
         \/ \E t \in Threads : TakeFirst(t)
  PROVE  SegvInv'
<1> SUFFICES ASSUME ~spoiled', ~hasty
             PROVE  (disp[Segv] \in SegvOwners /\ FirstRecord /\ SecondRecord /\ NoMore)'
  BY DEF SegvInv, moreVars
<1>0. UNCHANGED <<oldact, reg, act_old, setup, more, inits>> /\ UNCHANGED Registering
  BY DEF Fault, Send, Abort, Raise, TakeFirst, EnterHandler, Unregister, UnregisterFails, NextSlot,
         HandlerReturn, Resume, EndProcess, moreVars, Registering
<1>1. ~spoiled
  BY DEF Fault, Send, Abort, Raise, TakeFirst, EnterHandler, Unregister, UnregisterFails,
         HandlerReturn, Resume, EndProcess
<1>2. disp[Segv] \in SegvOwners /\ FirstRecord /\ SecondRecord /\ NoMore
  BY <1>1 DEF SegvInv
<1>3. \A s \in Slot : \/ disp'[s] = disp[s]
                      \/ Handling /\ disp'[s] = oldact[s]
                      \/ s = Abrt /\ disp'[s] = Dfl
  <2>1. ASSUME NEW t \in Threads, NEW s \in Slot, Fault(t, s) \/ Send(t, s) \/ Abort(t)
        PROVE  UNCHANGED disp
    BY <2>1 DEF Fault, Send, Abort, Raise
  <2>2. ASSUME NEW t \in Threads, TakeFirst(t), ~Unregister(t)
        PROVE  \A s \in Slot : disp'[s] = disp[s] \/ (s = Abrt /\ disp'[s] = Dfl)
    BY <2>2, MoreFacts DEF TakeFirst, EnterHandler, UnregisterFails, HandlerReturn, Resume, EndProcess
  <2>3. ASSUME NEW t \in Threads, Unregister(t)
        PROVE  Handling /\ \A s \in Slot : disp'[s] = disp[s] \/ disp'[s] = oldact[s]
    BY <2>3, MoreFacts DEF Unregister, Handling
  <2>4. CASE \E t \in Threads, s \in Slot : Fault(t, s) \/ Send(t, s) \/ Abort(t)
    BY <2>1, <2>4
  <2>5. CASE \E t \in Threads : TakeFirst(t)
    BY <2>2, <2>3, <2>5
  <2> QED
    BY <2>4, <2>5
<1>4. Handling' => Handling \/ (~Registering /\ Hooked)
  <2>1. ASSUME NEW t \in Threads, EnterHandler(t)
        PROVE  ~Registering /\ Hooked
    <3>1. cause[t].sig \in Slot /\ disp[cause[t].sig] = Ours
      BY <2>1, MoreFacts DEF EnterHandler, Causes
    <3> QED
      BY <1>1, <2>1, <3>1 DEF EnterHandler, Hooked
  <2>2. ASSUME NEW t \in Threads, Unregister(t) \/ UnregisterFails(t) \/ HandlerReturn(t)
        PROVE  Handling
    BY <2>2 DEF Unregister, UnregisterFails, HandlerReturn, Resume, Handling
  <2>3. ASSUME NEW t \in Threads, EndProcess(t)
        PROVE  UNCHANGED Handling
    BY <2>3 DEF EndProcess, Handling
  <2>4. ASSUME NEW t \in Threads, NEW s \in Slot, Fault(t, s) \/ Send(t, s) \/ Abort(t)
        PROVE  UNCHANGED Handling
    BY <2>4 DEF Fault, Send, Abort, Raise, Handling
  <2> QED
    BY <2>1, <2>2, <2>3, <2>4 DEF TakeFirst
<1>5. disp'[Segv] \in SegvOwners
  BY <1>2, <1>3, MoreFacts DEF FirstRecord
<1>6. Hooked' => Hooked
  BY <1>0, <1>3, MoreFacts DEF Hooked
<1>7. FirstRecord'
  BY <1>0, <1>2, <1>4, <1>6 DEF FirstRecord
<1>8. SecondRecord' /\ NoMore'
  BY <1>0, <1>2, <1>3, MoreFacts DEF SecondRecord, NoMore
<1> QED
  BY <1>5, <1>7, <1>8

\* What ends the process is neither handler.
LEMMA EndKeepsSegv ==
  ASSUME MoreTypeOK, SegvInv, SegvPassedOn, [MoreNext]_allVars
  PROVE  SegvPassedOn'
<1>1. spoiled => spoiled'
  BY DEF MoreNext, InitCrashHandler, InstallMore, InstallMoreFails, StoreMore, First, TakeFirst, TakeMore,
         EnterMore, RestoreMore, RestoreMoreFails, ReturnMore, Resume, SetDisposition, RegisterSignal, RegisterEnter,
         Install, Store, InstallFails, TriggerCrash, Fault, Send, Abort, Raise, EnterHandler,
         Unregister, UnregisterFails, HandlerReturn, Resume, EndProcess, allVars, vars
<1>2. hasty => hasty'
  BY DEF MoreNext, InitCrashHandler, InstallMore, InstallMoreFails, StoreMore, First, TakeFirst, TakeMore,
         EnterMore, RestoreMore, RestoreMoreFails, ReturnMore, allVars, moreVars
<1>3. UNCHANGED ended \/ ended'.sig = Abrt \/ \E t \in Threads : TakeFirst(t) /\ EndProcess(t)
  <2>1. CASE InitCrashHandler \/ InstallMore \/ InstallMoreFails \/ StoreMore \/ First
    BY <2>1 DEF InitCrashHandler, InstallMore, InstallMoreFails, StoreMore, First, SetDisposition,
                RegisterSignal, RegisterEnter, Install, Store, InstallFails, TriggerCrash, Fault,
                Send, Abort, Raise, vars
  <2>2. ASSUME NEW t \in Threads, TakeMore(t)
        PROVE  UNCHANGED ended \/ ended'.sig = Abrt
    BY <2>2 DEF TakeMore, EnterMore, RestoreMore, RestoreMoreFails, ReturnMore, Resume,
                SetDisposition, vars
  <2>3. ASSUME NEW t \in Threads, TakeFirst(t)
        PROVE  UNCHANGED ended \/ ended'.sig = Abrt \/ EndProcess(t)
    BY <2>3 DEF TakeFirst, EnterHandler, Unregister, UnregisterFails, HandlerReturn, Resume
  <2>4. CASE UNCHANGED allVars
    BY <2>4 DEF allVars, vars
  <2> QED
    BY <2>1, <2>2, <2>3, <2>4 DEF MoreNext
<1>4. CASE UNCHANGED ended
  BY <1>1, <1>2, <1>4 DEF SegvPassedOn
<1>5. ASSUME NEW t \in Threads, TakeFirst(t), EndProcess(t)
      PROVE  SegvPassedOn'
  <2>1. disp[cause[t].sig] # Ours /\ ended' = [sig |-> cause[t].sig, by |-> disp[cause[t].sig]]
    BY <1>5 DEF EndProcess
  <2>2. disp[cause[t].sig] # More
    BY <1>5, <2>1 DEF TakeFirst, EnterHandler, Unregister, UnregisterFails, HandlerReturn, Resume, EndProcess
  <2>3. ended'.sig = Segv /\ ~spoiled' /\ ~hasty' => disp[Segv] \in SegvOwners
    BY <1>1, <1>2 DEF SegvInv
  <2> QED
    BY <2>1, <2>2, <2>3 DEF SegvPassedOn, SegvOwners
<1>6. CASE ended'.sig = Abrt
  BY <1>6, MoreFacts DEF SegvPassedOn
<1> QED
  BY <1>3, <1>4, <1>5, <1>6

\* In whatever order and however often the two handlers were installed, a
\* SIGSEGV that ends the process was given to its original owner, unless a
\* registration nested, overlapped a handler or failed, or a handler ran before
\* the saved action was there (ptracer.c:68-69, xcc_signal.c:34 and 79).
THEOREM SegvReachesOwner == MoreSpec => []SegvPassedOn
<1>1. MoreInit => SegvInv /\ SegvPassedOn
  <2> SUFFICES ASSUME MoreInit PROVE SegvInv /\ SegvPassedOn
    OBVIOUS
  <2>1. /\ disp = Orig /\ ~Registering /\ ~Handling /\ ended.sig = 0 /\ reg.pc = "idle"
        /\ oldact = [s \in Slot |-> Dfl] /\ setup.tmp = Dfl /\ act_old = Dfl
        /\ setup.pc = "idle" /\ more = [t \in Threads |-> "none"] /\ inits = 0
    BY DEF MoreInit, Init, Registering, Handling, NoHandler
  <2>2. /\ \A s \in Slot : Orig[s] \notin {Ours, More}
        /\ Dfl # Ours /\ Dfl # More /\ Segv \in Slot /\ 0 \notin Slot
    BY DispAssumption, MoreAssumption, MoreTableSlots DEF Slot
  <2>3. ~Hooked
    BY <2>1, <2>2 DEF Hooked
  <2>4. FirstRecord /\ SecondRecord /\ NoMore /\ disp[Segv] \in SegvOwners
    BY <2>1, <2>2, <2>3 DEF FirstRecord, SecondRecord, NoMore, SegvOwners
  <2> QED
    BY <2>1, <2>2, <2>4 DEF SegvInv, SegvPassedOn
<1>2. MoreTypeOK /\ SegvInv /\ [MoreNext]_allVars => SegvInv'
  <2> SUFFICES ASSUME MoreTypeOK, SegvInv, [MoreNext]_allVars PROVE SegvInv'
    OBVIOUS
  <2>1. CASE UNCHANGED allVars
    BY <2>1 DEF allVars, vars, moreVars, SegvInv, FirstRecord, SecondRecord, NoMore, Hooked,
                Registering, Handling
  <2>2. CASE First
    <3>1. /\ UNCHANGED moreVars
          /\ \/ RegisterSignal
             \/ \E t \in Threads, s \in Slot : Fault(t, s) \/ Send(t, s) \/ Abort(t)
      BY <2>2, ThreadAssumption, SlotAssumption DEF First, TriggerCrash
    <3> QED
      BY <3>1, RegisterSegv, HandlerSegv
  <2>3. ASSUME NEW t \in Threads, TakeFirst(t) PROVE SegvInv'
    <3>1. UNCHANGED moreVars
      BY <2>3 DEF TakeFirst
    <3> QED
      BY <2>3, <3>1, HandlerSegv
  <2> QED
    BY <2>1, <2>2, <2>3, SetupSegv, MoreHandlerSegv DEF MoreNext
<1>3. MoreTypeOK /\ SegvInv /\ SegvPassedOn /\ [MoreNext]_allVars => SegvPassedOn'
  BY EndKeepsSegv
<1> QED
  BY <1>1, <1>2, <1>3, MoreTyping, PTL DEF MoreSpec
================================================================================
