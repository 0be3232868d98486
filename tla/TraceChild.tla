------------------------------- MODULE TraceChild -------------------------------
(***************************************************************************)
(* test1 of ptracer/ptracer.c: fork a child that asks to be traced and     *)
(* executes ls, wait for it to stop, read a register, let it go on.  Call  *)
(* number c of test1 forks child c.                                        *)
(*                                                                         *)
(* No result is looked at.  wait(NULL) takes any child of the process: one *)
(* of an earlier call as well, which nobody has waited for since it was    *)
(* told to go on.  A child whose execl fails returns from test1 and is     *)
(* from then on a second copy of the application.                          *)
(***************************************************************************)
EXTENDS Naturals

CONSTANT MaxCalls  \* bound: calls of test1, at least one

Child == 1 .. MaxCalls

VARIABLES
  pc,      \* the caller's step in test1
  call,    \* the number of the call, and of the child it means by "child"
  child,   \* of each child: what it does
  traced,  \* the children that the caller traces
  news     \* the children whose stop wait has not reported yet

vars == <<pc, call, child, traced, news>>

\* "stopped" at its execl; "halted": gone astray, then stopped by a signal.
States == {"none", "forked", "asked", "stopped", "program", "astray", "halted",
           "zombie", "reaped"}

TypeOK ==
  /\ pc \in {"idle", "wait", "peek", "cont"}
  /\ call \in 0 .. MaxCalls
  /\ child \in [Child -> States]
  /\ traced \subseteq Child
  /\ news \subseteq {c \in Child : child[c] \in {"stopped", "halted"}}

Init ==
  /\ pc = "idle" /\ call = 0
  /\ child = [c \in Child |-> "none"]
  /\ traced = {} /\ news = {}

Become(c, s) == child' = [child EXCEPT ![c] = s]

--------------------------------------------------------------------------------
(* The caller.                                                             *)

\* fork.  When it fails, -1 is not 0 either: the caller goes the same way.
Fork ==
  /\ pc = "idle" /\ call < MaxCalls
  /\ call' = call + 1
  /\ pc' = "wait"
  /\ Become(call + 1, "forked") \/ UNCHANGED child
  /\ UNCHANGED <<traced, news>>

\* Mutant: only stops are waited for.
Reports_StopsOnly(c) == c \in news

\* wait can report c: it has stopped or ended.
Reports(c) == c \in news \/ child[c] = "zombie"

\* A stop is reported once, an end is reported and forgotten.
Wait ==
  /\ pc = "wait"
  /\ \E c \in Child :
       /\ Reports(c)
       /\ news' = news \ {c}
       /\ IF child[c] = "zombie" THEN Become(c, "reaped") ELSE UNCHANGED child
  /\ pc' = "peek"
  /\ UNCHANGED <<call, traced>>

\* Mutant: wait is interrupted, or not called.
WaitFails_Always ==
  /\ pc = "wait"
  /\ pc' = "peek"
  /\ UNCHANGED <<call, child, traced, news>>

\* There is no child at all (ECHILD).
WaitFails ==
  /\ pc = "wait"
  /\ \A c \in Child : child[c] \in {"none", "reaped"}
  /\ pc' = "peek"
  /\ UNCHANGED <<call, child, traced, news>>

\* PT_READ_U: it fails unless the child is stopped, and nobody looks.
Peek ==
  /\ pc = "peek"
  /\ pc' = "cont"
  /\ UNCHANGED <<call, child, traced, news>>

\* PTRACE_CONT: it has an effect on a stopped child only.
Cont ==
  /\ pc = "cont"
  /\ pc' = "idle"
  /\ CASE child[call] = "stopped" -> Become(call, "program")
       [] child[call] = "halted" -> Become(call, "astray")
       [] OTHER -> UNCHANGED child
  /\ news' = news \ {call}
  /\ UNCHANGED <<call, traced>>

Call == Wait \/ WaitFails \/ Peek \/ Cont

--------------------------------------------------------------------------------
(* The child.                                                              *)

\* PTRACE_TRACEME, which may be refused.
TraceMe(c) ==
  /\ child[c] = "forked"
  /\ Become(c, "asked")
  /\ traced' = traced \cup {c} \/ UNCHANGED traced
  /\ UNCHANGED <<pc, call, news>>

\* execl: a traced child is stopped before its first instruction.
Exec(c) ==
  /\ child[c] = "asked"
  /\ IF c \in traced THEN Become(c, "stopped") /\ news' = news \cup {c}
                     ELSE Become(c, "program") /\ UNCHANGED news
  /\ UNCHANGED <<pc, call, traced>>

\* There is no /bin/ls: the child returns from test1.
ExecFails(c) ==
  /\ child[c] = "asked"
  /\ Become(c, "astray")
  /\ UNCHANGED <<pc, call, traced, news>>

\* ls has done its work.
Exit(c) ==
  /\ child[c] = "program"
  /\ Become(c, "zombie")
  /\ UNCHANGED <<pc, call, traced, news>>

\* The copy of the application ends some time, or a signal stops it.
LeaveAstray(c) ==
  /\ child[c] = "astray"
  /\ \/ Become(c, "zombie") /\ UNCHANGED news
     \/ c \in traced /\ Become(c, "halted") /\ news' = news \cup {c}
  /\ UNCHANGED <<pc, call, traced>>

Program(c) == TraceMe(c) \/ Exec(c) \/ Exit(c)

Next ==
  \/ Fork \/ Call
  \/ \E c \in Child : Program(c) \/ ExecFails(c) \/ LeaveAstray(c)

Spec == Init /\ [][Next]_vars

\* The caller and its children are scheduled.  A copy gone astray may run on.
Fairness == WF_vars(Call) /\ \A c \in Child : WF_vars(Program(c) \/ ExecFails(c))

--------------------------------------------------------------------------------
(* Properties.                                                             *)

\* test1 returns, unless a child has gone astray, or the fork failed and the
\* child of an earlier call was left stopped: it waits for that one, in vain.
Returns ==
  pc = "wait" ~>
    \/ pc = "idle"
    \/ \E c \in Child : child[c] \in {"astray", "halted"}
    \/ child[call] = "none" /\ \E c \in 1 .. call - 1 : child[c] = "stopped"
================================================================================
