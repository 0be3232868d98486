--------------------------------- MODULE Unwind ---------------------------------
(***************************************************************************)
(* The two walks of the stack: unwind_get (signal/xcc_unwind.c), which the *)
(* backtrace button starts, and unwind_backtrace (ptracer/ptracer.c),      *)
(* which crash_handler_more starts on a stack that may be damaged.         *)
(*                                                                         *)
(* _Unwind_Backtrace calls a callback for one frame after the other, from  *)
(* frame 1 on, until it finds no further frame or the callback ends it.    *)
(* A stack is given by the frame that follows each frame (0: none; on a    *)
(* damaged stack, any) and the frames whose pc dladdr knows.               *)
(***************************************************************************)
EXTENDS Naturals

CONSTANTS
  Frames,  \* bound: the frames are 1 .. Frames
  Limit    \* 10: the walk ends when frame_num exceeds it

Frame == 1 .. Frames

VARIABLES
  follows,    \* the frame after each frame
  known,      \* the frames that dladdr finds in a loaded module
  walk,       \* "unwind_get" or "unwind_backtrace"
  at,         \* the frame to be reported next, 0: no more
  frame_num,  \* unwind_clang_t.frame_num
  reported    \* history: the frames the callback was called for

vars == <<follows, known, walk, at, frame_num, reported>>

TypeOK ==
  /\ follows \in [Frame -> Frame \cup {0}] /\ known \subseteq Frame
  /\ walk \in {"unwind_get", "unwind_backtrace"}
  /\ at \in Frame \cup {0}
  /\ frame_num \in 0 .. Limit + 1
  /\ reported \subseteq Frame

Init ==
  /\ follows \in [Frame -> Frame \cup {0}]
  /\ known \in SUBSET Frame
  /\ walk \in {"unwind_get", "unwind_backtrace"}
  /\ at = 1
  /\ frame_num = 0
  /\ reported = {}

\* The callback returns _URC_END_OF_STACK.
EndsWalk(n) == n > Limit

Report ==
  /\ reported' = reported \cup {at}
  /\ UNCHANGED <<follows, known, walk>>

\* Mutant: unknown frames are counted in a row.
ReportKnown_CountsRows ==
  /\ walk = "unwind_get" /\ at \in known
  /\ at' = follows[at]
  /\ frame_num' = 0
  /\ Report

\* unwind_clang_callback, when dladdr finds a module.
ReportKnown ==
  /\ walk = "unwind_get" /\ at \in known
  /\ at' = follows[at]
  /\ Report /\ UNCHANGED frame_num

\* unwind_clang_callback, when dladdr finds none: the frame is counted.
ReportUnknown ==
  /\ walk = "unwind_get" /\ at \in Frame \ known
  /\ frame_num' = frame_num + 1
  /\ at' = IF EndsWalk(frame_num') THEN 0 ELSE follows[at]
  /\ Report

\* unwind_backtrace_callback never ends the walk.
ReportAny ==
  /\ walk = "unwind_backtrace" /\ at # 0
  /\ at' = follows[at]
  /\ Report /\ UNCHANGED frame_num

Next == ReportKnown \/ ReportUnknown \/ ReportAny

Spec == Init /\ [][Next]_vars
Fairness == WF_vars(Next)

--------------------------------------------------------------------------------
(* Properties.                                                             *)

\* The frames of c lead nowhere else.
Loop(c) == c # {} /\ \A f \in c : follows[f] \in c

\* unwind_get ends on every stack but one that loops through known frames
\* alone, which frame_num does not count (xcc_unwind.c:53); the walk of the
\* crash handler ends on every stack without a loop.
Ends ==
  <>(\/ at = 0
     \/ \E c \in SUBSET reported : Loop(c) /\ (walk = "unwind_get" => c \subseteq known))
================================================================================
