--------------------------------- MODULE Filter ---------------------------------
(***************************************************************************)
(* What a caller of def or inf relies on: a filter that appends to dest    *)
(* and returns once.  The file is right as far as it goes at all times,    *)
(* and Z_OK means that everything was written: to the file, or to a buffer *)
(* that a failed flush left behind and that ferror tells of.               *)
(***************************************************************************)
EXTENDS Stdio, SequencesExt

CONSTANTS Part(_, _),  \* Part(input, output): output is right as far as it goes
          Whole(_, _)  \* Whole(input, output): output is right and complete

VARIABLES input, dest, result

Running == "none"

Init == dest = Output(<<>>) /\ result = Running

Outcome(in, out, r) ==
  r = "Z_OK" => /\ Whole(in, Content(out))
                /\ out.held # <<>> => out.error

Next ==
  /\ result = Running
  /\ input' = input
  /\ IsPrefix(dest.disk, dest'.disk)
  /\ Part(input, dest'.disk)
  /\ result' # Running => Outcome(input, dest', result')

Spec == Init /\ [][Next]_<<input, dest, result>>
================================================================================
