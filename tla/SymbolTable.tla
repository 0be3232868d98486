------------------------------ MODULE SymbolTable ------------------------------
(***************************************************************************)
(* What a lookup in a loaded library promises: asked for a name, it gives  *)
(* the value of a definition of that name, or NULL when there is none.     *)
(* A name may have several definitions (versions of the symbol).           *)
(***************************************************************************)
CONSTANTS
  Names,    \* names that may be asked for
  NULL,     \* there is no such symbol
  Pending   \* no answer yet

VARIABLES
  defs,     \* defs[n]: the definitions of n in the library that is open
  asked,    \* the name the client asked for
  answer

table == <<defs, asked, answer>>

\* No name has NULL or Pending as a definition.
Init ==
  /\ \A n \in Names : {NULL, Pending} \cap defs[n] = {}
  /\ asked \in Names
  /\ answer = Pending

Answer ==
  /\ answer = Pending
  /\ answer' \in (IF defs[asked] = {} THEN {NULL} ELSE defs[asked])
  /\ UNCHANGED <<defs, asked>>

\* The client asks for the next name.
Ask ==
  /\ answer # Pending
  /\ asked' \in Names
  /\ answer' = Pending
  /\ UNCHANGED defs

Spec == Init /\ [][Answer \/ Ask]_table /\ WF_table(Answer)
================================================================================
