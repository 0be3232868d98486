------------------------------- MODULE MCDtls -------------------------------
(* Patient endpoints in every configuration (a resumed session asks nobody for a
   certificate); endpoints that give up, and a second session, in the plain ones. *)
EXTENDS DtlsHandshake

Configurations ==
  {c \in [cookies : BOOLEAN, resume : BOOLEAN, ticket : BOOLEAN, auth : BOOLEAN,
          patient : BOOLEAN, sessions : {1, 2}] :
     /\ ~(c.resume /\ c.auth)
     /\ ~c.patient => ~c.auth /\ ~c.ticket /\ c.sessions = 1
     /\ c.sessions = 2 => c.cookies /\ ~c.auth /\ ~c.ticket}

=============================================================================
