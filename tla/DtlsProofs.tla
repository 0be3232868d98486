------------------------------ MODULE DtlsProofs ------------------------------
(***************************************************************************)
(* Theorems about the DTLS handshake, for any configurations, any size of  *)
(* the buffer of early messages and any number of timeouts: contexts keep  *)
(* their types, in the first session of the server neither side ever       *)
(* fails, whatever the network loses, repeats and reorders; both sides     *)
(* read and write one handshake, whose end neither reaches without the     *)
(* other, and what one of them waits for the other one keeps.              *)
(*                                                                         *)
(* The configuration fixes the handshake: Transcript is what both sides    *)
(* hash, message by message.  The invariant FirstSession says that each    *)
(* side is at the place of its state in it (Place), keeps a flight of its  *)
(* own messages (FlightInv), holds of the other side only what that may    *)
(* have written (Early), and that so does the network; whatever message    *)
(* has the next number is then the one the state expects, and a Finished   *)
(* holds the hash of its reader.                                           *)
(*                                                                         *)
(* OneInv says who may hold a Finished: in the first session only one      *)
(* whose peer has written it (Answered); in a later one, which a delayed   *)
(* hello starts, the client is past it and the server gets none (Late).    *)
(*                                                                         *)
(* KeptInv says how long a flight is kept: it holds every message from its *)
(* first one on (Whole), who reads has a timer (Timed), whoever writes     *)
(* last knows which message asks for its flight (Asked) and gives it up    *)
(* only when the other side's handshake is over (Needed).                  *)
(***************************************************************************)
EXTENDS DtlsHandshake, SequenceTheorems, TLAPS

--------------------------------------------------------------------------------
(* The handshake as the configuration determines it.                       *)

One(b) == IF b THEN 1 ELSE 0

\* The number of the hello that starts the handshake, and what a certificate
\* of the client and a ticket add to it.
First(c) == One(c.cookies)
Auth(c) == One(c.auth)
Tick(c) == One(c.ticket)

\* What has been hashed, message by message, when the first was number k.
Transcript(c, k) ==
  IF c.resume
  THEN [n \in Nat |->
          IF n = 1 THEN <<"ClientHello", k, 0>>
          ELSE IF n = 2 THEN <<"ServerHello", k, 1>>
          ELSE IF n = 2 + Tick(c) THEN <<"NewSessionTicket", k + 1, 1>>
          ELSE IF n = 3 + Tick(c) THEN <<"Finished", k + 1 + Tick(c), 1>>
          ELSE <<"Finished", k + 1, 1>>]
  ELSE [n \in Nat |->
          IF n = 1 THEN <<"ClientHello", k, 0>>
          ELSE IF n = 2 THEN <<"ServerHello", k, 1>>
          ELSE IF n = 3 THEN <<"Certificate", k + 1, 1>>
          ELSE IF n = 3 + Auth(c) THEN <<"CertificateRequest", k + 2, 1>>
          ELSE IF n = 4 + Auth(c) THEN <<"ServerHelloDone", k + 2 + Auth(c), 1>>
          ELSE IF n = 4 + 2 * Auth(c) THEN <<"Certificate", k + 1, 1>>
          ELSE IF n = 5 + 2 * Auth(c) THEN <<"ClientKeyExchange", k + 1 + Auth(c), 1>>
          ELSE IF n = 5 + 3 * Auth(c) THEN <<"CertificateVerify", k + 3, 1>>
          ELSE IF n = 6 + 3 * Auth(c) THEN <<"Finished", k + 2 + 2 * Auth(c), 1>>
          ELSE IF n = 6 + 3 * Auth(c) + Tick(c) THEN <<"NewSessionTicket", k + 3 + Auth(c), 1>>
          ELSE <<"Finished", k + 3 + Auth(c) + Tick(c), 1>>]
Hash(c, k, n) == [i \in 1 .. n |-> Transcript(c, k)[i]]

\* The messages that each side may ever write, and the records that hold them.
ClientSays(c, m) ==
  \/ m = Message("ClientHello", 0, 0, FALSE, <<>>)
  \/ c.cookies /\ m = Message("ClientHello", 1, 0, TRUE, <<>>)
  \/ ~c.resume /\ c.auth /\ m = Message("Certificate", First(c) + 1, 1, FALSE, <<>>)
  \/ ~c.resume /\ m = Message("ClientKeyExchange", First(c) + 1 + Auth(c), 1, FALSE, <<>>)
  \/ ~c.resume /\ c.auth /\ m = Message("CertificateVerify", First(c) + 3, 1, FALSE, <<>>)
  \/ ~c.resume /\ m = Message("Finished", First(c) + 2 + 2 * Auth(c), 1, FALSE,
                                 Hash(c, First(c), 5 + 3 * Auth(c)))
  \/ c.resume /\ m = Message("Finished", First(c) + 1, 1, FALSE, Hash(c, First(c), 3 + Tick(c)))
ServerSays(c, m) ==
  \/ c.cookies /\ m = Message("HelloVerifyRequest", 0, 1, FALSE, <<>>)
  \/ m = Message("ServerHello", First(c), 1, FALSE, <<>>)
  \/ ~c.resume /\ m = Message("Certificate", First(c) + 1, 1, FALSE, <<>>)
  \/ ~c.resume /\ c.auth /\ m = Message("CertificateRequest", First(c) + 2, 1, FALSE, <<>>)
  \/ ~c.resume /\ m = Message("ServerHelloDone", First(c) + 2 + Auth(c), 1, FALSE, <<>>)
  \/ c.ticket /\ m = Message("NewSessionTicket",
                                IF c.resume THEN First(c) + 1 ELSE First(c) + 3 + Auth(c), 1, FALSE, <<>>)
  \/ ~c.resume /\ m = Message("Finished", First(c) + 3 + Auth(c) + Tick(c), 1, FALSE,
                                 Hash(c, First(c), 6 + 3 * Auth(c) + Tick(c)))
  \/ c.resume /\ m = Message("Finished", First(c) + 1 + Tick(c), 1, FALSE, Hash(c, First(c), 2 + Tick(c)))
Says(c, e, m) == IF e = "client" THEN ClientSays(c, m) ELSE ServerSays(c, m)

Sends(c, e, r) ==
  /\ r.from = e
  /\ \/ r.epoch = 0 /\ r.key = 0
        /\ (r.msg = ChangeCipherSpec \/ (Says(c, e, r.msg) /\ r.msg.type # "Finished"))
     \/ r.epoch = 1 /\ r.key = 1
        /\ (r.msg = ApplicationData \/ (Says(c, e, r.msg) /\ r.msg.type = "Finished"))

--------------------------------------------------------------------------------
(* Where each side is in it.                                               *)

Hello == {"CLIENT_HELLO", "SERVER_HELLO"}
Closed == {"HANDSHAKE_WRAPUP", "HANDSHAKE_OVER"}

ClientStates(c) ==
  Hello \cup {"SERVER_CHANGE_CIPHER_SPEC", "SERVER_FINISHED"} \cup Closed
    \cup (IF c.ticket THEN {"NEW_SESSION_TICKET"} ELSE {})
    \cup (IF c.resume THEN {"CLIENT_CHANGE_CIPHER_SPEC"}
          ELSE {"SERVER_CERTIFICATE", "CERTIFICATE_REQUEST", "SERVER_HELLO_DONE",
                "CLIENT_CERTIFICATE"})
ServerStates(c) ==
  Hello \cup {"CLIENT_CHANGE_CIPHER_SPEC", "CLIENT_FINISHED"} \cup Closed
    \cup (IF c.resume THEN {} ELSE {"CLIENT_KEY_EXCHANGE", "SERVER_CHANGE_CIPHER_SPEC"})
    \cup (IF ~c.resume /\ c.auth THEN {"CLIENT_CERTIFICATE", "CERTIFICATE_VERIFY"} ELSE {})

\* How many messages the client has read and written in a state, from number k.
ClientIn(c, state, k) ==
  IF state \in Hello THEN k
  ELSE IF state = "SERVER_CERTIFICATE" THEN k + 1
  ELSE IF state = "CERTIFICATE_REQUEST" THEN k + 2
  ELSE IF state = "SERVER_HELLO_DONE" THEN k + 3
  ELSE IF state = "CLIENT_CERTIFICATE" THEN k + 3 + Auth(c)
  ELSE (IF c.resume THEN k + 1 ELSE k + 3 + Auth(c))
       + (IF state = "NEW_SESSION_TICKET" THEN 0
          ELSE IF state \in {"SERVER_CHANGE_CIPHER_SPEC", "SERVER_FINISHED"} THEN Tick(c)
          ELSE Tick(c) + 1)
ClientHasFinished(c, state) ==
  IF c.resume THEN state \in Closed
  ELSE state \in {"NEW_SESSION_TICKET", "SERVER_CHANGE_CIPHER_SPEC", "SERVER_FINISHED"} \cup Closed
ClientOut(c, state, k) ==
  IF state = "CLIENT_HELLO" THEN k
  ELSE IF ~ClientHasFinished(c, state) THEN k + 1
  ELSE IF c.resume THEN k + 2 ELSE k + 3 + 2 * Auth(c)

ServerIn(c, state, k) ==
  IF state = "CLIENT_HELLO" THEN 0
  ELSE IF state \in {"SERVER_HELLO", "CLIENT_CERTIFICATE"} THEN k + 1
  ELSE IF state = "CLIENT_KEY_EXCHANGE" THEN k + 1 + Auth(c)
  ELSE IF state = "CERTIFICATE_VERIFY" THEN k + 3
  ELSE (IF c.resume THEN k + 1 ELSE k + 2 + 2 * Auth(c))
       + (IF state \in {"CLIENT_CHANGE_CIPHER_SPEC", "CLIENT_FINISHED"} THEN 0 ELSE 1)
ServerHasFinished(c, state) == IF c.resume THEN state \notin Hello ELSE state \in Closed
ServerOut(c, state, k) ==
  IF state \in Hello THEN k
  ELSE IF c.resume THEN k + 2 + Tick(c)
  ELSE IF state \in Closed THEN k + 4 + Auth(c) + Tick(c) ELSE k + 3 + Auth(c)

HasRead(c, e, state) ==
  IF e = "client" THEN state \in {"SERVER_FINISHED", "CLIENT_CHANGE_CIPHER_SPEC"} \cup Closed
  ELSE state \in {"CLIENT_FINISHED", "SERVER_CHANGE_CIPHER_SPEC"} \cup Closed
HasWritten(c, e, state) == IF e = "client" THEN ClientHasFinished(c, state) ELSE ServerHasFinished(c, state)

\* The flight of p is there as long as it may be asked for, and holds Finished
\* exactly if the epoch has changed.
FlightInv(c, e, p) ==
  /\ \A i \in DOMAIN p.flight : p.flight[i] = ChangeCipherSpec \/ Says(c, e, p.flight[i])
  /\ HasFinished(p) => p.out_epoch = 1
  /\ p.out_epoch = 1 => p.flight = <<>> \/ HasFinished(p)
  /\ p.state \in Reads[e] \/ (p.state = "HANDSHAKE_OVER" /\ p.handshake) => p.flight # <<>>

\* Its numbers, its epochs and its hash are those of its state.
Place(c, e, p) ==
  LET k == One(p.cookie) IN
  /\ p.cookie => c.cookies
  /\ p.state \in Hello \/ p.cookie = c.cookies
  /\ e = "client" => /\ p.state \in ClientStates(c)
                     /\ p.in_msg_seq = ClientIn(c, p.state, k)
                     /\ p.out_msg_seq = ClientOut(c, p.state, k)
                     /\ p.session = One(p.state \notin Hello)
  /\ e = "server" => /\ p.state \in ServerStates(c)
                     /\ p.in_msg_seq = ServerIn(c, p.state, k)
                     /\ p.out_msg_seq = ServerOut(c, p.state, k)
                     /\ p.session = 1
                     /\ p.state = "CLIENT_HELLO" => ~p.cookie
  /\ p.in_epoch = One(HasRead(c, e, p.state)) /\ p.out_epoch = One(HasWritten(c, e, p.state))
  /\ p.alt_epoch = 0
  /\ p.checksum = Hash(c, k, p.in_msg_seq + p.out_msg_seq - 2 * k)

\* What waits to be read is what the peer may have written.
Early(c, e, p) ==
  /\ \A m \in p.hs : Says(c, Peer(e), m)
  /\ \A r \in p.future_record : Sends(c, Peer(e), r)
  /\ p.keep_current_message =
       IF e = "client" /\ p.state = "SERVER_HELLO_DONE" /\ ~c.auth
       THEN <<Message("ServerHelloDone", First(c) + 2, 1, FALSE, <<>>)>> ELSE <<>>

\* What the client remembers of the server's flight.
Remembered(c, e, p) ==
  e = "client" =>
    /\ p.state \notin Hello /\ ~c.resume /\ ~ClientHasFinished(c, p.state) =>
         p.new_session_ticket = c.ticket
    /\ p.state \in {"SERVER_HELLO_DONE", "CLIENT_CERTIFICATE"} => p.client_auth = c.auth
    /\ p.state \in Hello \cup {"SERVER_CERTIFICATE", "CERTIFICATE_REQUEST"} => ~p.client_auth

EndpointInv(c, e, p) ==
  /\ p.ret \in {"ok", "timeout"}
  /\ Place(c, e, p) /\ FlightInv(c, e, p) /\ Early(c, e, p) /\ Remembered(c, e, p)

\* Until the server has answered, only hellos are under way.
EarlyInv ==
  ssl["server"].state \in Hello =>
    /\ ssl["client"].state \in Hello
    /\ \A i \in DOMAIN ssl["client"].flight : ssl["client"].flight[i].type = "ClientHello"
    /\ \A r \in net : r.msg.type = IF r.from = "client" THEN "ClientHello" ELSE "HelloVerifyRequest"
    /\ \A e \in Endpoints : ssl[e].future_record = {}
    /\ ssl["client"].hs = {} /\ ssl["server"].flight = <<>>

--------------------------------------------------------------------------------
(* Types.                                                                  *)

Types == {"ChangeCipherSpec", "ApplicationData", "ClientHello", "HelloVerifyRequest", "ServerHello",
          "Certificate", "CertificateRequest", "ServerHelloDone", "ClientKeyExchange",
          "CertificateVerify", "NewSessionTicket", "Finished"}
States == {"CLIENT_HELLO", "SERVER_HELLO", "SERVER_CERTIFICATE", "CERTIFICATE_REQUEST",
           "SERVER_HELLO_DONE", "CLIENT_CERTIFICATE", "CLIENT_KEY_EXCHANGE", "CERTIFICATE_VERIFY",
           "NEW_SESSION_TICKET", "CLIENT_CHANGE_CIPHER_SPEC", "CLIENT_FINISHED",
           "SERVER_CHANGE_CIPHER_SPEC", "SERVER_FINISHED", "HANDSHAKE_WRAPUP", "HANDSHAKE_OVER"}
Returns == {"ok", "fatal", "null flight", "timeout"}
Digests == Types \X Nat \X Nat
Messages == [type : Types, seq : Nat, session : Nat, cookie : BOOLEAN, hash : Seq(Digests)]
Records == [from : Endpoints, epoch : Nat, key : Nat, msg : Messages]
Contexts ==
  [state : States, session : Nat, ret : Returns,
   out_msg_seq : Nat, in_msg_seq : Nat, in_flight_start_seq : Nat,
   flight : Seq(Messages), retransmit_timeout : Nat, timer : BOOLEAN,
   in_epoch : Nat, out_epoch : Nat, alt_epoch : Nat,
   hs : SUBSET Messages, seen_ccs : BOOLEAN, future_record : SUBSET Records,
   keep_current_message : Seq(Messages), checksum : Seq(Digests),
   cookie : BOOLEAN, client_auth : BOOLEAN, new_session_ticket : BOOLEAN, handshake : BOOLEAN]

TypeOK ==
  /\ conf \in Confs
  /\ ssl \in [Endpoints -> Contexts]
  /\ net \in SUBSET Records

\* The empty sequence is one of anything.
LEMMA Empties == <<>> \in Seq(Messages) /\ <<>> \in Seq(Digests)
OBVIOUS

\* A configuration is made of Booleans.
LEMMA ConfTyping ==
  ASSUME NEW c \in Confs
  PROVE  /\ c.cookies \in BOOLEAN /\ c.resume \in BOOLEAN /\ c.ticket \in BOOLEAN
         /\ c.auth \in BOOLEAN /\ c.patient \in BOOLEAN /\ c.sessions \in Nat
BY HandshakeAssumption

\* What the parts of a configuration count.
LEMMA Numbers ==
  ASSUME NEW c \in Confs
  PROVE  /\ First(c) \in {0, 1} /\ Auth(c) \in {0, 1} /\ Tick(c) \in {0, 1}
         /\ c.cookies <=> First(c) = 1
         /\ c.auth <=> Auth(c) = 1
         /\ c.ticket <=> Tick(c) = 1
BY ConfTyping DEF First, Auth, Tick, One

\* What a message is, and what of it is hashed.
LEMMA MessageTyping ==
  ASSUME NEW type \in Types, NEW seq \in Nat, NEW session \in Nat, NEW cookie \in BOOLEAN,
         NEW hash \in Seq(Digests)
  PROVE  /\ Message(type, seq, session, cookie, hash) \in Messages
         /\ Digest(Message(type, seq, session, cookie, hash)) = <<type, seq, session>>
BY DEF Message, Messages, Digest

\* What is hashed of a message has its type.
LEMMA DigestTyping ==
  ASSUME NEW m \in Messages PROVE Digest(m) \in Digests
BY DEF Messages, Digest, Digests

\* The messages without a number.
LEMMA PlainMessages ==
  /\ ChangeCipherSpec \in Messages /\ ApplicationData \in Messages
  /\ ChangeCipherSpec.type = "ChangeCipherSpec" /\ ApplicationData.type = "ApplicationData"
<1>1. ChangeCipherSpec \in Messages /\ ApplicationData \in Messages
  <2>1. "ChangeCipherSpec" \in Types /\ "ApplicationData" \in Types
    BY DEF Types
  <2>2. 0 \in Nat
    OBVIOUS
  <2>3. FALSE \in BOOLEAN
    OBVIOUS
  <2> QED
    BY <2>1, <2>2, <2>3, MessageTyping, Empties DEF ChangeCipherSpec, ApplicationData
<1> QED
  BY <1>1 DEF ChangeCipherSpec, ApplicationData, Message

\* A context that has been reset has its types.
LEMMA ResetTyping ==
  ASSUME NEW n \in Nat PROVE Reset(n) \in Contexts
<1>1. 0 \in Nat
  OBVIOUS
<1>2. TRUE \in BOOLEAN /\ FALSE \in BOOLEAN
  OBVIOUS
<1>3. {} \in SUBSET Messages /\ {} \in SUBSET Records
  BY Zenon
<1>4. "ok" \in Returns /\ "CLIENT_HELLO" \in States
  BY DEF Returns, States
<1> QED
  BY <1>1, <1>2, <1>3, <1>4, Empties, Zenon DEF Contexts, Reset

--------------------------------------------------------------------------------
(* What the helpers make of a context.                                     *)

\* So has one with its epochs swapped,
LEMMA SwapTyping ==
  ASSUME NEW p \in Contexts PROVE SwapEpochs(p) \in Contexts
BY DEF Contexts, SwapEpochs

\* one whose flight has been sent,
LEMMA FlightTransmittedTyping ==
  ASSUME NEW p \in Contexts PROVE FlightTransmitted(p) \in Contexts
<1>1. ASSUME NEW q \in Contexts, NEW b \in BOOLEAN PROVE [q EXCEPT !.timer = b] \in Contexts
  BY DEF Contexts
<1>2. (IF HasFinished(p) THEN p ELSE SwapEpochs(p)) \in Contexts
  BY SwapTyping
<1>3. ASSUME NEW q \in Contexts
      PROVE  (IF p.state = "HANDSHAKE_OVER" THEN q.timer ELSE p.retransmit_timeout # 0) \in BOOLEAN
  <2>1. q.timer \in BOOLEAN /\ (p.retransmit_timeout # 0) \in BOOLEAN
    BY DEF Contexts
  <2> QED
    BY <2>1
<1> QED
  BY <1>1, <1>2, <1>3 DEF FlightTransmitted

\* one that has read a flight,
LEMMA RecvFlightCompletedTyping ==
  ASSUME NEW p \in Contexts PROVE RecvFlightCompleted(p) \in Contexts
BY Empties DEF Contexts, RecvFlightCompleted

\* one that has read a message,
LEMMA UpdateTyping ==
  ASSUME NEW p \in Contexts, NEW m \in Messages
  PROVE  UpdateHandshakeStatus(p, m) \in Contexts
<1>1. Append(p.checksum, Digest(m)) \in Seq(Digests)
  <2>1. p.checksum \in Seq(Digests)
    BY DEF Contexts
  <2> QED
    BY <2>1, DigestTyping
<1>2. {n \in p.hs : n.seq # p.in_msg_seq} \in SUBSET Messages
  BY DEF Contexts
<1>3. p.in_msg_seq + 1 \in Nat
  BY DEF Contexts
<1>4. ASSUME NEW a \in Seq(Digests), NEW b \in SUBSET Messages, NEW n \in Nat
      PROVE  [p EXCEPT !.checksum = a, !.in_msg_seq = n, !.hs = b] \in Contexts
  BY DEF Contexts
<1> QED
  BY <1>1, <1>2, <1>3, <1>4 DEF UpdateHandshakeStatus

\* one that has written a message,
LEMMA WriteMessageTyping ==
  ASSUME NEW p \in Contexts, NEW type \in Types
  PROVE  WriteMessage(p, type) \in Contexts
<1>1. ASSUME NEW m \in Messages PROVE Append(p.flight, m) \in Seq(Messages)
  <2>1. p.flight \in Seq(Messages)
    BY DEF Contexts
  <2> QED
    BY <2>1
<1>2. CASE type = "ChangeCipherSpec"
  <2>1. ASSUME NEW f \in Seq(Messages) PROVE [p EXCEPT !.flight = f] \in Contexts
    BY DEF Contexts
  <2> QED
    BY <1>1, <1>2, <2>1, PlainMessages DEF WriteMessage
<1>3. CASE type # "ChangeCipherSpec"
  <2> DEFINE m == Message(type, p.out_msg_seq, p.session, type = "ClientHello" /\ p.cookie,
                          IF type = "Finished" THEN p.checksum ELSE <<>>)
             q == [p EXCEPT !.flight = Append(@, m), !.out_msg_seq = @ + 1,
                            !.checksum = Append(@, Digest(m))]
  <2>1. m \in Messages
    <3>1. p.out_msg_seq \in Nat /\ p.session \in Nat /\ p.checksum \in Seq(Digests)
      BY DEF Contexts
    <3>2. (type = "ClientHello" /\ p.cookie) \in BOOLEAN
      BY DEF Contexts
    <3>3. (IF type = "Finished" THEN p.checksum ELSE <<>>) \in Seq(Digests)
      BY <3>1, Empties
    <3> QED
      BY <3>1, <3>2, <3>3, MessageTyping
  <2>2. Append(p.checksum, Digest(m)) \in Seq(Digests)
    <3>1. p.checksum \in Seq(Digests)
      BY DEF Contexts
    <3> QED
      BY <2>1, <3>1, DigestTyping
  <2>3. p.out_msg_seq + 1 \in Nat /\ p.out_epoch \in Nat /\ p.out_epoch + 1 \in Nat
    BY DEF Contexts
  <2>4. ASSUME NEW f \in Seq(Messages), NEW n \in Nat, NEW h \in Seq(Digests)
        PROVE  [p EXCEPT !.flight = f, !.out_msg_seq = n, !.checksum = h] \in Contexts
    BY DEF Contexts
  <2>5. q \in Contexts
    BY <1>1, <2>1, <2>2, <2>3, <2>4
  <2>6. ASSUME NEW r \in Contexts, NEW a \in Nat, NEW o \in Nat
        PROVE  [r EXCEPT !.alt_epoch = a, !.out_epoch = o] \in Contexts
    BY DEF Contexts
  <2>7. WriteMessage(p, type) =
          IF type = "Finished" THEN [q EXCEPT !.alt_epoch = p.out_epoch, !.out_epoch = p.out_epoch + 1]
          ELSE q
    BY <1>3 DEF WriteMessage
  <2> HIDE DEF q
  <2> QED
    BY <2>3, <2>5, <2>6, <2>7
<1> QED
  BY <1>2, <1>3

\* one in another state,
LEMMA GotoTyping ==
  ASSUME NEW p \in Contexts, NEW state \in States PROVE Goto(p, state) \in Contexts
BY DEF Contexts, Goto

\* one that has failed,
LEMMA FatalTyping ==
  ASSUME NEW p \in Contexts PROVE Fatal(p) \in Contexts
BY DEF Contexts, Fatal, Returns

\* and one that has found what it expects or failed.
LEMMA ExpectTyping ==
  ASSUME NEW p \in Contexts, NEW m, NEW type, NEW q \in Contexts
  PROVE  Expect(p, m, type, q) \in Contexts
BY FatalTyping DEF Expect

\* All states are states.
LEMMA StateNames ==
  /\ Hello \cup CcsStates \cup FinishedStates \cup Closed \subseteq States
  /\ Reads["client"] \cup Reads["server"] \subseteq States
  /\ {"SERVER_CERTIFICATE", "CERTIFICATE_REQUEST", "SERVER_HELLO_DONE", "CLIENT_CERTIFICATE",
      "CLIENT_KEY_EXCHANGE", "CERTIFICATE_VERIFY", "NEW_SESSION_TICKET"} \subseteq States
BY DEF Hello, CcsStates, FinishedStates, Closed, States, Reads

\* The states that read.
LEMMA ReadingStates ==
  ASSUME NEW e \in Endpoints, NEW state \in Reads[e]
  PROVE  state \in {"SERVER_HELLO", "SERVER_CERTIFICATE", "CLIENT_CERTIFICATE", "CERTIFICATE_REQUEST",
                    "SERVER_HELLO_DONE", "CLIENT_KEY_EXCHANGE", "CERTIFICATE_VERIFY",
                    "NEW_SESSION_TICKET"} \cup CcsStates \cup FinishedStates
BY DEF Endpoints, Reads, CcsStates, FinishedStates

\* The parse function of each state.
LEMMA ParseCases ==
  ASSUME NEW e, NEW p, NEW m
  PROVE  /\ p.state = "SERVER_HELLO" => Parse(e, p, m) = ParseServerHello(p, m)
         /\ p.state \in {"SERVER_CERTIFICATE", "CLIENT_CERTIFICATE"}
              => Parse(e, p, m) = ParseCertificate(e, p, m)
         /\ p.state = "CERTIFICATE_REQUEST" => Parse(e, p, m) = ParseCertificateRequest(p, m)
         /\ p.state = "SERVER_HELLO_DONE" => Parse(e, p, m) = ParseServerHelloDone(p, m)
         /\ p.state = "CLIENT_KEY_EXCHANGE" => Parse(e, p, m) = ParseClientKeyExchange(p, m)
         /\ p.state = "CERTIFICATE_VERIFY" => Parse(e, p, m) = ParseCertificateVerify(p, m)
         /\ p.state = "NEW_SESSION_TICKET" => Parse(e, p, m) = ParseNewSessionTicket(p, m)
         /\ p.state \in CcsStates => Parse(e, p, m) = ParseChangeCipherSpec(e, p, m)
         /\ p.state \in FinishedStates => Parse(e, p, m) = ParseFinished(e, p, m, ssl[e].checksum)
BY DEF Parse, CcsStates, FinishedStates

\* What is parsed leaves a context.
LEMMA ParseTyping ==
  ASSUME conf \in Confs, NEW e \in Endpoints, NEW p \in Contexts, p.state \in Reads[e],
         NEW m \in Messages
  PROVE  Parse(e, p, m) \in Contexts
<1> USE DEF States
<1>1. CASE p.state = "SERVER_HELLO"
  <2>1. ParseHelloVerifyRequest(p) \in Contexts
    <3>1. [p EXCEPT !.state = "CLIENT_HELLO", !.checksum = <<>>, !.cookie = TRUE] \in Contexts
      BY Empties DEF Contexts
    <3> QED
      BY <3>1, RecvFlightCompletedTyping DEF ParseHelloVerifyRequest
  <2>2. ASSUME NEW state \in States
        PROVE  [p EXCEPT !.session = m.session, !.new_session_ticket = conf.ticket,
                         !.state = state] \in Contexts
    <3>1. m.session \in Nat
      BY DEF Messages
    <3>2. conf.ticket \in BOOLEAN
      BY ConfTyping
    <3>3. ASSUME NEW n \in Nat, NEW b \in BOOLEAN
          PROVE  [p EXCEPT !.session = n, !.new_session_ticket = b, !.state = state] \in Contexts
      BY DEF Contexts
    <3> QED
      BY <3>1, <3>2, <3>3
  <2>3. (IF ~conf.resume THEN "SERVER_CERTIFICATE"
         ELSE IF conf.ticket THEN "NEW_SESSION_TICKET" ELSE "SERVER_CHANGE_CIPHER_SPEC") \in States
    OBVIOUS
  <2>4. ParseServerHello(p, m) \in Contexts
    BY <2>1, <2>2, <2>3, ExpectTyping DEF ParseServerHello
  <2> QED
    BY <1>1, <2>4, ParseCases
<1>2. CASE p.state \in {"SERVER_CERTIFICATE", "CLIENT_CERTIFICATE"}
  BY <1>2, ExpectTyping, GotoTyping, ParseCases DEF ParseCertificate
<1>3. CASE p.state = "CERTIFICATE_REQUEST"
  <2>1. <<m>> \in Seq(Messages)
    OBVIOUS
  <2>2. [p EXCEPT !.client_auth = TRUE] \in Contexts
    BY DEF Contexts
  <2>3. ASSUME NEW f \in Seq(Messages) PROVE [p EXCEPT !.keep_current_message = f] \in Contexts
    BY DEF Contexts
  <2>4. ASSUME NEW q \in Contexts PROVE [q EXCEPT !.state = "SERVER_HELLO_DONE"] \in Contexts
    BY DEF Contexts
  <2>5. Parse(e, p, m) = ParseCertificateRequest(p, m)
    BY <1>3, ParseCases
  <2>6. CASE m.type = "CertificateRequest"
    <3>1. ParseCertificateRequest(p, m)
            = [[p EXCEPT !.client_auth = TRUE] EXCEPT !.state = "SERVER_HELLO_DONE"]
      BY <2>6 DEF ParseCertificateRequest
    <3>2. [[p EXCEPT !.client_auth = TRUE] EXCEPT !.state = "SERVER_HELLO_DONE"] \in Contexts
      BY <2>2, <2>4, Zenon
    <3> QED
      BY <2>5, <3>1, <3>2, Zenon
  <2>7. CASE m.type # "CertificateRequest"
    <3>1. ParseCertificateRequest(p, m)
            = [[p EXCEPT !.keep_current_message = <<m>>] EXCEPT !.state = "SERVER_HELLO_DONE"]
      BY <2>7 DEF ParseCertificateRequest
    <3>2. [[p EXCEPT !.keep_current_message = <<m>>] EXCEPT !.state = "SERVER_HELLO_DONE"] \in Contexts
      BY <2>1, <2>3, <2>4, Zenon
    <3> QED
      BY <2>5, <3>1, <3>2, Zenon
  <2> QED
    BY <2>6, <2>7
<1>4. CASE p.state = "SERVER_HELLO_DONE"
  BY <1>4, ExpectTyping, GotoTyping, RecvFlightCompletedTyping, ParseCases DEF ParseServerHelloDone
<1>5. CASE p.state = "CLIENT_KEY_EXCHANGE"
  BY <1>5, ExpectTyping, GotoTyping, ParseCases DEF ParseClientKeyExchange
<1>6. CASE p.state = "CERTIFICATE_VERIFY"
  BY <1>6, ExpectTyping, GotoTyping, ParseCases DEF ParseCertificateVerify
<1>7. CASE p.state = "NEW_SESSION_TICKET"
  <2>1. [p EXCEPT !.new_session_ticket = FALSE, !.state = "SERVER_CHANGE_CIPHER_SPEC"] \in Contexts
    BY DEF Contexts
  <2>2. ParseNewSessionTicket(p, m) \in Contexts
    BY <2>1, FatalTyping DEF ParseNewSessionTicket, Expect
  <2> QED
    BY <1>7, <2>2, ParseCases
<1>8. CASE p.state \in CcsStates
  <2>1. p.in_epoch + 1 \in Nat
    BY DEF Contexts
  <2>2. ASSUME NEW n \in Nat, NEW state \in States
        PROVE [p EXCEPT !.in_epoch = n, !.state = state] \in Contexts
    BY DEF Contexts
  <2>3. ParseChangeCipherSpec(e, p, m) \in Contexts
    BY <2>1, <2>2, FatalTyping DEF ParseChangeCipherSpec, Expect
  <2> QED
    BY <1>8, <2>3, ParseCases
<1>9. CASE p.state \in FinishedStates
  BY <1>9, FatalTyping, GotoTyping, RecvFlightCompletedTyping
     , ParseCases DEF ParseFinished, FinishedStates
<1> QED
  BY <1>1, <1>2, <1>3, <1>4, <1>5, <1>6, <1>7, <1>8, <1>9, ReadingStates

\* So does a message that is buffered,
LEMMA BufferTyping ==
  ASSUME NEW p \in Contexts, NEW m \in Messages PROVE BufferMessage(p, m) \in Contexts
<1>1. p.hs \cup {m} \in SUBSET Messages
  BY DEF Contexts
<1>2. ASSUME NEW h \in SUBSET Messages PROVE [p EXCEPT !.hs = h] \in Contexts
  BY DEF Contexts
<1>3. [p EXCEPT !.seen_ccs = TRUE] \in Contexts
  BY DEF Contexts
<1> QED
  BY <1>1, <1>2, <1>3 DEF BufferMessage

\* and the end of the handshake.
LEMMA FreeTyping ==
  ASSUME NEW p \in Contexts PROVE FreeHandshake(p) \in Contexts
BY Empties DEF Contexts, FreeHandshake

\* What is sent is a record.
LEMMA RecordTyping ==
  ASSUME NEW e \in Endpoints, NEW p \in Contexts, NEW m \in Messages
  PROVE  Record(e, p, m) \in Records
<1>1. p.out_epoch \in Nat /\ (IF p.out_epoch = 0 THEN 0 ELSE p.session) \in Nat
  BY DEF Contexts
<1> QED
  BY <1>1 DEF Record, Records

\* So is what is sent of a flight.
LEMMA FlightRecordsTyping ==
  ASSUME NEW e \in Endpoints, NEW p \in Contexts
  PROVE  FlightRecords(e, p) \in SUBSET Records
<1>1. \A m \in ToSet(p.flight) : m \in Messages
  <2>1. p.flight \in Seq(Messages)
    BY DEF Contexts
  <2> QED
    BY <2>1, ElementOfSeq DEF ToSet
<1>2. ASSUME NEW m \in ToSet(p.flight)
      PROVE  (IF m.type = "Finished" THEN SwapEpochs(SwapEpochs(p)) ELSE SwapEpochs(p)) \in Contexts
  BY SwapTyping
<1> QED
  BY <1>1, <1>2, RecordTyping DEF FlightRecords

\* A flight that is written leaves a context.
LEMMA SendFlightCompletedTyping ==
  ASSUME NEW p \in Contexts PROVE SendFlightCompleted(p) \in Contexts
BY DEF Contexts, SendFlightCompleted

\* So does a ClientHello.
LEMMA ClientHelloTyping ==
  ASSUME conf \in Confs, NEW p \in Contexts, NEW m \in Messages
  PROVE  ClientHelloParsed(p, m) \in Contexts
<1>1. m.seq \in Nat /\ m.seq + 1 \in Nat /\ <<Digest(m)>> \in Seq(Digests)
  BY DigestTyping DEF Messages
<1>2. m.cookie \in BOOLEAN /\ conf.ticket \in BOOLEAN
  BY ConfTyping DEF Messages
<1>3. ASSUME NEW a \in Nat, NEW b \in Nat, NEW h \in Seq(Digests), NEW k \in BOOLEAN,
             NEW t \in BOOLEAN
      PROVE  [p EXCEPT !.out_msg_seq = a, !.in_msg_seq = b, !.checksum = h, !.cookie = k,
                       !.new_session_ticket = t, !.state = "SERVER_HELLO"] \in Contexts
  BY DEF Contexts, States
<1> QED
  BY <1>1, <1>2, <1>3, RecvFlightCompletedTyping DEF ClientHelloParsed

--------------------------------------------------------------------------------
(* Type correctness.                                                       *)

\* Setting a context keeps the types.
LEMMA SetContextTypes ==
  ASSUME TypeOK, NEW e \in Endpoints, NEW q \in Contexts, SetContext(e, q)
  PROVE  TypeOK'
BY DEF TypeOK, SetContext

\* So does sending a flight,
LEMMA FlightTransmitTypes ==
  ASSUME TypeOK, NEW e \in Endpoints, NEW q \in Contexts, FlightTransmit(e, q)
  PROVE  TypeOK'
<1>1. CASE q.flight = <<>>
  <2>1. [q EXCEPT !.ret = "null flight"] \in Contexts
    BY DEF Contexts, Returns
  <2> QED
    BY <1>1, <2>1 DEF TypeOK, FlightTransmit
<1>2. CASE q.flight # <<>>
  <2>1. FlightTransmitted(q) \in Contexts /\ FlightRecords(e, q) \in SUBSET Records
    BY FlightTransmittedTyping, FlightRecordsTyping
  <2> QED
    BY <1>2, <2>1 DEF TypeOK, FlightTransmit
<1> QED
  BY <1>1, <1>2

\* and writing one.
LEMMA WriteFlightTypes ==
  ASSUME TypeOK, NEW e \in Endpoints, NEW q \in Contexts, NEW state \in States,
         WriteFlight(e, q, state)
  PROVE  TypeOK'
<1>1. [SendFlightCompleted(q) EXCEPT !.state = state] \in Contexts
  BY SendFlightCompletedTyping, GotoTyping DEF Goto
<1> QED
  BY <1>1, FlightTransmitTypes DEF WriteFlight

\* Whoever reads is in one of the states that read, or done.
LEMMA HandleMessageTypes ==
  ASSUME TypeOK, NEW e \in Endpoints, NEW p \in Contexts, NEW m \in Messages,
         p.state \in Reads[e] \cup {"HANDSHAKE_OVER"}, HandleMessage(e, p, m)
  PROVE  TypeOK'
<1>1. CASE Passes(p, m) /\ SetContext(e, Parse(e, UpdateHandshakeStatus(p, m), m))
  <2>1. m.type = "ChangeCipherSpec" => p.state \in CcsStates
    BY <1>1 DEF Passes
  <2>2. p.state # "HANDSHAKE_OVER"
    BY <1>1, <2>1 DEF Passes, CcsStates
  <2>3. UpdateHandshakeStatus(p, m).state = p.state
    BY DEF UpdateHandshakeStatus, Contexts
  <2>4. Parse(e, UpdateHandshakeStatus(p, m), m) \in Contexts
    BY <2>2, <2>3, UpdateTyping, ParseTyping DEF TypeOK
  <2> QED
    BY <1>1, <2>4, SetContextTypes
<1>2. CASE ComesEarly(p, m) /\ SetContext(e, BufferMessage(p, m))
  BY <1>2, BufferTyping, SetContextTypes
<1>3. CASE AsksAgain(p, m) /\ FlightTransmit(e, p)
  BY <1>3, FlightTransmitTypes
<1>4. CASE SetContext(e, FreeHandshake(p))
  BY <1>4, FreeTyping, SetContextTypes
<1> QED
  BY <1>1, <1>2, <1>3, <1>4 DEF HandleMessage

\* A record that is read keeps the types.
LEMMA HandleRecordTypes ==
  ASSUME TypeOK, NEW e \in Endpoints, NEW p \in Contexts, NEW r \in Records,
         p.state \in Reads[e] \cup {"HANDSHAKE_OVER"}, HandleRecord(e, p, r)
  PROVE  TypeOK'
<1>1. r.msg \in Messages
  BY DEF Records
<1> QED
  BY <1>1, HandleMessageTypes, FatalTyping, SetContextTypes DEF HandleRecord

\* What a context holds has its types.
LEMMA ContextOf ==
  ASSUME TypeOK, NEW e \in Endpoints
  PROVE  /\ ssl[e] \in Contexts
         /\ \A m \in ssl[e].hs : m \in Messages
         /\ \A r \in ssl[e].future_record : r \in Records
         /\ ssl[e].keep_current_message # <<>> => Head(ssl[e].keep_current_message) \in Messages
<1>1. ssl[e] \in Contexts
  BY DEF TypeOK
<1>2. ssl[e].keep_current_message \in Seq(Messages)
  BY <1>1 DEF Contexts
<1> QED
  BY <1>1, <1>2 DEF Contexts

\* Every step that reads keeps the types.
LEMMA ReadTypes ==
  ASSUME TypeOK, NEW e \in Endpoints,
         ReadKept(e) \/ ReadBufferedMessage(e) \/ ReadBufferedRecord(e) \/ ReadRecord(e)
           \/ BufferFutureRecord(e)
  PROVE  TypeOK'
<1> DEFINE p == ssl[e]
<1>1. p \in Contexts
  BY ContextOf
<1>2. p.state \in Reads[e] \cup {"HANDSHAKE_OVER"}
  BY DEF ReadKept, ReadBufferedMessage, ReadBufferedRecord, ReadRecord, BufferFutureRecord, Waiting,
         Over
<1>3. CASE ReadKept(e)
  <2>1. [p EXCEPT !.keep_current_message = <<>>] \in Contexts
    BY <1>1, Empties DEF Contexts
  <2>2. [p EXCEPT !.keep_current_message = <<>>].state \in Reads[e]
    BY <1>1, <1>3 DEF Contexts, ReadKept, Waiting
  <2>3. Head(p.keep_current_message) \in Messages
    BY <1>3, ContextOf DEF ReadKept
  <2>4. Parse(e, [p EXCEPT !.keep_current_message = <<>>], Head(p.keep_current_message)) \in Contexts
    BY <2>1, <2>2, <2>3, ParseTyping DEF TypeOK
  <2> QED
    BY <1>3, <2>4, SetContextTypes DEF ReadKept
<1>4. CASE ReadBufferedMessage(e)
  <2>1. PICK m \in BufferedMessages(p) : HandleMessage(e, [p EXCEPT !.seen_ccs = @ /\ IsHandshake(m)], m)
    BY <1>4 DEF ReadBufferedMessage
  <2>2. m \in Messages
    BY ContextOf, PlainMessages DEF BufferedMessages
  <2>3. (p.seen_ccs /\ IsHandshake(m)) \in BOOLEAN
    BY <1>1, Zenon DEF Contexts
  <2>4. ASSUME NEW b \in BOOLEAN
        PROVE  [p EXCEPT !.seen_ccs = b] \in Contexts /\ [p EXCEPT !.seen_ccs = b].state = p.state
    BY <1>1 DEF Contexts
  <2> QED
    BY <1>2, <2>1, <2>2, <2>3, <2>4, HandleMessageTypes
<1>5. CASE ReadBufferedRecord(e)
  <2>1. PICK r \in BufferedRecords(p) : HandleRecord(e, [p EXCEPT !.future_record = {}], r)
    BY <1>5 DEF ReadBufferedRecord
  <2>2. r \in Records
    BY ContextOf DEF BufferedRecords
  <2>3. /\ [p EXCEPT !.future_record = {}] \in Contexts
        /\ [p EXCEPT !.future_record = {}].state = p.state
    BY <1>1 DEF Contexts
  <2> QED
    BY <1>2, <2>1, <2>2, <2>3, HandleRecordTypes
<1>6. CASE ReadRecord(e)
  BY <1>1, <1>2, <1>6, HandleRecordTypes DEF ReadRecord, TypeOK
<1>7. CASE BufferFutureRecord(e)
  <2>1. PICK r \in net : SetContext(e, [p EXCEPT !.future_record = {r}])
    BY <1>7 DEF BufferFutureRecord
  <2>2. {r} \in SUBSET Records
    BY DEF TypeOK
  <2>3. ASSUME NEW f \in SUBSET Records PROVE [p EXCEPT !.future_record = f] \in Contexts
    BY <1>1 DEF Contexts
  <2> QED
    BY <2>1, <2>2, <2>3, SetContextTypes
<1> QED
  BY <1>3, <1>4, <1>5, <1>6, <1>7

\* So does every one that writes,
LEMMA WriteTypes ==
  ASSUME TypeOK, NEW e \in Endpoints,
         WriteFinished(e) \/ Wrapup(e) \/ WriteClientHello \/ WriteClientKeyExchange
           \/ WriteHelloVerifyRequest \/ WriteServerHello \/ Write(e)
  PROVE  TypeOK'
<1> USE DEF States, Types
<1>1. {"client", "server"} \subseteq Endpoints
  BY DEF Endpoints
<1>2. \A f \in Endpoints : ssl[f] \in Contexts
  BY ContextOf
<1>3. ASSUME NEW p \in Contexts, NEW type \in Types, NEW b
      PROVE  WriteWhen(b, p, type) \in Contexts
  BY WriteMessageTyping DEF WriteWhen
<1>4. ASSUME NEW p \in Contexts PROVE WriteClosing(p) \in Contexts
  BY WriteMessageTyping DEF WriteClosing
<1>5. CASE WriteFinished(e)
  BY <1>2, <1>3, <1>4, <1>5, WriteFlightTypes DEF WriteFinished
<1>6. CASE Wrapup(e)
  <2>1. Goto(ssl[e], "HANDSHAKE_OVER") \in Contexts
    BY <1>2, GotoTyping
  <2>2. ASSUME NEW p \in Contexts PROVE [p EXCEPT !.timer = FALSE] \in Contexts
    BY DEF Contexts
  <2> QED
    BY <1>6, <2>1, <2>2, FreeTyping, SetContextTypes DEF Wrapup
<1>7. CASE WriteClientHello
  BY <1>1, <1>2, <1>7, WriteMessageTyping, WriteFlightTypes DEF WriteClientHello
<1>8. CASE WriteClientKeyExchange
  BY <1>1, <1>2, <1>3, <1>4, <1>8, WriteMessageTyping, WriteFlightTypes DEF WriteClientKeyExchange
<1>9. CASE WriteHelloVerifyRequest
  <2> DEFINE p == WriteMessage(ssl["server"], "HelloVerifyRequest")
  <2>1. p \in Contexts
    BY <1>1, <1>2, WriteMessageTyping
  <2>2. FlightRecords("server", p) \in SUBSET Records /\ Reset(p.session) \in Contexts
    BY <1>1, <2>1, FlightRecordsTyping, ResetTyping DEF Contexts
  <2> QED
    BY <1>1, <1>9, <2>2 DEF WriteHelloVerifyRequest, TypeOK
<1>10. CASE WriteServerHello
  BY <1>1, <1>2, <1>3, <1>4, <1>10, WriteMessageTyping, WriteFlightTypes DEF WriteServerHello
<1>11. CASE Write(e)
  <2>1. Record(e, ssl[e], ApplicationData) \in Records
    BY <1>2, PlainMessages, RecordTyping
  <2> QED
    BY <1>11, <2>1 DEF Write, TypeOK
<1> QED
  BY <1>5, <1>6, <1>7, <1>8, <1>9, <1>10, <1>11

\* every timeout,
LEMMA TimeTypes ==
  ASSUME TypeOK, NEW e \in Endpoints, TimeIsOver(e)
  PROVE  TypeOK'
<1> DEFINE p == ssl[e]
           doubled == IF conf.patient THEN p.retransmit_timeout ELSE p.retransmit_timeout + 1
<1>1. p \in Contexts
  BY ContextOf
<1>2. doubled \in Nat
  <2>1. p.retransmit_timeout \in Nat /\ p.retransmit_timeout + 1 \in Nat
    BY <1>1 DEF Contexts
  <2> QED
    BY <2>1
<1>3. [p EXCEPT !.timer = FALSE, !.ret = "timeout"] \in Contexts
  BY <1>1 DEF Contexts, Returns
<1>4. ASSUME NEW n \in Nat PROVE [p EXCEPT !.retransmit_timeout = n] \in Contexts
  BY <1>1 DEF Contexts
<1>5. [p EXCEPT !.retransmit_timeout = doubled] \in Contexts
  BY <1>2, <1>4
<1>6. IF doubled > MaxTimeout
      THEN SetContext(e, [p EXCEPT !.timer = FALSE, !.ret = "timeout"])
      ELSE FlightTransmit(e, [p EXCEPT !.retransmit_timeout = doubled])
  BY DEF TimeIsOver
<1> QED
  BY <1>3, <1>5, <1>6, SetContextTypes, FlightTransmitTypes

\* and every ClientHello, of this session or the next.
LEMMA HelloTypes ==
  ASSUME TypeOK, (\E cookie \in BOOLEAN : ParseClientHello(cookie)) \/ Reconnect
  PROVE  TypeOK'
<1> DEFINE p == ssl["server"]
<1>1. "server" \in Endpoints /\ p \in Contexts
  BY ContextOf DEF Endpoints
<1>2. \A r \in net : r.msg \in Messages
  BY DEF TypeOK, Records
<1>3. CASE \E cookie \in BOOLEAN : ParseClientHello(cookie)
  BY <1>1, <1>2, <1>3, ClientHelloTyping, FatalTyping, SetContextTypes DEF ParseClientHello, TypeOK
<1>4. CASE Reconnect
  <2>1. PICK r \in net :
          IF r.msg.cookie
          THEN SetContext("server", ClientHelloParsed(Reset(p.session + 1), r.msg))
          ELSE /\ net' = net \cup {[from |-> "server", epoch |-> 0, key |-> 0,
                                    msg |-> Message("HelloVerifyRequest", r.msg.seq, p.session,
                                                    FALSE, <<>>)]}
               /\ UNCHANGED <<conf, ssl>>
    BY <1>4 DEF Reconnect
  <2>2. r.msg \in Messages
    BY <1>2
  <2>3. p.session + 1 \in Nat /\ p.session \in Nat
    BY <1>1 DEF Contexts
  <2>4. CASE r.msg.cookie
    BY <1>1, <2>1, <2>2, <2>3, <2>4, ResetTyping, ClientHelloTyping, SetContextTypes DEF TypeOK
  <2>5. CASE ~r.msg.cookie
    <3> DEFINE m == Message("HelloVerifyRequest", r.msg.seq, p.session, FALSE, <<>>)
    <3>1. r.msg.seq \in Nat /\ "HelloVerifyRequest" \in Types
      BY <2>2 DEF Messages, Types
    <3>2. m \in Messages
      BY <2>3, <3>1, Empties, MessageTyping
    <3>3. ASSUME NEW n \in Messages
          PROVE  [from |-> "server", epoch |-> 0, key |-> 0, msg |-> n] \in Records
      BY <1>1 DEF Records
    <3>4. [from |-> "server", epoch |-> 0, key |-> 0, msg |-> m] \in Records
      BY <3>2, <3>3
    <3> HIDE DEF m
    <3> QED
      BY <2>1, <2>5, <3>4 DEF TypeOK, m
  <2> QED
    BY <2>4, <2>5
<1> QED
  BY <1>3, <1>4

\* Contexts have their types at first.
LEMMA InitTypes == Init => TypeOK
<1> SUFFICES ASSUME Init PROVE TypeOK
  OBVIOUS
<1>1. Reset(0) \in Contexts /\ Reset(1) \in Contexts
  BY ResetTyping
<1> QED
  BY <1>1 DEF Init, TypeOK

\* Every step keeps them.
LEMMA NextTypes == TypeOK /\ [Next]_vars => TypeOK'
<1> SUFFICES ASSUME TypeOK, [Next]_vars PROVE TypeOK'
  OBVIOUS
<1>1. ASSUME NEW e \in Endpoints, Local(e) \/ Receive(e) \/ Write(e) PROVE TypeOK'
  BY <1>1, ReadTypes, WriteTypes DEF Local, Receive
<1>2. ASSUME NEW e \in Endpoints, TimerExpires(e) \/ ReceivesNothing(e) PROVE TypeOK'
  BY <1>2, TimeTypes DEF TimerExpires, ReceivesNothing
<1>3. CASE (\E cookie \in BOOLEAN : ParseClientHello(cookie)) \/ Reconnect
  BY <1>3, HelloTypes
<1>4. CASE Lose
  BY <1>4 DEF Lose, TypeOK
<1>5. CASE UNCHANGED vars
  BY <1>5 DEF vars, TypeOK
<1> QED
  BY <1>1, <1>2, <1>3, <1>4, <1>5 DEF Next

\* Contexts, messages and records keep their types, in every session.
THEOREM HandshakeTypeCorrect == Spec => []TypeOK
BY InitTypes, NextTypes, PTL DEF Spec

--------------------------------------------------------------------------------
(* What is read is what is expected.                                       *)

\* A transcript is made of digests.
LEMMA TranscriptTyping ==
  ASSUME NEW c \in Confs, NEW k \in {0, 1}
  PROVE  Transcript(c, k) \in [Nat -> Digests]
BY Numbers, ConfTyping DEF Transcript, Digests, Types

\* The hash of n messages is as long as that.
LEMMA HashTyping ==
  ASSUME NEW c \in Confs, NEW k \in {0, 1}, NEW n \in Nat
  PROVE  Hash(c, k, n) \in Seq(Digests) /\ Len(Hash(c, k, n)) = n
<1>1. Hash(c, k, n) \in [1 .. n -> Digests]
  BY TranscriptTyping DEF Hash
<1> QED
  BY <1>1

\* The hash goes on with the next message of the transcript.
LEMMA HashAppend ==
  ASSUME NEW c \in Confs, NEW k \in {0, 1}, NEW n \in Nat
  PROVE  Append(Hash(c, k, n), Transcript(c, k)[n + 1]) = Hash(c, k, n + 1)
<1> DEFINE d == Transcript(c, k)[n + 1]
           h == Hash(c, k, n)
<1>1. d \in Digests /\ h \in Seq(Digests) /\ Len(h) = n
  BY TranscriptTyping, HashTyping
<1>2. /\ Append(h, d) \in Seq(Digests) /\ Len(Append(h, d)) = n + 1
      /\ \A i \in 1 .. n : Append(h, d)[i] = h[i]
      /\ Append(h, d)[n + 1] = d
  BY <1>1, AppendProperties
<1>3. Hash(c, k, n + 1) \in Seq(Digests) /\ Len(Hash(c, k, n + 1)) = n + 1
  BY HashTyping
<1>4. \A i \in 1 .. n + 1 : Append(h, d)[i] = Hash(c, k, n + 1)[i]
  BY <1>2 DEF Hash
<1> QED
  BY <1>2, <1>3, <1>4, SeqEqual

\* What the client reads next, if it has the number awaited, is what the state expects.
LEMMA ClientExpects ==
  ASSUME NEW c \in Confs, NEW p \in Contexts, Place(c, "client", p),
         NEW m, ServerSays(c, m), m.seq = p.in_msg_seq,
         p.state \in Reads["client"] \ CcsStates,
         p.state = "SERVER_HELLO_DONE" => c.auth
  PROVE  /\ p.state = "SERVER_HELLO" =>
              \/ m.type = "HelloVerifyRequest" /\ c.cookies /\ ~p.cookie
              \/ m.type = "ServerHello" /\ p.cookie = c.cookies
         /\ p.state = "SERVER_CERTIFICATE" => m.type = "Certificate"
         /\ p.state = "CERTIFICATE_REQUEST" =>
              IF c.auth THEN m.type = "CertificateRequest"
              ELSE m = Message("ServerHelloDone", First(c) + 2, 1, FALSE, <<>>)
         /\ p.state = "SERVER_HELLO_DONE" => m.type = "ServerHelloDone"
         /\ p.state = "NEW_SESSION_TICKET" => m.type = "NewSessionTicket"
         /\ p.state = "SERVER_FINISHED" => m.type = "Finished" /\ m.hash = p.checksum
         /\ m.session = 1 /\ IsHandshake(m)
         /\ m.type = "HelloVerifyRequest" \/
            Digest(m) = Transcript(c, One(p.cookie))[p.in_msg_seq + p.out_msg_seq - 2 * One(p.cookie) + 1]
<1> USE ConfTyping, Numbers
<1>1. p.cookie \in BOOLEAN
  BY DEF Contexts
<1>2. m.session = 1 /\ IsHandshake(m)
  BY DEF ServerSays, Message, IsHandshake
<1>3. CASE p.state = "SERVER_HELLO"
  <2>1. p.in_msg_seq = One(p.cookie) /\ p.out_msg_seq = One(p.cookie) + 1
    BY <1>3 DEF Place, ClientIn, ClientOut, ClientHasFinished, Hello, Closed
  <2>2. Transcript(c, One(p.cookie))[2] = <<"ServerHello", One(p.cookie), 1>>
    BY DEF Transcript
  <2>3. p.cookie => c.cookies
    BY DEF Place
  <2>4. CASE m.type = "HelloVerifyRequest"
    <3>1. c.cookies /\ m.seq = 0
      BY <2>4 DEF ServerSays, Message
    <3>2. ~p.cookie
      BY <1>1, <2>1, <3>1 DEF One
    <3> QED
      BY <1>2, <1>3, <2>4, <3>1, <3>2
  <2>5. CASE m.type # "HelloVerifyRequest"
    <3>1. m = Message("ServerHello", First(c), 1, FALSE, <<>>)
      BY <1>1, <2>1, <2>3, <2>5 DEF ServerSays, Message, One
    <3>2. First(c) = One(p.cookie)
      BY <2>1, <3>1 DEF Message
    <3>3. p.cookie = c.cookies
      BY <1>1, <2>3, <3>2 DEF One, First
    <3>4. p.in_msg_seq + p.out_msg_seq - 2 * One(p.cookie) + 1 = 2
      BY <1>1, <2>1 DEF One
    <3> QED
      BY <1>2, <1>3, <2>2, <3>1, <3>2, <3>3, <3>4 DEF Message, Digest
  <2> QED
    BY <2>4, <2>5
<1>4. CASE p.state = "SERVER_CERTIFICATE"
  BY <1>1, <1>2, <1>4 DEF Place, ClientIn, ClientOut, ClientHasFinished, Hello, Closed, One, First,
     ServerSays, Message, Digest, Transcript, ClientStates
<1>5. CASE p.state = "CERTIFICATE_REQUEST"
  BY <1>1, <1>2, <1>5 DEF Place, ClientIn, ClientOut, ClientHasFinished, Hello, Closed, One, First,
     ServerSays, Message, Digest, Transcript, ClientStates
<1>6. CASE p.state = "SERVER_HELLO_DONE"
  BY <1>1, <1>2, <1>6 DEF Place, ClientIn, ClientOut, ClientHasFinished, Hello, Closed, One, First,
     ServerSays, Message, Digest, Transcript, ClientStates
<1>7. CASE p.state = "NEW_SESSION_TICKET"
  BY <1>1, <1>2, <1>7 DEF Place, ClientIn, ClientOut, ClientHasFinished, Hello, Closed, One, First,
     ServerSays, Message, Digest, Transcript, ClientStates
<1>8. CASE p.state = "SERVER_FINISHED"
  BY SMTT(40), <1>1, <1>2, <1>8 DEF Place, ClientIn, ClientOut, ClientHasFinished, Hello, Closed, One, First,
     ServerSays, Message, Digest, Transcript, ClientStates
<1> QED
  BY <1>3, <1>4, <1>5, <1>6, <1>7, <1>8 DEF Reads, CcsStates

\* And so for the server.
LEMMA ServerExpects ==
  ASSUME NEW c \in Confs, NEW p \in Contexts, Place(c, "server", p),
         NEW m, ClientSays(c, m), m.seq = p.in_msg_seq,
         p.state \in Reads["server"] \ CcsStates
  PROVE  /\ p.state = "CLIENT_CERTIFICATE" => m.type = "Certificate"
         /\ p.state = "CLIENT_KEY_EXCHANGE" => m.type = "ClientKeyExchange"
         /\ p.state = "CERTIFICATE_VERIFY" => m.type = "CertificateVerify"
         /\ p.state = "CLIENT_FINISHED" => m.type = "Finished" /\ m.hash = p.checksum
         /\ IsHandshake(m)
         /\ Digest(m) = Transcript(c, One(p.cookie))[p.in_msg_seq + p.out_msg_seq - 2 * One(p.cookie) + 1]
<1> USE ConfTyping, Numbers
<1>1. p.cookie \in BOOLEAN
  BY DEF Contexts
<1>2. IsHandshake(m)
  BY DEF ClientSays, Message, IsHandshake
<1>3. CASE p.state = "CLIENT_CERTIFICATE"
  BY <1>1, <1>2, <1>3 DEF Place, ServerIn, ServerOut, Hello, Closed, One, First,
     ClientSays, Message, Digest, Transcript, ServerStates
<1>4. CASE p.state = "CLIENT_KEY_EXCHANGE"
  BY <1>1, <1>2, <1>4 DEF Place, ServerIn, ServerOut, Hello, Closed, One, First,
     ClientSays, Message, Digest, Transcript, ServerStates
<1>5. CASE p.state = "CERTIFICATE_VERIFY"
  BY <1>1, <1>2, <1>5 DEF Place, ServerIn, ServerOut, Hello, Closed, One, First,
     ClientSays, Message, Digest, Transcript, ServerStates
<1>6. CASE p.state = "CLIENT_FINISHED"
  <2>1. /\ p.cookie = c.cookies /\ One(p.cookie) = First(c)
        /\ p.in_msg_seq = First(c) + (IF c.resume THEN 1 ELSE 2 + 2 * Auth(c))
        /\ p.out_msg_seq = First(c) + (IF c.resume THEN 2 + Tick(c) ELSE 3 + Auth(c))
    BY <1>1, <1>6 DEF Place, ServerIn, ServerOut, Hello, Closed, First, ServerStates
  <2>2. CASE c.resume
    <3>1. m = Message("Finished", First(c) + 1, 1, FALSE, Hash(c, First(c), 3 + Tick(c)))
      BY <2>1, <2>2 DEF ClientSays, Message
    <3>2. p.in_msg_seq + p.out_msg_seq - 2 * First(c) = 3 + Tick(c)
      BY <2>1, <2>2
    <3>3. p.checksum = Hash(c, First(c), 3 + Tick(c))
      BY <2>1, <3>2 DEF Place
    <3>4. Transcript(c, First(c))[3 + Tick(c) + 1] = <<"Finished", First(c) + 1, 1>>
      BY <2>2 DEF Transcript
    <3> QED
      BY <1>2, <1>6, <2>1, <3>1, <3>2, <3>3, <3>4 DEF Message, Digest
  <2>3. CASE ~c.resume
    <3>1. m = Message("Finished", First(c) + 2 + 2 * Auth(c), 1, FALSE,
                      Hash(c, First(c), 5 + 3 * Auth(c)))
      BY <2>1, <2>3 DEF ClientSays, Message
    <3>2. p.in_msg_seq + p.out_msg_seq - 2 * First(c) = 5 + 3 * Auth(c)
      BY <2>1, <2>3
    <3>3. p.checksum = Hash(c, First(c), 5 + 3 * Auth(c))
      BY <2>1, <3>2 DEF Place
    <3>4. Transcript(c, First(c))[5 + 3 * Auth(c) + 1] = <<"Finished", First(c) + 2 + 2 * Auth(c), 1>>
      BY <2>3 DEF Transcript
    <3> QED
      BY <1>2, <1>6, <2>1, <3>1, <3>2, <3>3, <3>4 DEF Message, Digest
  <2> QED
    BY <2>2, <2>3
<1> QED
  BY <1>3, <1>4, <1>5, <1>6 DEF Reads, CcsStates

--------------------------------------------------------------------------------
(* A message that is passed on leaves an endpoint in the place of its new  *)
(* state.                                                                  *)

\* What reading leaves alone.
Moves(p, q) ==
  /\ q.ret = p.ret /\ q.cookie = p.cookie
  /\ q.out_msg_seq = p.out_msg_seq /\ q.out_epoch = p.out_epoch /\ q.alt_epoch = p.alt_epoch
  /\ q.hs \subseteq p.hs /\ q.future_record \subseteq p.future_record

\* A flight that is there or not waited for.
LEMMA FlightKept ==
  ASSUME NEW c, NEW e, NEW p, NEW q, FlightInv(c, e, p), p.state \in Reads[e], Moves(p, q),
         \/ q.flight = p.flight
         \/ q.flight = <<>> /\ q.state \notin Reads[e] /\ q.state # "HANDSHAKE_OVER"
  PROVE  FlightInv(c, e, q)
<1>1. CASE q.flight = p.flight
  BY <1>1 DEF FlightInv, Moves, HasFinished
<1>2. CASE q.flight = <<>> /\ q.state \notin Reads[e] /\ q.state # "HANDSHAKE_OVER"
  BY <1>2 DEF FlightInv, HasFinished
<1> QED
  BY <1>1, <1>2

\* What came early stays.
LEMMA EarlyKept ==
  ASSUME NEW c, NEW e, NEW p, NEW q, Early(c, e, p), Moves(p, q),
         q.keep_current_message =
           IF e = "client" /\ q.state = "SERVER_HELLO_DONE" /\ ~c.auth
           THEN <<Message("ServerHelloDone", First(c) + 2, 1, FALSE, <<>>)>> ELSE <<>>
  PROVE  Early(c, e, q)
BY DEF Early, Moves

\* One more message of the transcript is hashed.
LEMMA Hashed ==
  ASSUME NEW c \in Confs, NEW e \in Endpoints, NEW p \in Contexts, NEW q, Place(c, e, p),
         NEW d, d = Transcript(c, One(p.cookie))[p.in_msg_seq + p.out_msg_seq - 2 * One(p.cookie) + 1],
         q.cookie = p.cookie, q.checksum = Append(p.checksum, d),
         q.in_msg_seq + q.out_msg_seq = p.in_msg_seq + p.out_msg_seq + 1,
         p.state # "CLIENT_HELLO" \/ e = "client",
         q.in_msg_seq \in Nat, q.out_msg_seq \in Nat
  PROVE  q.checksum = Hash(c, One(q.cookie), q.in_msg_seq + q.out_msg_seq - 2 * One(q.cookie))
<1> DEFINE k == One(p.cookie)
           n == p.in_msg_seq + p.out_msg_seq - 2 * k
<1>1. k \in {0, 1}
  BY DEF One
<1>2. p.in_msg_seq \in Nat /\ p.out_msg_seq \in Nat
  BY DEF Contexts
<1>3. p.in_msg_seq >= k /\ p.out_msg_seq >= k
  <2>1. CASE e = "client"
    <3>1. p.in_msg_seq = ClientIn(c, p.state, k) /\ p.out_msg_seq = ClientOut(c, p.state, k)
      BY <2>1 DEF Place
    <3>2. ClientIn(c, p.state, k) >= k /\ ClientOut(c, p.state, k) >= k
      BY <1>1, Numbers DEF ClientIn, ClientOut
    <3> QED
      BY <3>1, <3>2
  <2>2. CASE e = "server"
    <3>1. p.in_msg_seq = ServerIn(c, p.state, k) /\ p.out_msg_seq = ServerOut(c, p.state, k)
      BY <2>2 DEF Place
    <3>2. ServerIn(c, p.state, k) >= k /\ ServerOut(c, p.state, k) >= k
      BY <1>1, <2>2, Numbers DEF ServerIn, ServerOut
    <3> QED
      BY <3>1, <3>2
  <2> QED
    BY <2>1, <2>2 DEF Endpoints
<1>4. n \in Nat
  BY <1>1, <1>2, <1>3
<1>5. p.checksum = Hash(c, k, n)
  BY DEF Place
<1>6. q.checksum = Hash(c, k, n + 1)
  BY <1>1, <1>4, <1>5, HashAppend
<1>7. q.in_msg_seq + q.out_msg_seq - 2 * k = n + 1
  <2> DEFINE x == q.in_msg_seq
             y == q.out_msg_seq
             a == p.in_msg_seq
             b == p.out_msg_seq
  <2>1. x \in Nat /\ y \in Nat /\ x + y = a + b + 1
    OBVIOUS
  <2>2. n = a + b - 2 * k
    OBVIOUS
  <2> HIDE DEF x, y, a, b, k, n
  <2>3. x + y - 2 * k = n + 1
    BY SMTT(40), <1>1, <1>2, <2>1, <2>2 DEF a, b
  <2> QED
    BY <2>3 DEF x, y
<1> QED
  BY <1>6, <1>7

\* What a message that is passed on changes.
LEMMA Updated ==
  ASSUME NEW p \in Contexts, NEW m \in Messages, IsHandshake(m)
  PROVE  LET q == UpdateHandshakeStatus(p, m) IN
         /\ q \in Contexts
         /\ Moves(p, q) /\ q.state = p.state /\ q.flight = p.flight /\ q.session = p.session
         /\ q.in_epoch = p.in_epoch /\ q.keep_current_message = p.keep_current_message
         /\ q.new_session_ticket = p.new_session_ticket /\ q.client_auth = p.client_auth
         /\ q.in_msg_seq = p.in_msg_seq + 1 /\ q.in_msg_seq \in Nat
         /\ q.checksum = Append(p.checksum, Digest(m))
BY UpdateTyping DEF UpdateHandshakeStatus, Contexts, Moves

\* What the end of the other flight changes.
LEMMA Completed ==
  ASSUME NEW p \in Contexts
  PROVE  LET q == RecvFlightCompleted(p) IN
         /\ Moves(p, q) /\ q.state = p.state /\ q.flight = <<>> /\ q.session = p.session
         /\ q.in_epoch = p.in_epoch /\ q.keep_current_message = p.keep_current_message
         /\ q.new_session_ticket = p.new_session_ticket /\ q.client_auth = p.client_auth
         /\ q.in_msg_seq = p.in_msg_seq /\ q.checksum = p.checksum
         /\ q.hs = {} /\ q.future_record = {}
BY DEF RecvFlightCompleted, Contexts, Moves

\* What going to a state changes.
LEMMA WentTo ==
  ASSUME NEW p \in Contexts, NEW state \in States
  PROVE  LET q == Goto(p, state) IN
         /\ q \in Contexts
         /\ Moves(p, q) /\ q.state = state /\ q.flight = p.flight /\ q.session = p.session
         /\ q.in_epoch = p.in_epoch /\ q.keep_current_message = p.keep_current_message
         /\ q.new_session_ticket = p.new_session_ticket /\ q.client_auth = p.client_auth
         /\ q.in_msg_seq = p.in_msg_seq /\ q.checksum = p.checksum
         /\ q.hs = p.hs /\ q.future_record = p.future_record
BY GotoTyping DEF Goto, Contexts, Moves

\* A message that has been hashed and parsed: only the fields listed differ.
Parsed(p, m, q) ==
  /\ Moves(p, q) /\ q.in_msg_seq = p.in_msg_seq + 1 /\ q.in_epoch = p.in_epoch
  /\ q.checksum = Append(p.checksum, Digest(m))

\* A message is not no message.
LEMMA NotEmpty ==
  ASSUME NEW x PROVE <<x>> # <<>>
<1>1. Len(<<x>>) # Len(<<>>)
  OBVIOUS
<1> QED
  BY <1>1

\* One move after another.
LEMMA MovesOn ==
  ASSUME NEW p, NEW q, NEW r, Moves(p, q), Moves(q, r)
  PROVE  Moves(p, r)
BY DEF Moves

\* A message read in its turn takes the client to its next place.
LEMMA ClientParses ==
  ASSUME conf \in Confs, NEW p \in Contexts, EndpointInv(conf, "client", p),
         p.state \in Reads["client"] \ CcsStates, p.keep_current_message = <<>>,
         NEW m \in Messages, ServerSays(conf, m), m.seq = p.in_msg_seq,
         ssl["client"].checksum = p.checksum
  PROVE  EndpointInv(conf, "client", Parse("client", UpdateHandshakeStatus(p, m), m))
<1> DEFINE p1 == UpdateHandshakeStatus(p, m)
           q == Parse("client", p1, m)
           n == p.in_msg_seq + p.out_msg_seq - 2 * One(p.cookie)
<1> USE DEF States
<1>1. Place(conf, "client", p) /\ FlightInv(conf, "client", p) /\ Early(conf, "client", p)
      /\ Remembered(conf, "client", p) /\ p.ret \in {"ok", "timeout"}
  BY DEF EndpointInv
<1>2. p.state = "SERVER_HELLO_DONE" => conf.auth
  BY <1>1, NotEmpty DEF Early
<1>3. m.session = 1 /\ IsHandshake(m)
  BY <1>1, <1>2, ClientExpects
<1>4. /\ p1 \in Contexts
      /\ Moves(p, p1) /\ p1.state = p.state /\ p1.flight = p.flight /\ p1.session = p.session
      /\ p1.in_epoch = p.in_epoch /\ p1.keep_current_message = p.keep_current_message
      /\ p1.new_session_ticket = p.new_session_ticket /\ p1.client_auth = p.client_auth
      /\ p1.in_msg_seq = p.in_msg_seq + 1 /\ p1.in_msg_seq \in Nat
      /\ p1.checksum = Append(p.checksum, Digest(m))
  BY <1>3, Updated
<1>5. m.type = "HelloVerifyRequest" \/ Digest(m) = Transcript(conf, One(p.cookie))[n + 1]
  BY <1>1, <1>2, ClientExpects
<1>6. p.out_msg_seq \in Nat /\ p.in_msg_seq \in Nat /\ p.cookie \in BOOLEAN
  BY DEF Contexts
<1> HIDE DEF p1
\* What is the same for all messages but HelloVerifyRequest.
<1>7. ASSUME NEW r, Parsed(p, m, r), m.type # "HelloVerifyRequest",
             \/ r.flight = p.flight
             \/ r.flight = <<>> /\ r.state \notin Reads["client"] /\ r.state # "HANDSHAKE_OVER",
             r.keep_current_message = IF r.state = "SERVER_HELLO_DONE" /\ ~conf.auth
               THEN <<Message("ServerHelloDone", First(conf) + 2, 1, FALSE, <<>>)>> ELSE <<>>,
             /\ r.cookie = conf.cookies
             /\ r.state \in ClientStates(conf)
             /\ r.in_msg_seq = ClientIn(conf, r.state, One(r.cookie))
             /\ r.out_msg_seq = ClientOut(conf, r.state, One(r.cookie))
             /\ r.session = One(r.state \notin Hello)
             /\ r.in_epoch = One(HasRead(conf, "client", r.state))
             /\ r.out_epoch = One(HasWritten(conf, "client", r.state)),
             Remembered(conf, "client", r)
      PROVE  EndpointInv(conf, "client", r)
  <2>1. r.checksum = Hash(conf, One(r.cookie), r.in_msg_seq + r.out_msg_seq - 2 * One(r.cookie))
    <3>1. r.in_msg_seq = p.in_msg_seq + 1 /\ r.out_msg_seq = p.out_msg_seq
      BY <1>7 DEF Parsed, Moves
    <3>2. r.in_msg_seq + r.out_msg_seq = p.in_msg_seq + p.out_msg_seq + 1
          /\ r.in_msg_seq \in Nat /\ r.out_msg_seq \in Nat
      BY <1>6, <3>1
    <3>3. r.checksum = Append(p.checksum, Digest(m)) /\ r.cookie = p.cookie
      BY <1>7 DEF Parsed, Moves
    <3>4. "client" \in Endpoints
      BY DEF Endpoints
    <3> QED
      BY <1>1, <1>5, <1>7, <3>2, <3>3, <3>4, Hashed
  <2>2. Place(conf, "client", r)
    BY <1>1, <1>7, <2>1 DEF Place, Parsed, Moves
  <2>3. FlightInv(conf, "client", r) /\ Early(conf, "client", r)
    BY <1>1, <1>7, FlightKept, EarlyKept DEF Parsed
  <2> QED
    BY <1>1, <1>7, <2>2, <2>3 DEF EndpointInv, Parsed, Moves
<1>8. CASE p.state = "SERVER_HELLO" /\ m.type = "HelloVerifyRequest"
  <2> DEFINE v == [p1 EXCEPT !.state = "CLIENT_HELLO", !.checksum = <<>>, !.cookie = TRUE]
  <2>1. v \in Contexts
    BY <1>4, Empties DEF Contexts
  <2>2. /\ v.ret = p1.ret /\ v.out_msg_seq = p1.out_msg_seq /\ v.out_epoch = p1.out_epoch
        /\ v.alt_epoch = p1.alt_epoch /\ v.state = "CLIENT_HELLO" /\ v.session = p1.session
        /\ v.in_epoch = p1.in_epoch /\ v.keep_current_message = p1.keep_current_message
        /\ v.client_auth = p1.client_auth /\ v.in_msg_seq = p1.in_msg_seq
        /\ v.checksum = <<>> /\ v.cookie = TRUE
    BY <1>4 DEF Contexts
  <2>3. q = RecvFlightCompleted(v)
    <3>1. q = ParseServerHello(p1, m)
      BY <1>4, <1>8, ParseCases
    <3> QED
      BY <1>8, <3>1 DEF ParseServerHello, ParseHelloVerifyRequest
  <2> HIDE DEF v
  <2>4. /\ Moves(v, q) /\ q.state = v.state /\ q.flight = <<>> /\ q.session = v.session
        /\ q.in_epoch = v.in_epoch /\ q.keep_current_message = v.keep_current_message
        /\ q.client_auth = v.client_auth /\ q.in_msg_seq = v.in_msg_seq
        /\ q.checksum = v.checksum /\ q.hs = {} /\ q.future_record = {}
    BY <2>1, <2>3, Completed
  <2> HIDE DEF q
  <2>5. conf.cookies /\ ~p.cookie
    BY <1>1, <1>2, <1>8, ClientExpects
  <2>6. p.in_msg_seq = 0 /\ p.out_msg_seq = 1 /\ p.session = 0 /\ p.in_epoch = 0 /\ p.out_epoch = 0
        /\ p.alt_epoch = 0 /\ ~p.client_auth /\ p.keep_current_message = <<>>
    BY <1>1, <1>8, <2>5 DEF Place, ClientIn, ClientOut, ClientHasFinished, HasRead, HasWritten, Hello,
       Closed, One, Remembered
  <2>7. /\ q.in_msg_seq = 1 /\ q.out_msg_seq = 1 /\ q.session = 0 /\ q.in_epoch = 0 /\ q.out_epoch = 0
        /\ q.alt_epoch = 0 /\ ~q.client_auth /\ q.cookie = TRUE /\ q.state = "CLIENT_HELLO"
        /\ q.checksum = <<>> /\ q.ret = p.ret
    BY <1>4, <2>2, <2>4, <2>6 DEF Moves
  <2>8. Hash(conf, 1, 0) = <<>>
    BY DEF Hash
  <2>9. Place(conf, "client", q)
    BY <2>5, <2>7, <2>8 DEF Place, ClientStates, ClientIn, ClientOut, ClientHasFinished, HasRead,
       HasWritten, Hello, Closed, One
  <2>10. FlightInv(conf, "client", q)
    BY <2>4, <2>7 DEF FlightInv, HasFinished, Reads
  <2>11. Early(conf, "client", q) /\ Remembered(conf, "client", q)
    BY <1>4, <2>2, <2>4, <2>6, <2>7 DEF Early, Remembered, Hello
  <2>12. EndpointInv(conf, "client", q)
    BY <1>1, <2>7, <2>9, <2>10, <2>11 DEF EndpointInv
  <2> QED
    BY <2>12 DEF q, p1
<1>9. CASE p.state = "SERVER_HELLO" /\ m.type # "HelloVerifyRequest"
  <2>1. m.type = "ServerHello" /\ p.cookie = conf.cookies
    BY <1>1, <1>2, <1>9, ClientExpects
  <2>2. q = [p1 EXCEPT !.session = m.session, !.new_session_ticket = conf.ticket,
                       !.state = IF ~conf.resume THEN "SERVER_CERTIFICATE"
                                 ELSE IF conf.ticket THEN "NEW_SESSION_TICKET"
                                 ELSE "SERVER_CHANGE_CIPHER_SPEC"]
    <3>1. q = ParseServerHello(p1, m)
      BY <1>4, <1>9, ParseCases
    <3> HIDE DEF q
    <3> QED
      BY <1>9, <2>1, <3>1 DEF ParseServerHello, Expect
  <2>3. /\ Moves(p1, q) /\ q.flight = p1.flight /\ q.in_epoch = p1.in_epoch
        /\ q.in_msg_seq = p1.in_msg_seq /\ q.checksum = p1.checksum
        /\ q.keep_current_message = p1.keep_current_message /\ q.client_auth = p1.client_auth
        /\ q.session = 1 /\ q.new_session_ticket = conf.ticket
        /\ q.state = IF ~conf.resume THEN "SERVER_CERTIFICATE"
                     ELSE IF conf.ticket THEN "NEW_SESSION_TICKET" ELSE "SERVER_CHANGE_CIPHER_SPEC"
    BY <1>3, <1>4, <2>2 DEF Contexts, Moves
  <2> HIDE DEF q
  <2>4. Parsed(p, m, q)
    BY <1>4, <2>3, MovesOn DEF Parsed
  <2>5. p.in_msg_seq = First(conf) /\ p.out_msg_seq = First(conf) + 1 /\ p.in_epoch = 0
        /\ p.out_epoch = 0 /\ ~p.client_auth
    BY <1>1, <1>9, <2>1 DEF Place, ClientIn, ClientOut, ClientHasFinished, HasRead, HasWritten, Hello,
       Closed, One, First, Remembered
  <2>6. q.in_msg_seq = First(conf) + 1 /\ q.out_msg_seq = First(conf) + 1 /\ q.in_epoch = 0
        /\ q.out_epoch = 0 /\ ~q.client_auth /\ q.cookie = conf.cookies
        /\ q.keep_current_message = <<>>
    BY <1>4, <2>1, <2>3, <2>4, <2>5 DEF Parsed, Moves
  <2>7. One(q.cookie) = First(conf)
    BY <2>6 DEF First
  <2>8. Remembered(conf, "client", q)
    BY <2>3, <2>6 DEF Remembered
  <2>9. /\ q.state \in ClientStates(conf)
        /\ q.in_msg_seq = ClientIn(conf, q.state, One(q.cookie))
        /\ q.out_msg_seq = ClientOut(conf, q.state, One(q.cookie))
        /\ q.session = One(q.state \notin Hello)
        /\ q.in_epoch = One(HasRead(conf, "client", q.state))
        /\ q.out_epoch = One(HasWritten(conf, "client", q.state))
    BY <2>3, <2>6, <2>7, Numbers DEF ClientStates, ClientIn, ClientOut, ClientHasFinished, HasRead,
       HasWritten, Hello, Closed, One
  <2>10. EndpointInv(conf, "client", q)
    <3>1. q.keep_current_message = IF q.state = "SERVER_HELLO_DONE" /\ ~conf.auth
            THEN <<Message("ServerHelloDone", First(conf) + 2, 1, FALSE, <<>>)>> ELSE <<>>
      BY <2>3, <2>6
    <3>2. q.flight = p.flight /\ q.cookie = conf.cookies
      BY <1>4, <2>3, <2>6
    <3> QED
      BY <1>7, <1>9, <2>4, <2>8, <2>9, <3>1, <3>2
  <2> QED
    BY <2>10 DEF q, p1
\* From one state to the next within a flight.
<1>10. ASSUME NEW r, Parsed(p, m, r), m.type # "HelloVerifyRequest", r.session = p.session,
              \/ r.flight = p.flight
              \/ r.flight = <<>> /\ r.state \notin Reads["client"] /\ r.state # "HANDSHAKE_OVER",
              r.keep_current_message = IF r.state = "SERVER_HELLO_DONE" /\ ~conf.auth
                THEN <<Message("ServerHelloDone", First(conf) + 2, 1, FALSE, <<>>)>> ELSE <<>>,
              p.state \notin Hello, r.state \in ClientStates(conf) \ Hello,
              ClientIn(conf, r.state, First(conf)) = ClientIn(conf, p.state, First(conf)) + 1,
              ClientOut(conf, r.state, First(conf)) = ClientOut(conf, p.state, First(conf)),
              HasRead(conf, "client", r.state) = HasRead(conf, "client", p.state),
              HasWritten(conf, "client", r.state) = HasWritten(conf, "client", p.state),
              Remembered(conf, "client", r)
       PROVE  EndpointInv(conf, "client", r)
  <2>1. p.cookie = conf.cookies /\ p.session = One(p.state \notin Hello)
        /\ p.in_msg_seq = ClientIn(conf, p.state, One(p.cookie))
        /\ p.out_msg_seq = ClientOut(conf, p.state, One(p.cookie))
        /\ p.in_epoch = One(HasRead(conf, "client", p.state))
        /\ p.out_epoch = One(HasWritten(conf, "client", p.state))
    BY <1>1, <1>10 DEF Place
  <2>2. r.cookie = conf.cookies /\ r.out_msg_seq = p.out_msg_seq /\ r.in_msg_seq = p.in_msg_seq + 1
        /\ r.in_epoch = p.in_epoch /\ r.out_epoch = p.out_epoch
    BY <1>10, <2>1 DEF Parsed, Moves
  <2>3. One(r.cookie) = First(conf) /\ One(p.cookie) = First(conf)
    BY <2>1, <2>2 DEF First
  <2>4. One(r.state \notin Hello) = 1 /\ One(p.state \notin Hello) = 1
    BY <1>10 DEF One
  <2> QED
    BY <1>7, <1>10, <2>1, <2>2, <2>3, <2>4
<1>11. p.state \notin Hello => p.cookie = conf.cookies
  BY <1>1 DEF Place
<1>12. p.state \in ClientStates(conf) /\ p.keep_current_message = <<>>
  BY <1>1 DEF Place
<1>13. CASE p.state = "SERVER_CERTIFICATE"
  <2>1. m.type = "Certificate"
    BY <1>1, <1>2, <1>13, ClientExpects
  <2>2. q = Goto(p1, "CERTIFICATE_REQUEST")
    <3>1. q = ParseCertificate("client", p1, m)
      BY <1>4, <1>13, ParseCases
    <3> HIDE DEF q
    <3> QED
      BY <2>1, <3>1 DEF ParseCertificate, Expect
  <2> HIDE DEF q
  <2>3. /\ Moves(p1, q) /\ q.state = "CERTIFICATE_REQUEST" /\ q.flight = p1.flight
        /\ q.session = p1.session /\ q.in_epoch = p1.in_epoch /\ q.client_auth = p1.client_auth
        /\ q.keep_current_message = p1.keep_current_message
        /\ q.new_session_ticket = p1.new_session_ticket
        /\ q.in_msg_seq = p1.in_msg_seq /\ q.checksum = p1.checksum
    BY <1>4, <2>2, WentTo
  <2>4. Parsed(p, m, q)
    BY <1>4, <2>3, MovesOn DEF Parsed
  <2>5. Remembered(conf, "client", q)
    BY <1>1, <1>4, <1>13, <2>3 DEF Remembered, Hello, ClientHasFinished, Closed
  <2>6. q.keep_current_message = <<>> /\ q.session = p.session /\ q.flight = p.flight
    BY <1>4, <2>3
  <2>7. /\ p.state \notin Hello /\ q.state \in ClientStates(conf) \ Hello
        /\ ClientIn(conf, q.state, First(conf)) = ClientIn(conf, p.state, First(conf)) + 1
        /\ ClientOut(conf, q.state, First(conf)) = ClientOut(conf, p.state, First(conf))
        /\ HasRead(conf, "client", q.state) = HasRead(conf, "client", p.state)
        /\ HasWritten(conf, "client", q.state) = HasWritten(conf, "client", p.state)
    BY <1>12, <1>13, <2>3, Numbers DEF ClientStates, ClientIn, ClientOut, ClientHasFinished, HasRead,
       HasWritten, Hello, Closed
  <2>8. EndpointInv(conf, "client", q)
    BY <1>10, <2>1, <2>3, <2>4, <2>5, <2>6, <2>7
  <2> QED
    BY <2>8 DEF q, p1
<1>14. CASE p.state = "CERTIFICATE_REQUEST" /\ conf.auth
  <2>1. m.type = "CertificateRequest"
    BY <1>1, <1>2, <1>14, ClientExpects
  <2>2. q = [[p1 EXCEPT !.client_auth = TRUE] EXCEPT !.state = "SERVER_HELLO_DONE"]
    <3>1. q = ParseCertificateRequest(p1, m)
      BY <1>4, <1>14, ParseCases
    <3> HIDE DEF q
    <3> QED
      BY <2>1, <3>1 DEF ParseCertificateRequest
  <2> HIDE DEF q
  <2>3. /\ Moves(p1, q) /\ q.state = "SERVER_HELLO_DONE" /\ q.flight = p1.flight
        /\ q.session = p1.session /\ q.in_epoch = p1.in_epoch /\ q.client_auth = TRUE
        /\ q.keep_current_message = p1.keep_current_message
        /\ q.new_session_ticket = p1.new_session_ticket
        /\ q.in_msg_seq = p1.in_msg_seq /\ q.checksum = p1.checksum
    BY <1>4, <2>2 DEF Contexts, Moves
  <2>4. Parsed(p, m, q)
    BY <1>4, <2>3, MovesOn DEF Parsed
  <2>5. Remembered(conf, "client", q)
    BY <1>1, <1>4, <1>14, <2>3, ConfTyping DEF Remembered, Hello, ClientHasFinished, Closed
  <2>6. /\ q.keep_current_message = IF q.state = "SERVER_HELLO_DONE" /\ ~conf.auth
             THEN <<Message("ServerHelloDone", First(conf) + 2, 1, FALSE, <<>>)>> ELSE <<>>
        /\ q.session = p.session /\ q.flight = p.flight
    BY <1>4, <1>14, <2>3
  <2>7. /\ p.state \notin Hello /\ q.state \in ClientStates(conf) \ Hello
        /\ ClientIn(conf, q.state, First(conf)) = ClientIn(conf, p.state, First(conf)) + 1
        /\ ClientOut(conf, q.state, First(conf)) = ClientOut(conf, p.state, First(conf))
        /\ HasRead(conf, "client", q.state) = HasRead(conf, "client", p.state)
        /\ HasWritten(conf, "client", q.state) = HasWritten(conf, "client", p.state)
    BY <1>12, <1>14, <2>3, Numbers, ConfTyping DEF ClientStates, ClientIn, ClientOut, ClientHasFinished,
       HasRead, HasWritten, Hello, Closed
  <2>8. EndpointInv(conf, "client", q)
    BY <1>10, <2>1, <2>3, <2>4, <2>5, <2>6, <2>7
  <2> QED
    BY <2>8 DEF q, p1
<1>15. CASE p.state = "CERTIFICATE_REQUEST" /\ ~conf.auth
  <2>1. m = Message("ServerHelloDone", First(conf) + 2, 1, FALSE, <<>>)
    BY <1>1, <1>2, <1>15, ClientExpects
  <2>2. m.type = "ServerHelloDone"
    BY <2>1 DEF Message
  <2>3. q = [[p1 EXCEPT !.keep_current_message = <<m>>] EXCEPT !.state = "SERVER_HELLO_DONE"]
    <3>1. q = ParseCertificateRequest(p1, m)
      BY <1>4, <1>15, ParseCases
    <3> HIDE DEF q
    <3> QED
      BY <2>2, <3>1 DEF ParseCertificateRequest
  <2> HIDE DEF q
  <2>4. /\ Moves(p1, q) /\ q.state = "SERVER_HELLO_DONE" /\ q.flight = p1.flight
        /\ q.session = p1.session /\ q.in_epoch = p1.in_epoch /\ q.client_auth = p1.client_auth
        /\ q.keep_current_message = <<m>>
        /\ q.new_session_ticket = p1.new_session_ticket
        /\ q.in_msg_seq = p1.in_msg_seq /\ q.checksum = p1.checksum
    BY <1>4, <2>3 DEF Contexts, Moves
  <2>5. Parsed(p, m, q)
    BY <1>4, <2>4, MovesOn DEF Parsed
  <2>6. Remembered(conf, "client", q)
    <3>1. q.client_auth \in BOOLEAN /\ ~q.client_auth
      BY <1>1, <1>4, <1>15, <2>4 DEF Remembered, Contexts
    <3> QED
      BY <1>1, <1>4, <1>15, <2>4, <3>1, ConfTyping DEF Remembered, Hello, ClientHasFinished, Closed
  <2>7. /\ q.keep_current_message = IF q.state = "SERVER_HELLO_DONE" /\ ~conf.auth
             THEN <<Message("ServerHelloDone", First(conf) + 2, 1, FALSE, <<>>)>> ELSE <<>>
        /\ q.session = p.session /\ q.flight = p.flight
    BY <1>4, <1>15, <2>1, <2>4
  <2>8. /\ p.state \notin Hello /\ q.state \in ClientStates(conf) \ Hello
        /\ ClientIn(conf, q.state, First(conf)) = ClientIn(conf, p.state, First(conf)) + 1
        /\ ClientOut(conf, q.state, First(conf)) = ClientOut(conf, p.state, First(conf))
        /\ HasRead(conf, "client", q.state) = HasRead(conf, "client", p.state)
        /\ HasWritten(conf, "client", q.state) = HasWritten(conf, "client", p.state)
    BY <1>12, <1>15, <2>4, Numbers, ConfTyping DEF ClientStates, ClientIn, ClientOut, ClientHasFinished,
       HasRead, HasWritten, Hello, Closed
  <2>9. EndpointInv(conf, "client", q)
    BY <1>10, <2>2, <2>4, <2>5, <2>6, <2>7, <2>8
  <2> QED
    BY <2>9 DEF q, p1
<1>16. CASE p.state = "SERVER_HELLO_DONE"
  <2>1. m.type = "ServerHelloDone"
    BY <1>1, <1>2, <1>16, ClientExpects
  <2> DEFINE v == Goto(p1, "CLIENT_CERTIFICATE")
  <2>2. q = RecvFlightCompleted(v)
    <3>1. q = ParseServerHelloDone(p1, m)
      BY <1>4, <1>16, ParseCases DEF FinishedStates
    <3> HIDE DEF q
    <3> QED
      BY <2>1, <3>1 DEF ParseServerHelloDone, Expect
  <2>3. v \in Contexts /\ Moves(p1, v) /\ v.state = "CLIENT_CERTIFICATE"
        /\ v.session = p1.session /\ v.in_epoch = p1.in_epoch /\ v.client_auth = p1.client_auth
        /\ v.keep_current_message = p1.keep_current_message
        /\ v.new_session_ticket = p1.new_session_ticket
        /\ v.in_msg_seq = p1.in_msg_seq /\ v.checksum = p1.checksum
    BY <1>4, WentTo
  <2> HIDE DEF q, v
  <2>4. /\ Moves(v, q) /\ q.state = v.state /\ q.flight = <<>> /\ q.session = v.session
        /\ q.in_epoch = v.in_epoch /\ q.keep_current_message = v.keep_current_message
        /\ q.new_session_ticket = v.new_session_ticket /\ q.client_auth = v.client_auth
        /\ q.in_msg_seq = v.in_msg_seq /\ q.checksum = v.checksum
    BY <2>2, <2>3, Completed
  <2>5. /\ Moves(p1, q) /\ q.state = "CLIENT_CERTIFICATE" /\ q.flight = <<>>
        /\ q.session = p1.session /\ q.in_epoch = p1.in_epoch /\ q.client_auth = p1.client_auth
        /\ q.keep_current_message = p1.keep_current_message
        /\ q.new_session_ticket = p1.new_session_ticket
        /\ q.in_msg_seq = p1.in_msg_seq /\ q.checksum = p1.checksum
    BY <2>3, <2>4, MovesOn
  <2>6. Parsed(p, m, q)
    BY <1>4, <2>5, MovesOn DEF Parsed
  <2>7. Remembered(conf, "client", q)
    BY <1>1, <1>2, <1>4, <1>12, <1>16, <2>5, ConfTyping
       DEF Remembered, Hello, ClientHasFinished, Closed, ClientStates
  <2>8. /\ q.keep_current_message = <<>> /\ q.session = p.session
        /\ q.flight = <<>> /\ q.state \notin Reads["client"]
        /\ q.state # "HANDSHAKE_OVER" /\ q.state # "SERVER_HELLO_DONE"
    BY <1>4, <2>5 DEF Reads
  <2>9. /\ p.state \notin Hello /\ q.state \in ClientStates(conf) \ Hello
        /\ ClientIn(conf, q.state, First(conf)) = ClientIn(conf, p.state, First(conf)) + 1
        /\ ClientOut(conf, q.state, First(conf)) = ClientOut(conf, p.state, First(conf))
        /\ HasRead(conf, "client", q.state) = HasRead(conf, "client", p.state)
        /\ HasWritten(conf, "client", q.state) = HasWritten(conf, "client", p.state)
    BY <1>12, <1>2, <1>16, <2>5, Numbers, ConfTyping DEF ClientStates, ClientIn, ClientOut, ClientHasFinished,
       HasRead, HasWritten, Hello, Closed
  <2>10. EndpointInv(conf, "client", q)
    BY <1>10, <2>1, <2>5, <2>6, <2>7, <2>8, <2>9
  <2> QED
    BY <2>10 DEF q, p1
<1>17. CASE p.state = "NEW_SESSION_TICKET"
  <2>1. m.type = "NewSessionTicket"
    BY <1>1, <1>2, <1>17, ClientExpects
  <2>2. q = [p1 EXCEPT !.new_session_ticket = FALSE, !.state = "SERVER_CHANGE_CIPHER_SPEC"]
    <3>1. q = ParseNewSessionTicket(p1, m)
      BY <1>4, <1>17, ParseCases
    <3> HIDE DEF q
    <3> QED
      BY <2>1, <3>1 DEF ParseNewSessionTicket, Expect
  <2> HIDE DEF q
  <2>3. /\ Moves(p1, q) /\ q.state = "SERVER_CHANGE_CIPHER_SPEC" /\ q.flight = p1.flight
        /\ q.session = p1.session /\ q.in_epoch = p1.in_epoch /\ q.client_auth = p1.client_auth
        /\ q.keep_current_message = p1.keep_current_message
        /\ q.in_msg_seq = p1.in_msg_seq /\ q.checksum = p1.checksum
    BY <1>4, <2>2 DEF Contexts, Moves
  <2>4. Parsed(p, m, q)
    BY <1>4, <2>3, MovesOn DEF Parsed
  <2>5. Remembered(conf, "client", q)
    BY <2>3, ConfTyping DEF Remembered, Hello, ClientHasFinished, Closed
  <2>6. /\ q.keep_current_message = <<>> /\ q.state # "SERVER_HELLO_DONE"
        /\ q.session = p.session /\ q.flight = p.flight
    BY <1>4, <2>3
  <2>7. /\ p.state \notin Hello /\ q.state \in ClientStates(conf) \ Hello
        /\ ClientIn(conf, q.state, First(conf)) = ClientIn(conf, p.state, First(conf)) + 1
        /\ ClientOut(conf, q.state, First(conf)) = ClientOut(conf, p.state, First(conf))
        /\ HasRead(conf, "client", q.state) = HasRead(conf, "client", p.state)
        /\ HasWritten(conf, "client", q.state) = HasWritten(conf, "client", p.state)
    BY <1>12, <1>17, <2>3, Numbers, ConfTyping DEF ClientStates, ClientIn, ClientOut, ClientHasFinished,
       HasRead, HasWritten, Hello, Closed
  <2>8. EndpointInv(conf, "client", q)
    BY <1>10, <2>1, <2>3, <2>4, <2>5, <2>6, <2>7
  <2> QED
    BY <2>8 DEF q, p1
<1>18. CASE p.state = "SERVER_FINISHED"
  <2>1. m.type = "Finished" /\ m.hash = ssl["client"].checksum
    BY ZenonT(40), <1>1, <1>2, <1>18, ClientExpects
  <2> DEFINE v == Goto(p1, (IF conf.resume THEN "CLIENT_CHANGE_CIPHER_SPEC" ELSE "HANDSHAKE_WRAPUP"))
  <2>2. q = RecvFlightCompleted(v)
    <3>1. q = ParseFinished("client", p1, m, ssl["client"].checksum)
      BY <1>4, <1>18, ParseCases DEF FinishedStates
    <3> HIDE DEF q
    <3> QED
      BY <2>1, <3>1 DEF ParseFinished
  <2>3. v \in Contexts /\ Moves(p1, v)
        /\ v.state = (IF conf.resume THEN "CLIENT_CHANGE_CIPHER_SPEC" ELSE "HANDSHAKE_WRAPUP")
        /\ v.session = p1.session /\ v.in_epoch = p1.in_epoch /\ v.client_auth = p1.client_auth
        /\ v.keep_current_message = p1.keep_current_message
        /\ v.new_session_ticket = p1.new_session_ticket
        /\ v.in_msg_seq = p1.in_msg_seq /\ v.checksum = p1.checksum
    BY <1>4, WentTo
  <2> HIDE DEF q, v
  <2>4. /\ Moves(v, q) /\ q.state = v.state /\ q.flight = <<>> /\ q.session = v.session
        /\ q.in_epoch = v.in_epoch /\ q.keep_current_message = v.keep_current_message
        /\ q.new_session_ticket = v.new_session_ticket /\ q.client_auth = v.client_auth
        /\ q.in_msg_seq = v.in_msg_seq /\ q.checksum = v.checksum
    BY <2>2, <2>3, Completed
  <2>5. /\ Moves(p1, q) /\ q.flight = <<>>
        /\ q.state = (IF conf.resume THEN "CLIENT_CHANGE_CIPHER_SPEC" ELSE "HANDSHAKE_WRAPUP")
        /\ q.session = p1.session /\ q.in_epoch = p1.in_epoch /\ q.client_auth = p1.client_auth
        /\ q.keep_current_message = p1.keep_current_message
        /\ q.new_session_ticket = p1.new_session_ticket
        /\ q.in_msg_seq = p1.in_msg_seq /\ q.checksum = p1.checksum
    BY <2>3, <2>4, MovesOn
  <2>6. Parsed(p, m, q)
    BY <1>4, <2>5, MovesOn DEF Parsed
  <2>7. Remembered(conf, "client", q)
    BY <1>1, <1>2, <1>4, <1>12, <1>18, <2>5, ConfTyping
       DEF Remembered, Hello, ClientHasFinished, Closed, ClientStates
  <2>8. /\ q.keep_current_message = <<>> /\ q.session = p.session
        /\ q.flight = <<>> /\ q.state \notin Reads["client"]
        /\ q.state # "HANDSHAKE_OVER" /\ q.state # "SERVER_HELLO_DONE"
    BY <1>4, <2>5 DEF Reads
  <2>9. /\ p.state \notin Hello /\ q.state \in ClientStates(conf) \ Hello
        /\ ClientIn(conf, q.state, First(conf)) = ClientIn(conf, p.state, First(conf)) + 1
        /\ ClientOut(conf, q.state, First(conf)) = ClientOut(conf, p.state, First(conf))
        /\ HasRead(conf, "client", q.state) = HasRead(conf, "client", p.state)
        /\ HasWritten(conf, "client", q.state) = HasWritten(conf, "client", p.state)
    BY <1>12, <1>2, <1>18, <2>5, Numbers, ConfTyping DEF ClientStates, ClientIn, ClientOut, ClientHasFinished,
       HasRead, HasWritten, Hello, Closed
  <2>10. EndpointInv(conf, "client", q)
    BY <1>10, <2>1, <2>5, <2>6, <2>7, <2>8, <2>9
  <2> QED
    BY <2>10 DEF q, p1
<1> QED
  BY <1>8, <1>9, <1>13, <1>14, <1>15, <1>16, <1>17, <1>18 DEF Reads, CcsStates

\* And so the server.
LEMMA ServerParses ==
  ASSUME conf \in Confs, NEW p \in Contexts, EndpointInv(conf, "server", p),
         p.state \in Reads["server"] \ CcsStates,
         NEW m \in Messages, ClientSays(conf, m), m.seq = p.in_msg_seq,
         ssl["server"].checksum = p.checksum
  PROVE  EndpointInv(conf, "server", Parse("server", UpdateHandshakeStatus(p, m), m))
<1> DEFINE p1 == UpdateHandshakeStatus(p, m)
           q == Parse("server", p1, m)
           n == p.in_msg_seq + p.out_msg_seq - 2 * One(p.cookie)
<1> USE DEF States
<1>1. Place(conf, "server", p) /\ FlightInv(conf, "server", p) /\ Early(conf, "server", p)
      /\ p.ret \in {"ok", "timeout"}
  BY DEF EndpointInv
<1>2. IsHandshake(m)
  BY <1>1, ServerExpects
<1>3. /\ p1 \in Contexts
      /\ Moves(p, p1) /\ p1.state = p.state /\ p1.flight = p.flight /\ p1.session = p.session
      /\ p1.in_epoch = p.in_epoch /\ p1.keep_current_message = p.keep_current_message
      /\ p1.in_msg_seq = p.in_msg_seq + 1 /\ p1.in_msg_seq \in Nat
      /\ p1.checksum = Append(p.checksum, Digest(m))
  BY <1>2, Updated
<1>4. Digest(m) = Transcript(conf, One(p.cookie))[n + 1]
  BY <1>1, ServerExpects
<1>5. p.out_msg_seq \in Nat /\ p.in_msg_seq \in Nat
  BY DEF Contexts
<1>6. p.state \notin Hello
  BY DEF Reads, Hello
<1> HIDE DEF p1
<1>7. ASSUME NEW r, Parsed(p, m, r), r.session = p.session,
             r.keep_current_message = p.keep_current_message,
             \/ r.flight = p.flight
             \/ r.flight = <<>> /\ r.state \notin Reads["server"] /\ r.state # "HANDSHAKE_OVER",
             r.state \in ServerStates(conf) \ Hello,
             ServerIn(conf, r.state, First(conf)) = ServerIn(conf, p.state, First(conf)) + 1,
             ServerOut(conf, r.state, First(conf)) = ServerOut(conf, p.state, First(conf)),
             HasRead(conf, "server", r.state) = HasRead(conf, "server", p.state),
             HasWritten(conf, "server", r.state) = HasWritten(conf, "server", p.state)
      PROVE  EndpointInv(conf, "server", r)
  <2>1. p.cookie = conf.cookies /\ p.session = 1
        /\ p.in_msg_seq = ServerIn(conf, p.state, One(p.cookie))
        /\ p.out_msg_seq = ServerOut(conf, p.state, One(p.cookie))
        /\ p.in_epoch = One(HasRead(conf, "server", p.state))
        /\ p.out_epoch = One(HasWritten(conf, "server", p.state)) /\ p.alt_epoch = 0
    BY <1>1, <1>6 DEF Place
  <2>2. r.cookie = conf.cookies /\ r.out_msg_seq = p.out_msg_seq /\ r.in_msg_seq = p.in_msg_seq + 1
        /\ r.in_epoch = p.in_epoch /\ r.out_epoch = p.out_epoch /\ r.alt_epoch = 0
        /\ r.checksum = Append(p.checksum, Digest(m)) /\ r.ret = p.ret
    BY <1>7, <2>1 DEF Parsed, Moves
  <2>3. One(r.cookie) = First(conf) /\ One(p.cookie) = First(conf)
    BY <2>1, <2>2 DEF First
  <2>4. r.checksum = Hash(conf, One(r.cookie), r.in_msg_seq + r.out_msg_seq - 2 * One(r.cookie))
    <3>1. r.in_msg_seq + r.out_msg_seq = p.in_msg_seq + p.out_msg_seq + 1
          /\ r.in_msg_seq \in Nat /\ r.out_msg_seq \in Nat
      BY <1>5, <2>2
    <3>2. "server" \in Endpoints /\ p.state # "CLIENT_HELLO"
      BY <1>6 DEF Endpoints, Hello
    <3> QED
      BY <1>1, <1>4, <2>1, <2>2, <3>1, <3>2, Hashed
  <2>5. r.state # "CLIENT_HELLO"
    BY <1>7 DEF Hello
  <2>6. Place(conf, "server", r)
    BY <1>7, <2>1, <2>2, <2>3, <2>4, <2>5 DEF Place
  <2>7. FlightInv(conf, "server", r)
    BY <1>1, <1>7, FlightKept DEF Parsed
  <2>8. Early(conf, "server", r)
    <3>1. p.keep_current_message = <<>>
      BY <1>1 DEF Early
    <3> QED
      BY <1>1, <1>7, <3>1, EarlyKept DEF Parsed
  <2> QED
    BY <1>1, <2>2, <2>6, <2>7, <2>8 DEF EndpointInv, Remembered
<1>8. p.state \in ServerStates(conf)
  BY <1>1 DEF Place
<1>9. CASE p.state = "CLIENT_CERTIFICATE"
  <2>1. m.type = "Certificate"
    BY <1>1, <1>9, ServerExpects
  <2>2. q = Goto(p1, "CLIENT_KEY_EXCHANGE")
    <3>1. q = ParseCertificate("server", p1, m)
      BY <1>3, <1>9, ParseCases
    <3> HIDE DEF q
    <3> QED
      BY <2>1, <3>1 DEF ParseCertificate, Expect
  <2> HIDE DEF q
  <2>3. /\ Moves(p1, q) /\ q.state = "CLIENT_KEY_EXCHANGE"
        /\ q.flight = p1.flight
        /\ q.session = p1.session /\ q.in_epoch = p1.in_epoch
        /\ q.keep_current_message = p1.keep_current_message
        /\ q.in_msg_seq = p1.in_msg_seq /\ q.checksum = p1.checksum
    BY <1>3, <2>2, WentTo
  <2>4. Parsed(p, m, q)
    BY <1>3, <2>3, MovesOn DEF Parsed
  <2>5. q.session = p.session /\ q.flight = p.flight
        /\ q.keep_current_message = p.keep_current_message
    BY <1>3, <2>3
  <2>6. /\ q.state \in ServerStates(conf) \ Hello
        /\ ServerIn(conf, q.state, First(conf)) = ServerIn(conf, p.state, First(conf)) + 1
        /\ ServerOut(conf, q.state, First(conf)) = ServerOut(conf, p.state, First(conf))
        /\ HasRead(conf, "server", q.state) = HasRead(conf, "server", p.state)
        /\ HasWritten(conf, "server", q.state) = HasWritten(conf, "server", p.state)
    BY <1>8, <1>9, <2>3, Numbers, ConfTyping DEF ServerStates, ServerIn, ServerOut, ServerHasFinished,
       HasRead, HasWritten, Hello, Closed
  <2>7. EndpointInv(conf, "server", q)
    BY <1>7, <2>3, <2>4, <2>5, <2>6
  <2> QED
    BY <2>7 DEF q, p1
<1>10. CASE p.state = "CLIENT_KEY_EXCHANGE"
  <2>1. m.type = "ClientKeyExchange"
    BY <1>1, <1>10, ServerExpects
  <2>2. q = Goto(p1, (IF conf.auth THEN "CERTIFICATE_VERIFY" ELSE "CLIENT_CHANGE_CIPHER_SPEC"))
    <3>1. q = ParseClientKeyExchange(p1, m)
      BY <1>3, <1>10, ParseCases
    <3> HIDE DEF q
    <3> QED
      BY <2>1, <3>1 DEF ParseClientKeyExchange, Expect
  <2> HIDE DEF q
  <2>3. /\ Moves(p1, q) /\ q.state = (IF conf.auth THEN "CERTIFICATE_VERIFY" ELSE "CLIENT_CHANGE_CIPHER_SPEC")
        /\ q.flight = p1.flight
        /\ q.session = p1.session /\ q.in_epoch = p1.in_epoch
        /\ q.keep_current_message = p1.keep_current_message
        /\ q.in_msg_seq = p1.in_msg_seq /\ q.checksum = p1.checksum
    BY <1>3, <2>2, WentTo
  <2>4. Parsed(p, m, q)
    BY <1>3, <2>3, MovesOn DEF Parsed
  <2>5. q.session = p.session /\ q.flight = p.flight
        /\ q.keep_current_message = p.keep_current_message
    BY <1>3, <2>3
  <2>6. /\ q.state \in ServerStates(conf) \ Hello
        /\ ServerIn(conf, q.state, First(conf)) = ServerIn(conf, p.state, First(conf)) + 1
        /\ ServerOut(conf, q.state, First(conf)) = ServerOut(conf, p.state, First(conf))
        /\ HasRead(conf, "server", q.state) = HasRead(conf, "server", p.state)
        /\ HasWritten(conf, "server", q.state) = HasWritten(conf, "server", p.state)
    BY <1>8, <1>10, <2>3, Numbers, ConfTyping DEF ServerStates, ServerIn, ServerOut, ServerHasFinished,
       HasRead, HasWritten, Hello, Closed
  <2>7. EndpointInv(conf, "server", q)
    BY <1>7, <2>3, <2>4, <2>5, <2>6
  <2> QED
    BY <2>7 DEF q, p1
<1>11. CASE p.state = "CERTIFICATE_VERIFY"
  <2>1. m.type = "CertificateVerify"
    BY <1>1, <1>11, ServerExpects
  <2>2. q = Goto(p1, "CLIENT_CHANGE_CIPHER_SPEC")
    <3>1. q = ParseCertificateVerify(p1, m)
      BY <1>3, <1>11, ParseCases
    <3> HIDE DEF q
    <3> QED
      BY <2>1, <3>1 DEF ParseCertificateVerify, Expect
  <2> HIDE DEF q
  <2>3. /\ Moves(p1, q) /\ q.state = "CLIENT_CHANGE_CIPHER_SPEC"
        /\ q.flight = p1.flight
        /\ q.session = p1.session /\ q.in_epoch = p1.in_epoch
        /\ q.keep_current_message = p1.keep_current_message
        /\ q.in_msg_seq = p1.in_msg_seq /\ q.checksum = p1.checksum
    BY <1>3, <2>2, WentTo
  <2>4. Parsed(p, m, q)
    BY <1>3, <2>3, MovesOn DEF Parsed
  <2>5. q.session = p.session /\ q.flight = p.flight
        /\ q.keep_current_message = p.keep_current_message
    BY <1>3, <2>3
  <2>6. /\ q.state \in ServerStates(conf) \ Hello
        /\ ServerIn(conf, q.state, First(conf)) = ServerIn(conf, p.state, First(conf)) + 1
        /\ ServerOut(conf, q.state, First(conf)) = ServerOut(conf, p.state, First(conf))
        /\ HasRead(conf, "server", q.state) = HasRead(conf, "server", p.state)
        /\ HasWritten(conf, "server", q.state) = HasWritten(conf, "server", p.state)
    BY <1>8, <1>11, <2>3, Numbers, ConfTyping DEF ServerStates, ServerIn, ServerOut, ServerHasFinished,
       HasRead, HasWritten, Hello, Closed
  <2>7. EndpointInv(conf, "server", q)
    BY <1>7, <2>3, <2>4, <2>5, <2>6
  <2> QED
    BY <2>7 DEF q, p1
<1>12. CASE p.state = "CLIENT_FINISHED"
  <2>1. m.type = "Finished" /\ m.hash = ssl["server"].checksum
    BY <1>1, <1>12, ServerExpects
  <2> DEFINE v == Goto(p1, (IF conf.resume THEN "HANDSHAKE_WRAPUP" ELSE "SERVER_CHANGE_CIPHER_SPEC"))
  <2>2. q = RecvFlightCompleted(v)
    <3>1. q = ParseFinished("server", p1, m, ssl["server"].checksum)
      BY <1>3, <1>12, ParseCases DEF FinishedStates
    <3> HIDE DEF q
    <3> QED
      BY <2>1, <3>1 DEF ParseFinished
  <2>3. v \in Contexts /\ Moves(p1, v)
        /\ v.state = (IF conf.resume THEN "HANDSHAKE_WRAPUP" ELSE "SERVER_CHANGE_CIPHER_SPEC")
        /\ v.session = p1.session /\ v.in_epoch = p1.in_epoch
        /\ v.keep_current_message = p1.keep_current_message
        /\ v.in_msg_seq = p1.in_msg_seq /\ v.checksum = p1.checksum
    BY <1>3, WentTo
  <2> HIDE DEF q, v
  <2>4. /\ Moves(v, q) /\ q.state = v.state /\ q.flight = <<>> /\ q.session = v.session
        /\ q.in_epoch = v.in_epoch /\ q.keep_current_message = v.keep_current_message
        /\ q.in_msg_seq = v.in_msg_seq /\ q.checksum = v.checksum
    BY <2>2, <2>3, Completed
  <2>5. /\ Moves(p1, q) /\ q.state = (IF conf.resume THEN "HANDSHAKE_WRAPUP" ELSE "SERVER_CHANGE_CIPHER_SPEC")
        /\ q.flight = <<>> /\ q.session = p1.session /\ q.in_epoch = p1.in_epoch
        /\ q.keep_current_message = p1.keep_current_message
        /\ q.in_msg_seq = p1.in_msg_seq /\ q.checksum = p1.checksum
    BY <2>3, <2>4, MovesOn
  <2>6. Parsed(p, m, q)
    BY <1>3, <2>5, MovesOn DEF Parsed
  <2>7. /\ q.keep_current_message = p.keep_current_message /\ q.session = p.session
        /\ q.flight = <<>> /\ q.state \notin Reads["server"] /\ q.state # "HANDSHAKE_OVER"
    BY <1>3, <2>5 DEF Reads
  <2>8. /\ q.state \in ServerStates(conf) \ Hello
        /\ ServerIn(conf, q.state, First(conf)) = ServerIn(conf, p.state, First(conf)) + 1
        /\ ServerOut(conf, q.state, First(conf)) = ServerOut(conf, p.state, First(conf))
        /\ HasRead(conf, "server", q.state) = HasRead(conf, "server", p.state)
        /\ HasWritten(conf, "server", q.state) = HasWritten(conf, "server", p.state)
    BY <1>8, <1>12, <2>5, Numbers, ConfTyping DEF ServerStates, ServerIn, ServerOut, ServerHasFinished,
       HasRead, HasWritten, Hello, Closed
  <2>9. EndpointInv(conf, "server", q)
    BY <1>7, <2>5, <2>6, <2>7, <2>8
  <2> QED
    BY <2>9 DEF q, p1
<1> QED
  BY <1>9, <1>10, <1>11, <1>12 DEF Reads, CcsStates

--------------------------------------------------------------------------------
(* A ChangeCipherSpec, or the message that was kept, is parsed.            *)

\* A ChangeCipherSpec where it is awaited starts the next epoch.
LEMMA ParsesChangeCipherSpec ==
  ASSUME NEW c \in Confs, NEW e \in Endpoints, NEW p \in Contexts, EndpointInv(c, e, p),
         p.state \in Reads[e] \cap CcsStates
  PROVE  EndpointInv(c, e, Parse(e, UpdateHandshakeStatus(p, ChangeCipherSpec), ChangeCipherSpec))
<1> DEFINE after == IF e = "client" THEN "SERVER_FINISHED" ELSE "CLIENT_FINISHED"
           q == [p EXCEPT !.in_epoch = @ + 1, !.state = after]
<1>1. Parse(e, UpdateHandshakeStatus(p, ChangeCipherSpec), ChangeCipherSpec) = q
  <2>1. UpdateHandshakeStatus(p, ChangeCipherSpec) = p
    BY PlainMessages DEF UpdateHandshakeStatus, IsHandshake
  <2>2. Parse(e, p, ChangeCipherSpec) = ParseChangeCipherSpec(e, p, ChangeCipherSpec)
    BY ParseCases
  <2> QED
    BY <2>1, <2>2, PlainMessages DEF ParseChangeCipherSpec, Expect
<1>2. /\ q.in_epoch = p.in_epoch + 1 /\ q.state = after
      /\ Moves(p, q) /\ q.flight = p.flight /\ q.session = p.session
      /\ q.keep_current_message = p.keep_current_message
      /\ q.new_session_ticket = p.new_session_ticket /\ q.client_auth = p.client_auth
      /\ q.in_msg_seq = p.in_msg_seq /\ q.checksum = p.checksum
  BY DEF Contexts, Moves
<1>3. p.state = IF e = "client" THEN "SERVER_CHANGE_CIPHER_SPEC" ELSE "CLIENT_CHANGE_CIPHER_SPEC"
  BY DEF Reads, CcsStates, Endpoints
<1> HIDE DEF q
<1>4. Place(c, e, p) /\ FlightInv(c, e, p) /\ Early(c, e, p) /\ Remembered(c, e, p)
      /\ p.ret \in {"ok", "timeout"}
  BY DEF EndpointInv
<1>5. Place(c, e, q)
  <2>1. CASE e = "client"
    <3>1. /\ ClientIn(c, q.state, One(q.cookie)) = ClientIn(c, p.state, One(q.cookie))
          /\ ClientOut(c, q.state, One(q.cookie)) = ClientOut(c, p.state, One(q.cookie))
          /\ One(q.state \notin Hello) = One(p.state \notin Hello)
          /\ q.state \in ClientStates(c) /\ p.state \notin Hello
          /\ One(HasRead(c, e, p.state)) = 0 /\ One(HasRead(c, e, q.state)) = 1
          /\ HasWritten(c, e, q.state) = HasWritten(c, e, p.state)
      BY <1>2, <1>3, <2>1 DEF ClientIn, ClientOut, ClientHasFinished, ClientStates, HasRead, HasWritten,
         Hello, Closed, One
    <3> QED
      BY <1>2, <1>4, <2>1, <3>1 DEF Place, Moves
  <2>2. CASE e = "server"
    <3>1. /\ ServerIn(c, q.state, One(q.cookie)) = ServerIn(c, p.state, One(q.cookie))
          /\ ServerOut(c, q.state, One(q.cookie)) = ServerOut(c, p.state, One(q.cookie))
          /\ q.state # "CLIENT_HELLO"
          /\ q.state \in ServerStates(c) /\ p.state \notin Hello
          /\ One(HasRead(c, e, p.state)) = 0 /\ One(HasRead(c, e, q.state)) = 1
          /\ HasWritten(c, e, q.state) = HasWritten(c, e, p.state)
      BY <1>2, <1>3, <2>2 DEF ServerIn, ServerOut, ServerHasFinished, ServerStates, HasRead, HasWritten,
         Hello, Closed, One
    <3> QED
      BY <1>2, <1>4, <2>2, <3>1 DEF Place, Moves
  <2> QED
    BY <2>1, <2>2 DEF Endpoints
<1>6. FlightInv(c, e, q)
  BY <1>2, <1>4, FlightKept
<1>7. Early(c, e, q)
  <2>1. q.state # "SERVER_HELLO_DONE" /\ p.state # "SERVER_HELLO_DONE"
    BY <1>2, <1>3
  <2>2. q.keep_current_message = <<>>
    BY <1>2, <1>4, <2>1 DEF Early
  <2> QED
    BY <1>2, <1>4, <2>1, <2>2, EarlyKept
<1>8. Remembered(c, e, q)
  BY <1>2, <1>3, <1>4 DEF Remembered, Hello, ClientHasFinished, Closed
<1> QED
  BY <1>1, <1>2, <1>4, <1>5, <1>6, <1>7, <1>8 DEF EndpointInv, Moves

\* The message that was kept is the end of the server's flight.
LEMMA ParsesKept ==
  ASSUME NEW c \in Confs, NEW e \in Endpoints, NEW p \in Contexts, EndpointInv(c, e, p),
         p.state \in Reads[e], p.keep_current_message # <<>>
  PROVE  EndpointInv(c, e, Parse(e, [p EXCEPT !.keep_current_message = <<>>],
                                 Head(p.keep_current_message)))
<1> DEFINE m == Message("ServerHelloDone", First(c) + 2, 1, FALSE, <<>>)
           p1 == [p EXCEPT !.keep_current_message = <<>>]
           v == Goto(p1, "CLIENT_CERTIFICATE")
           q == RecvFlightCompleted(v)
<1>1. Place(c, e, p) /\ FlightInv(c, e, p) /\ Early(c, e, p) /\ Remembered(c, e, p)
      /\ p.ret \in {"ok", "timeout"}
  BY DEF EndpointInv
<1>2. e = "client" /\ p.state = "SERVER_HELLO_DONE" /\ ~c.auth /\ p.keep_current_message = <<m>>
  BY <1>1 DEF Early
<1>3. p1 \in Contexts /\ Moves(p, p1) /\ p1.state = p.state /\ p1.flight = p.flight
      /\ p1.session = p.session /\ p1.in_epoch = p.in_epoch /\ p1.keep_current_message = <<>>
      /\ p1.new_session_ticket = p.new_session_ticket /\ p1.client_auth = p.client_auth
      /\ p1.in_msg_seq = p.in_msg_seq /\ p1.checksum = p.checksum
  BY Empties DEF Contexts, Moves
<1>4. Parse(e, p1, Head(p.keep_current_message)) = q
  <2>1. Head(p.keep_current_message) = m /\ m.type = "ServerHelloDone"
    BY <1>2 DEF Message
  <2>2. p1.state = "SERVER_HELLO_DONE"
    BY <1>2, <1>3
  <2> HIDE DEF p1, m
  <2>3. Parse(e, p1, m) = ParseServerHelloDone(p1, m)
    BY <2>2, ParseCases
  <2> QED
    BY <2>1, <2>3 DEF ParseServerHelloDone, Expect
<1> HIDE DEF p1
<1>5. /\ v \in Contexts
      /\ Moves(p1, v) /\ v.state = "CLIENT_CERTIFICATE" /\ v.session = p1.session
      /\ v.in_epoch = p1.in_epoch /\ v.keep_current_message = p1.keep_current_message
      /\ v.new_session_ticket = p1.new_session_ticket /\ v.client_auth = p1.client_auth
      /\ v.in_msg_seq = p1.in_msg_seq /\ v.checksum = p1.checksum
  BY <1>3, WentTo DEF States
<1> HIDE DEF v
<1>6. /\ Moves(v, q) /\ q.state = v.state /\ q.flight = <<>> /\ q.session = v.session
      /\ q.in_epoch = v.in_epoch /\ q.keep_current_message = v.keep_current_message
      /\ q.new_session_ticket = v.new_session_ticket /\ q.client_auth = v.client_auth
      /\ q.in_msg_seq = v.in_msg_seq /\ q.checksum = v.checksum
  BY <1>5, Completed
<1> HIDE DEF q
<1>7. /\ Moves(p, q) /\ q.state = "CLIENT_CERTIFICATE" /\ q.flight = <<>> /\ q.session = p.session
      /\ q.in_epoch = p.in_epoch /\ q.keep_current_message = <<>>
      /\ q.new_session_ticket = p.new_session_ticket /\ q.client_auth = p.client_auth
      /\ q.in_msg_seq = p.in_msg_seq /\ q.checksum = p.checksum
  BY <1>3, <1>5, <1>6, MovesOn
<1>8. Place(c, e, q)
  <2>1. /\ ClientIn(c, q.state, One(q.cookie)) = ClientIn(c, p.state, One(q.cookie))
        /\ ClientOut(c, q.state, One(q.cookie)) = ClientOut(c, p.state, One(q.cookie))
        /\ One(q.state \notin Hello) = One(p.state \notin Hello)
        /\ q.state \in ClientStates(c) /\ p.state \notin Hello
        /\ HasRead(c, e, q.state) = HasRead(c, e, p.state)
        /\ HasWritten(c, e, q.state) = HasWritten(c, e, p.state)
    <3>1. ~c.resume
      BY <1>1, <1>2 DEF Place, ClientStates, Hello, Closed
    <3> QED
      BY <1>2, <1>7, <3>1, Numbers DEF ClientIn, ClientOut, ClientHasFinished, ClientStates, HasRead,
         HasWritten, Hello, Closed, One
  <2> QED
    BY <1>1, <1>2, <1>7, <2>1 DEF Place, Moves
<1>9. FlightInv(c, e, q)
  BY <1>1, <1>2, <1>7, FlightKept DEF Reads
<1>10. Early(c, e, q)
  BY <1>1, <1>7, EarlyKept
<1>11. Remembered(c, e, q)
  BY <1>1, <1>2, <1>7 DEF Remembered, Hello, ClientHasFinished, Closed
<1> QED
  BY <1>1, <1>4, <1>7, <1>8, <1>9, <1>10, <1>11 DEF EndpointInv, Moves, p1

--------------------------------------------------------------------------------
(* Steps that change little of a context.                                  *)

\* What the invariant says of an endpoint depends on these fields, and on what has
\* come early.
Alike(p, q) ==
  /\ q.cookie = p.cookie /\ q.state = p.state /\ q.session = p.session
  /\ q.in_msg_seq = p.in_msg_seq /\ q.out_msg_seq = p.out_msg_seq /\ q.in_epoch = p.in_epoch
  /\ q.out_epoch = p.out_epoch /\ q.alt_epoch = p.alt_epoch /\ q.checksum = p.checksum
  /\ q.flight = p.flight /\ q.handshake = p.handshake
  /\ q.keep_current_message = p.keep_current_message
  /\ q.new_session_ticket = p.new_session_ticket /\ q.client_auth = p.client_auth

\* A context that differs in nothing that matters is at the same place.
LEMMA AlikeKept ==
  ASSUME NEW c, NEW e, NEW p, NEW q, EndpointInv(c, e, p), Alike(p, q), q.ret \in {"ok", "timeout"},
         \A m \in q.hs : Says(c, Peer(e), m),
         \A r \in q.future_record : Sends(c, Peer(e), r)
  PROVE  EndpointInv(c, e, q)
<1>1. Place(c, e, p) => Place(c, e, q)
  BY DEF Alike, Place
<1>2. FlightInv(c, e, p) => FlightInv(c, e, q)
  BY DEF Alike, FlightInv, HasFinished
<1>3. Early(c, e, p) => Early(c, e, q)
  BY DEF Alike, Early
<1>4. Remembered(c, e, p) => Remembered(c, e, q)
  BY DEF Alike, Remembered
<1> QED
  BY <1>1, <1>2, <1>3, <1>4 DEF EndpointInv, Alike

\* The steps that mbedtls_ssl_read_record takes beside a message.
LEMMA SmallSteps ==
  ASSUME NEW c, NEW e, NEW p \in Contexts, EndpointInv(c, e, p)
  PROVE  /\ \A b \in BOOLEAN : EndpointInv(c, e, [p EXCEPT !.seen_ccs = b])
         /\ EndpointInv(c, e, [p EXCEPT !.future_record = {}])
         /\ \A r : Sends(c, Peer(e), r) => EndpointInv(c, e, [p EXCEPT !.future_record = {r}])
         /\ \A n \in Nat : EndpointInv(c, e, [p EXCEPT !.retransmit_timeout = n])
         /\ \A m : Says(c, Peer(e), m) => EndpointInv(c, e, [p EXCEPT !.hs = @ \cup {m}])
<1>1. /\ \A m \in p.hs : Says(c, Peer(e), m)
      /\ \A r \in p.future_record : Sends(c, Peer(e), r)
      /\ p.ret \in {"ok", "timeout"}
  BY DEF EndpointInv, Early
<1>2. ASSUME NEW b \in BOOLEAN PROVE EndpointInv(c, e, [p EXCEPT !.seen_ccs = b])
  <2> DEFINE q == [p EXCEPT !.seen_ccs = b]
  <2>1. Alike(p, q) /\ q.ret = p.ret /\ q.hs = p.hs /\ q.future_record = p.future_record
    BY DEF Alike, Contexts
  <2> QED
    BY <1>1, <2>1, AlikeKept
<1>3. EndpointInv(c, e, [p EXCEPT !.future_record = {}])
  <2> DEFINE q == [p EXCEPT !.future_record = {}]
  <2>1. Alike(p, q) /\ q.ret = p.ret /\ q.hs = p.hs /\ q.future_record = {}
    BY DEF Alike, Contexts
  <2> QED
    BY <1>1, <2>1, AlikeKept
<1>4. ASSUME NEW r, Sends(c, Peer(e), r) PROVE EndpointInv(c, e, [p EXCEPT !.future_record = {r}])
  <2> DEFINE q == [p EXCEPT !.future_record = {r}]
  <2>1. Alike(p, q) /\ q.ret = p.ret /\ q.hs = p.hs /\ q.future_record = {r}
    BY DEF Alike, Contexts
  <2> HIDE DEF q
  <2>2. EndpointInv(c, e, q)
    BY <1>1, <1>4, <2>1, AlikeKept
  <2> QED
    BY <2>2 DEF q
<1>5. ASSUME NEW n \in Nat PROVE EndpointInv(c, e, [p EXCEPT !.retransmit_timeout = n])
  <2> DEFINE q == [p EXCEPT !.retransmit_timeout = n]
  <2>1. Alike(p, q) /\ q.ret = p.ret /\ q.hs = p.hs /\ q.future_record = p.future_record
    BY DEF Alike, Contexts
  <2> QED
    BY <1>1, <2>1, AlikeKept
<1>6. ASSUME NEW m, Says(c, Peer(e), m) PROVE EndpointInv(c, e, [p EXCEPT !.hs = @ \cup {m}])
  <2> DEFINE q == [p EXCEPT !.hs = @ \cup {m}]
  <2>1. Alike(p, q) /\ q.ret = p.ret /\ q.hs = p.hs \cup {m} /\ q.future_record = p.future_record
    BY DEF Alike, Contexts
  <2> HIDE DEF q
  <2>2. EndpointInv(c, e, q)
    BY <1>1, <1>6, <2>1, AlikeKept
  <2> QED
    BY <2>2 DEF q
<1> QED
  BY <1>2, <1>3, <1>4, <1>5, <1>6

\* ssl_buffer_message keeps what the peer may have written.
LEMMA BufferKeeps ==
  ASSUME NEW c, NEW e, NEW p \in Contexts, EndpointInv(c, e, p),
         NEW m, m.type = "ChangeCipherSpec" \/ Says(c, Peer(e), m)
  PROVE  EndpointInv(c, e, BufferMessage(p, m))
BY SmallSteps DEF BufferMessage

\* An endpoint that gives up stays where it is.
LEMMA GivesUpKeeps ==
  ASSUME NEW c, NEW e, NEW p \in Contexts, EndpointInv(c, e, p)
  PROVE  EndpointInv(c, e, [p EXCEPT !.timer = FALSE, !.ret = "timeout"])
<1> DEFINE q == [p EXCEPT !.timer = FALSE, !.ret = "timeout"]
<1>1. Alike(p, q) /\ q.ret = "timeout" /\ q.hs = p.hs /\ q.future_record = p.future_record
  BY DEF Alike, Contexts
<1>2. /\ \A m \in p.hs : Says(c, Peer(e), m)
      /\ \A r \in p.future_record : Sends(c, Peer(e), r)
  BY DEF EndpointInv, Early
<1> QED
  BY <1>1, <1>2, AlikeKept

\* Over, the handshake no longer needs what is freed.
LEMMA FreeKeeps ==
  ASSUME NEW c, NEW e \in Endpoints, NEW p \in Contexts, p.ret \in {"ok", "timeout"},
         Place(c, e, p), Early(c, e, p), Remembered(c, e, p), p.state = "HANDSHAKE_OVER"
  PROVE  EndpointInv(c, e, FreeHandshake(p))
<1> DEFINE q == FreeHandshake(p)
<1>1. /\ q.ret = p.ret /\ Moves(p, q) /\ q.state = "HANDSHAKE_OVER" /\ q.flight = <<>>
      /\ q.session = p.session /\ q.in_epoch = p.in_epoch /\ q.handshake = FALSE
      /\ q.keep_current_message = p.keep_current_message
      /\ q.new_session_ticket = p.new_session_ticket /\ q.client_auth = p.client_auth
      /\ q.in_msg_seq = p.in_msg_seq /\ q.checksum = p.checksum
  BY DEF FreeHandshake, Contexts, Moves
<1> HIDE DEF q
<1>2. Place(c, e, q) /\ Remembered(c, e, q)
  BY <1>1 DEF Place, Remembered, Moves
<1>3. FlightInv(c, e, q)
  BY <1>1 DEF FlightInv, HasFinished, Reads, Endpoints
<1>4. Early(c, e, q)
  BY <1>1 DEF Early, Moves
<1> QED
  BY <1>1, <1>2, <1>3, <1>4 DEF EndpointInv, q

\* A record of a flight bears the epoch that it was first written in.
LEMMA EpochOfFlight ==
  ASSUME NEW c, NEW e \in Endpoints, NEW p \in Contexts, EndpointInv(c, e, p), p.flight # <<>>
  PROVE  /\ p.alt_epoch = 0 /\ p.out_epoch = IF HasFinished(p) THEN 1 ELSE 0
         /\ HasFinished(p) => p.session = 1
<1>1. /\ p.alt_epoch = 0 /\ p.out_epoch = One(HasWritten(c, e, p.state))
      /\ HasFinished(p) => p.out_epoch = 1
      /\ p.out_epoch = 1 => HasFinished(p)
  BY DEF EndpointInv, Place, FlightInv
<1>2. p.out_epoch \in {0, 1}
  BY <1>1 DEF One
<1>3. p.out_epoch = 1 => p.session = 1
  <2>1. CASE e = "client"
    BY <1>1, <2>1 DEF EndpointInv, Place, One, HasWritten, ClientHasFinished, Hello, Closed
  <2>2. CASE e = "server"
    BY <2>2 DEF EndpointInv, Place
  <2> QED
    BY <2>1, <2>2 DEF Endpoints
<1> QED
  BY <1>1, <1>2, <1>3

\* A flight sent again leaves the epochs as they are.
LEMMA TransmitKeeps ==
  ASSUME NEW c, NEW e \in Endpoints, NEW p \in Contexts, EndpointInv(c, e, p), p.flight # <<>>
  PROVE  EndpointInv(c, e, FlightTransmitted(p))
<1> DEFINE b == IF p.state = "HANDSHAKE_OVER" THEN p.timer ELSE p.retransmit_timeout # 0
           s == SwapEpochs(p)
<1>1. s \in Contexts /\ s.timer = p.timer
  BY SwapTyping DEF SwapEpochs, Contexts
<1>2. /\ Alike(p, IF HasFinished(p) THEN p ELSE s)
      /\ (IF HasFinished(p) THEN p ELSE s).hs = p.hs
      /\ (IF HasFinished(p) THEN p ELSE s).future_record = p.future_record
      /\ (IF HasFinished(p) THEN p ELSE s).ret = p.ret
  BY EpochOfFlight DEF SwapEpochs, Contexts, Alike
<1>3. FlightTransmitted(p) = [(IF HasFinished(p) THEN p ELSE s) EXCEPT !.timer = b]
  BY <1>1 DEF FlightTransmitted
<1>4. ASSUME NEW x \in Contexts, Alike(p, x), x.hs = p.hs, x.future_record = p.future_record,
             x.ret = p.ret
      PROVE  LET y == [x EXCEPT !.timer = b] IN
             Alike(p, y) /\ y.hs = p.hs /\ y.future_record = p.future_record /\ y.ret = p.ret
  BY <1>4 DEF Alike, Contexts
<1>5. LET y == FlightTransmitted(p) IN
      Alike(p, y) /\ y.hs = p.hs /\ y.future_record = p.future_record /\ y.ret = p.ret
  BY <1>1, <1>2, <1>3, <1>4
<1>6. /\ \A m \in p.hs : Says(c, Peer(e), m)
      /\ \A r \in p.future_record : Sends(c, Peer(e), r)
      /\ p.ret \in {"ok", "timeout"}
  BY DEF EndpointInv, Early
<1> QED
  BY <1>5, <1>6, AlikeKept

\* All that a flight sends is legal.
LEMMA FlightIsLegal ==
  ASSUME NEW c, NEW e \in Endpoints, NEW p \in Contexts, EndpointInv(c, e, p), p.flight # <<>>,
         NEW r \in FlightRecords(e, p)
  PROVE  Sends(c, e, r) /\ \E i \in DOMAIN p.flight : r.msg = p.flight[i]
<1> DEFINE first == SwapEpochs(p)
           second == SwapEpochs(first)
<1>1. PICK m \in ToSet(p.flight) : r = Record(e, IF m.type = "Finished" THEN second ELSE first, m)
  BY DEF FlightRecords
<1>2. PICK i \in DOMAIN p.flight : m = p.flight[i]
  BY DEF ToSet
<1>3. m = ChangeCipherSpec \/ Says(c, e, m)
  BY <1>2 DEF EndpointInv, FlightInv
<1>4. m.type = "Finished" => HasFinished(p)
  BY <1>2 DEF HasFinished
<1>5. /\ first.out_epoch = 0 /\ first.session = p.session
      /\ second.out_epoch = p.out_epoch /\ second.session = p.session
  BY EpochOfFlight DEF SwapEpochs, Contexts
<1>6. CASE m.type = "Finished"
  <2>1. r = Record(e, second, m) /\ p.out_epoch = 1 /\ p.session = 1
    BY <1>1, <1>4, <1>6, EpochOfFlight
  <2>2. r.from = e /\ r.epoch = 1 /\ r.key = 1 /\ r.msg = m
    BY <1>5, <2>1 DEF Record
  <2>3. m # ChangeCipherSpec
    BY <1>6, PlainMessages
  <2> QED
    BY <1>2, <1>3, <1>6, <2>2, <2>3 DEF Sends
<1>7. CASE m.type # "Finished"
  <2>1. r = Record(e, first, m)
    BY <1>1, <1>7
  <2>2. r.from = e /\ r.epoch = 0 /\ r.key = 0 /\ r.msg = m
    BY <1>5, <2>1 DEF Record
  <2> QED
    BY <1>2, <1>3, <1>7, <2>2 DEF Sends
<1> QED
  BY <1>6, <1>7

--------------------------------------------------------------------------------
(* The invariant of the first session, and the steps that set one context. *)

FirstSession ==
  /\ \A e \in Endpoints : EndpointInv(conf, e, ssl[e])
  /\ \A r \in net : \E e \in Endpoints : Sends(conf, e, r)
  /\ EarlyInv

\* What EarlyInv asks of the next context of e.
Quiet(e, q) ==
  /\ e = "client" /\ ssl["server"].state \in Hello =>
       /\ q.state \in Hello /\ q.future_record = {} /\ q.hs = {}
       /\ \A i \in DOMAIN q.flight : q.flight[i].type = "ClientHello"
  /\ e = "server" /\ q.state \in Hello =>
       ssl["server"].state \in Hello /\ q.future_record = {} /\ q.flight = <<>>

\* One context steps; nothing is sent.
LEMMA SetContextKeeps ==
  ASSUME TypeOK, FirstSession, NEW e \in Endpoints, NEW q, SetContext(e, q),
         EndpointInv(conf, e, q), Quiet(e, q)
  PROVE  FirstSession'
<1>1. conf' = conf /\ net' = net /\ ssl' = [ssl EXCEPT ![e] = q]
  BY DEF SetContext
<1>2. ssl'[e] = q /\ \A f \in Endpoints \ {e} : ssl'[f] = ssl[f]
  BY <1>1 DEF TypeOK
<1>3. \A f \in Endpoints : EndpointInv(conf', f, ssl'[f])
  <2>1. ASSUME NEW f \in Endpoints PROVE EndpointInv(conf', f, ssl'[f])
    <3>1. CASE f = e
      BY <1>1, <1>2, <3>1
    <3>2. CASE f # e
      BY <1>1, <1>2, <3>2 DEF FirstSession
    <3> QED
      BY <3>1, <3>2
  <2> QED
    BY <2>1
<1>4. \A r \in net' : \E f \in Endpoints : Sends(conf', f, r)
  BY <1>1 DEF FirstSession
<1>5. EarlyInv'
  <2>1. CASE e = "client"
    BY <1>1, <1>2, <2>1 DEF FirstSession, EarlyInv, Quiet, Endpoints
  <2>2. CASE e = "server"
    BY <1>1, <1>2, <2>2 DEF FirstSession, EarlyInv, Quiet, Endpoints
  <2> QED
    BY <2>1, <2>2 DEF Endpoints
<1> QED
  BY <1>3, <1>4, <1>5 DEF FirstSession

\* One context sends its flight.
LEMMA FlightTransmitKeeps ==
  ASSUME TypeOK, FirstSession, NEW e \in Endpoints, NEW q \in Contexts, FlightTransmit(e, q),
         EndpointInv(conf, e, q), Quiet(e, q), q.flight # <<>>
  PROVE  FirstSession'
<1> DEFINE t == FlightTransmitted(q)
<1>1. conf' = conf /\ net' = net \cup FlightRecords(e, q) /\ ssl' = [ssl EXCEPT ![e] = t]
  BY DEF FlightTransmit
<1>2. t.state = q.state /\ t.flight = q.flight /\ t.hs = q.hs /\ t.future_record = q.future_record
  <2>1. LET s == SwapEpochs(q) IN
        /\ s \in Contexts /\ s.state = q.state /\ s.flight = q.flight /\ s.hs = q.hs
        /\ s.future_record = q.future_record
    BY SwapTyping DEF SwapEpochs, Contexts
  <2>2. ASSUME NEW x \in Contexts, NEW b
        PROVE  LET y == [x EXCEPT !.timer = b] IN
               y.state = x.state /\ y.flight = x.flight /\ y.hs = x.hs
               /\ y.future_record = x.future_record
    BY DEF Contexts
  <2> QED
    BY <2>1, <2>2 DEF FlightTransmitted
<1>3. EndpointInv(conf, e, t)
  BY TransmitKeeps
<1> HIDE DEF t
<1>4. ssl'[e] = t /\ \A f \in Endpoints \ {e} : ssl'[f] = ssl[f]
  BY <1>1 DEF TypeOK
<1>5. \A r \in FlightRecords(e, q) :
        Sends(conf, e, r) /\ r.from = e /\ \E i \in DOMAIN q.flight : r.msg = q.flight[i]
  BY FlightIsLegal DEF Sends
<1>6. \A f \in Endpoints : EndpointInv(conf', f, ssl'[f])
  <2>1. ASSUME NEW f \in Endpoints PROVE EndpointInv(conf', f, ssl'[f])
    <3>1. CASE f = e
      BY <1>1, <1>3, <1>4, <3>1
    <3>2. CASE f # e
      BY <1>1, <1>4, <3>2 DEF FirstSession
    <3> QED
      BY <3>1, <3>2
  <2> QED
    BY <2>1
<1>7. \A r \in net' : \E f \in Endpoints : Sends(conf', f, r)
  BY <1>1, <1>5 DEF FirstSession
<1>8. EarlyInv'
  <2>1. CASE e = "client"
    <3>1. ssl'["client"] = t /\ ssl'["server"] = ssl["server"]
      BY <1>4, <2>1 DEF Endpoints
    <3>2. SUFFICES ASSUME ssl["server"].state \in Hello
                   PROVE  /\ t.state \in Hello
                          /\ \A i \in DOMAIN t.flight : t.flight[i].type = "ClientHello"
                          /\ \A r \in net' : r.msg.type = IF r.from = "client" THEN "ClientHello"
                                                          ELSE "HelloVerifyRequest"
                          /\ t.future_record = {} /\ ssl["server"].future_record = {}
                          /\ t.hs = {} /\ ssl["server"].flight = <<>>
      BY <3>1 DEF EarlyInv, Endpoints
    <3>3. \A i \in DOMAIN q.flight : q.flight[i].type = "ClientHello"
      BY <2>1, <3>2 DEF Quiet
    <3>4. \A r \in FlightRecords(e, q) : r.msg.type = "ClientHello" /\ r.from = "client"
      BY <1>5, <2>1, <3>3
    <3> QED
      BY <1>1, <1>2, <2>1, <3>2, <3>3, <3>4 DEF Quiet, FirstSession, EarlyInv, Endpoints
  <2>2. CASE e = "server"
    <3>1. t.state \notin Hello
      BY <1>2, <2>2 DEF Quiet
    <3> QED
      BY <1>4, <2>2, <3>1 DEF EarlyInv
  <2> QED
    BY <2>1, <2>2 DEF Endpoints
<1> QED
  BY <1>6, <1>7, <1>8 DEF FirstSession

\* While the server has not answered, the client reads only HelloVerifyRequest.
LEMMA HelloIsLeft ==
  ASSUME NEW p \in Contexts, NEW m, p.state \in Reads["server"]
  PROVE  Parse("server", p, m).state \notin Hello
<1>1. ASSUME NEW q \in Contexts, NEW s \in States
      PROVE  Goto(q, s).state = s /\ Goto(q, s) \in Contexts /\ Fatal(q).state = q.state
             /\ RecvFlightCompleted(q).state = q.state
  BY GotoTyping DEF Goto, Fatal, RecvFlightCompleted, Contexts
<1>2. p.state \notin Hello
  BY DEF Reads, Hello
<1>3. CASE p.state = "CLIENT_CERTIFICATE"
  <2>1. Parse("server", p, m) = ParseCertificate("server", p, m)
    BY <1>3, ParseCases
  <2> QED
    BY <1>1, <1>2, <2>1 DEF ParseCertificate, Expect, Hello, States
<1>4. CASE p.state = "CLIENT_KEY_EXCHANGE"
  <2>1. Parse("server", p, m) = ParseClientKeyExchange(p, m)
    BY <1>4, ParseCases
  <2> QED
    BY <1>1, <1>2, <2>1 DEF ParseClientKeyExchange, Expect, Hello, States
<1>5. CASE p.state = "CERTIFICATE_VERIFY"
  <2>1. Parse("server", p, m) = ParseCertificateVerify(p, m)
    BY <1>5, ParseCases
  <2> QED
    BY <1>1, <1>2, <2>1 DEF ParseCertificateVerify, Expect, Hello, States
<1>6. CASE p.state \in CcsStates
  <2>1. Parse("server", p, m) = ParseChangeCipherSpec("server", p, m)
    BY <1>6, ParseCases
  <2>2. [p EXCEPT !.in_epoch = @ + 1, !.state = "CLIENT_FINISHED"].state = "CLIENT_FINISHED"
    BY DEF Contexts
  <2>3. ParseChangeCipherSpec("server", p, m).state \in {p.state, "CLIENT_FINISHED"}
    BY <1>1, <2>2 DEF ParseChangeCipherSpec, Expect, States
  <2> QED
    BY <1>2, <2>1, <2>3 DEF Hello
<1>7. CASE p.state \in FinishedStates
  <2>1. Parse("server", p, m) = ParseFinished("server", p, m, ssl["server"].checksum)
    BY <1>7, ParseCases
  <2> QED
    BY <1>1, <1>2, <2>1 DEF ParseFinished, Hello, States
<1> QED
  BY <1>3, <1>4, <1>5, <1>6, <1>7 DEF Reads, CcsStates, FinishedStates

\* Where a ChangeCipherSpec is awaited, the next handshake message is Finished, which
\* cannot be read yet.
LEMMA CcsFirst ==
  ASSUME NEW c \in Confs, NEW e \in Endpoints, NEW p \in Contexts, Place(c, e, p),
         p.state \in Reads[e] \cap CcsStates, NEW m, Says(c, Peer(e), m), m.seq = p.in_msg_seq
  PROVE  p.in_epoch = 0 /\ m.type = "Finished"
<1> USE ConfTyping, Numbers
<1>1. CASE e = "client"
  <2>1. p.state = "SERVER_CHANGE_CIPHER_SPEC"
    BY <1>1 DEF Reads, CcsStates
  <2>2. p.in_epoch = 0
    BY <1>1, <2>1 DEF Place, HasRead, Closed, One
  <2>3. p.in_msg_seq = First(c) + (IF c.resume THEN 1 + Tick(c) ELSE 3 + Auth(c) + Tick(c))
    BY <1>1, <2>1 DEF Place, ClientIn, Hello, First
  <2>4. ServerSays(c, m)
    BY <1>1 DEF Says, Peer
  <2> QED
    BY <2>2, <2>3, <2>4 DEF ServerSays, Message
<1>2. CASE e = "server"
  <2>1. p.state = "CLIENT_CHANGE_CIPHER_SPEC"
    BY <1>2 DEF Reads, CcsStates
  <2>2. p.in_epoch = 0
    BY <1>2, <2>1 DEF Place, HasRead, Closed, One
  <2>3. p.in_msg_seq = First(c) + (IF c.resume THEN 1 ELSE 2 + 2 * Auth(c))
    BY <1>2, <2>1 DEF Place, ServerIn, Hello, First
  <2>4. ClientSays(c, m)
    BY <1>2 DEF Says, Peer
  <2> QED
    BY <2>2, <2>3, <2>4 DEF ClientSays, Message
<1> QED
  BY <1>1, <1>2 DEF Endpoints

--------------------------------------------------------------------------------
(* Reading.                                                                *)

\* Nothing that Says or Sends is a plain message, and what a record holds is legal.
LEMMA SaidIsHandshake ==
  ASSUME NEW c \in Confs, NEW e \in Endpoints, NEW m, Says(c, e, m)
  PROVE  IsHandshake(m) /\ (m.type = "HelloVerifyRequest" => m.seq = 0)
BY ConfTyping DEF Says, ClientSays, ServerSays, Message, IsHandshake

\* p is ssl[e] but for what the read that comes before has changed.
LEMMA HandleMessageKeeps ==
  ASSUME TypeOK, FirstSession, NEW e \in Endpoints, NEW p \in Contexts,
         EndpointInv(conf, e, p), Quiet(e, p), p.checksum = ssl[e].checksum,
         p.keep_current_message = <<>>, p.state = ssl[e].state,
         p.state \in Reads[e] \cup {"HANDSHAKE_OVER"},
         NEW m \in Messages, m \in {ChangeCipherSpec, ApplicationData} \/ Says(conf, Peer(e), m),
         p.state \in CcsStates /\ IsHandshake(m) => m.seq # p.in_msg_seq,
         e = "client" /\ ssl["server"].state \in Hello => m.type = "HelloVerifyRequest",
         HandleMessage(e, p, m)
  PROVE  FirstSession'
<1>1. conf \in Confs
  BY DEF TypeOK
<1>2. e = "server" => p.state \notin Hello
  BY DEF Reads, Hello
<1>3. IsHandshake(m) => Says(conf, Peer(e), m)
  BY PlainMessages DEF IsHandshake
<1>4. CASE Passes(p, m) /\ SetContext(e, Parse(e, UpdateHandshakeStatus(p, m), m))
  <2> DEFINE q == Parse(e, UpdateHandshakeStatus(p, m), m)
  <2>1. UpdateHandshakeStatus(p, m) \in Contexts /\ UpdateHandshakeStatus(p, m).state = p.state
    BY UpdateTyping DEF UpdateHandshakeStatus, Contexts
  <2>2. m.type = "ChangeCipherSpec" => m = ChangeCipherSpec
    BY <1>1, PlainMessages, SaidIsHandshake DEF IsHandshake, Peer, Endpoints
  <2>3. m.type = "ChangeCipherSpec" => p.state \in CcsStates
    BY <1>4 DEF Passes
  <2>4. p.state \in Reads[e]
    BY <1>4, <2>3 DEF Passes, CcsStates
  <2>5. CASE m.type = "ChangeCipherSpec"
    <3>1. EndpointInv(conf, e, q)
      BY <1>1, <2>2, <2>3, <2>4, <2>5, ParsesChangeCipherSpec
    <3>2. Quiet(e, q)
      <4>1. CASE e = "client"
        <5>1. ssl["server"].state \notin Hello
          BY <2>5, <4>1
        <5> QED
          BY <4>1, <5>1 DEF Quiet
      <4>2. CASE e = "server"
        BY <2>1, <2>4, <4>2, HelloIsLeft DEF Quiet
      <4> QED
        BY <4>1, <4>2 DEF Endpoints
    <3> QED
      BY <1>4, <3>1, <3>2, SetContextKeeps
  <2>6. CASE m.type # "ChangeCipherSpec"
    <3>1. IsHandshake(m) /\ m.seq = p.in_msg_seq
      BY <1>4, <2>6 DEF Passes
    <3>2. p.state \in Reads[e] \ CcsStates
      BY <2>4, <3>1
    <3>3. CASE e = "client"
      <4>1. ServerSays(conf, m)
        BY <1>3, <3>1, <3>3 DEF Says, Peer
      <4>2. EndpointInv(conf, e, q)
        BY <1>1, <3>1, <3>2, <3>3, <4>1, ClientParses
      <4>3. Quiet(e, q)
        <5>1. SUFFICES ASSUME ssl["server"].state \in Hello
                       PROVE  /\ q.state \in Hello /\ q.future_record = {} /\ q.hs = {}
                              /\ \A i \in DOMAIN q.flight : q.flight[i].type = "ClientHello"
          BY <3>3 DEF Quiet
        <5>2. p.state = "SERVER_HELLO" /\ m.type = "HelloVerifyRequest"
          BY <2>4, <3>3, <5>1 DEF Quiet, Reads, Hello
        <5> DEFINE u == UpdateHandshakeStatus(p, m)
                   v == [u EXCEPT !.state = "CLIENT_HELLO", !.checksum = <<>>, !.cookie = TRUE]
        <5>3. v \in Contexts /\ v.state = "CLIENT_HELLO"
          BY <2>1, Empties DEF Contexts, States
        <5>4. q = RecvFlightCompleted(v)
          <6>1. q = ParseServerHello(u, m)
            BY <2>1, <5>2, ParseCases
          <6> QED
            BY <5>2, <6>1 DEF ParseServerHello, ParseHelloVerifyRequest
        <5> HIDE DEF q, v
        <5>5. q.state = "CLIENT_HELLO" /\ q.flight = <<>> /\ q.hs = {} /\ q.future_record = {}
          BY <5>3, <5>4, Completed
        <5> QED
          BY <5>5 DEF Hello
      <4> QED
        BY <1>4, <4>2, <4>3, SetContextKeeps
    <3>4. CASE e = "server"
      <4>1. ClientSays(conf, m)
        BY <1>3, <3>1, <3>4 DEF Says, Peer
      <4>2. EndpointInv(conf, e, q)
        BY <1>1, <3>1, <3>2, <3>4, <4>1, ServerParses
      <4>3. Quiet(e, q)
        BY <2>1, <2>4, <3>4, HelloIsLeft DEF Quiet
      <4> QED
        BY <1>4, <4>2, <4>3, SetContextKeeps
    <3> QED
      BY <3>3, <3>4 DEF Endpoints
  <2> QED
    BY <2>5, <2>6
<1>5. CASE ComesEarly(p, m) /\ SetContext(e, BufferMessage(p, m))
  <2>1. m.type = "ChangeCipherSpec" \/ Says(conf, Peer(e), m)
    BY <1>3, <1>5 DEF ComesEarly
  <2>2. EndpointInv(conf, e, BufferMessage(p, m))
    BY <2>1, BufferKeeps
  <2>3. BufferMessage(p, m).state = p.state
    BY DEF BufferMessage, Contexts
  <2>4. Quiet(e, BufferMessage(p, m))
    <3>1. CASE e = "client"
      <4>1. SUFFICES ASSUME ssl["server"].state \in Hello PROVE FALSE
        BY <3>1 DEF Quiet
      <4>2. m.type = "HelloVerifyRequest" /\ IsHandshake(m)
        BY <3>1, <4>1 DEF IsHandshake
      <4>3. m.seq = 0
        BY <1>1, <1>3, <4>2, SaidIsHandshake DEF Peer, Endpoints
      <4>4. m.seq > p.in_msg_seq /\ p.in_msg_seq \in Nat
        BY <1>5, <4>2 DEF ComesEarly, Contexts
      <4> QED
        BY <4>3, <4>4
    <3>2. CASE e = "server"
      BY <1>2, <2>3, <3>2 DEF Quiet
    <3> QED
      BY <3>1, <3>2 DEF Endpoints
  <2> QED
    BY <1>5, <2>2, <2>4, SetContextKeeps
<1>6. CASE AsksAgain(p, m) /\ FlightTransmit(e, p)
  <2>1. p.handshake
    BY <1>6 DEF AsksAgain
  <2>2. p.flight # <<>>
    BY <2>1 DEF EndpointInv, FlightInv
  <2> QED
    BY <1>6, <2>2, FlightTransmitKeeps
<1>7. CASE /\ m.type = "ApplicationData" /\ p.state = "HANDSHAKE_OVER" /\ p.handshake
           /\ SetContext(e, FreeHandshake(p))
  <2>1. EndpointInv(conf, e, FreeHandshake(p))
    BY <1>7, FreeKeeps DEF EndpointInv
  <2>2. FreeHandshake(p).state = "HANDSHAKE_OVER"
    BY <1>7 DEF FreeHandshake, Contexts
  <2>3. Quiet(e, FreeHandshake(p))
    BY <1>7, <2>2 DEF Quiet, Hello
  <2> QED
    BY <1>7, <2>1, <2>3, SetContextKeeps
<1> QED
  BY <1>4, <1>5, <1>6, <1>7 DEF HandleMessage

\* And what the network brings.
LEMMA HandleRecordKeeps ==
  ASSUME TypeOK, FirstSession, NEW e \in Endpoints, NEW p \in Contexts,
         EndpointInv(conf, e, p), Quiet(e, p), p.checksum = ssl[e].checksum,
         p.keep_current_message = <<>>, p.state = ssl[e].state,
         p.state \in Reads[e] \cup {"HANDSHAKE_OVER"},
         NEW r \in Records, Sends(conf, Peer(e), r), r.epoch = p.in_epoch,
         e = "client" /\ ssl["server"].state \in Hello => r.msg.type = "HelloVerifyRequest",
         HandleRecord(e, p, r)
  PROVE  FirstSession'
<1>1. conf \in Confs /\ r.msg \in Messages
  BY DEF TypeOK, Records
<1>2. Place(conf, e, p)
  BY DEF EndpointInv
<1>3. r.msg \in {ChangeCipherSpec, ApplicationData} \/ Says(conf, Peer(e), r.msg)
  BY DEF Sends
<1>4. p.state \in CcsStates /\ IsHandshake(r.msg) => r.msg.seq # p.in_msg_seq
  <2>1. SUFFICES ASSUME p.state \in CcsStates, IsHandshake(r.msg), r.msg.seq = p.in_msg_seq
                 PROVE  FALSE
    OBVIOUS
  <2>2. p.state \in Reads[e]
    BY <2>1 DEF CcsStates
  <2>3. Says(conf, Peer(e), r.msg)
    BY <1>3, <2>1, PlainMessages DEF IsHandshake
  <2>4. p.in_epoch = 0 /\ r.msg.type = "Finished"
    BY <1>1, <1>2, <2>1, <2>2, <2>3, CcsFirst
  <2>5. r.epoch = 1
    BY <2>4, PlainMessages DEF Sends
  <2> QED
    BY <2>4, <2>5
<1>5. r.epoch = 0 \/ r.key = p.session
  <2>1. SUFFICES ASSUME r.epoch # 0 PROVE r.key = p.session
    OBVIOUS
  <2>2. r.epoch = 1 /\ r.key = 1
    BY <2>1 DEF Sends
  <2>3. HasRead(conf, e, p.state)
    BY <1>2, <2>2 DEF Place, One
  <2>4. CASE e = "client"
    BY <1>2, <2>2, <2>3, <2>4 DEF Place, HasRead, Hello, Closed, One
  <2>5. CASE e = "server"
    BY <1>2, <2>2, <2>5 DEF Place
  <2> QED
    BY <2>4, <2>5 DEF Endpoints
<1> QED
  BY <1>1, <1>3, <1>4, <1>5, HandleMessageKeeps DEF HandleRecord

\* EarlyInv holds now.
LEMMA QuietNow ==
  ASSUME FirstSession, NEW e \in Endpoints PROVE Quiet(e, ssl[e])
BY DEF FirstSession, EarlyInv, Quiet, Endpoints

\* A record from the other side is one that it may have sent.
LEMMA FromPeer ==
  ASSUME FirstSession, NEW e \in Endpoints, NEW r \in net, r.from # e
  PROVE  /\ Sends(conf, Peer(e), r)
         /\ e = "client" /\ ssl["server"].state \in Hello => r.msg.type = "HelloVerifyRequest"
<1>1. PICK f \in Endpoints : Sends(conf, f, r)
  BY DEF FirstSession
<1>2. f = Peer(e) /\ r.from = f
  BY <1>1 DEF Sends, Peer, Endpoints
<1> QED
  BY <1>1, <1>2 DEF FirstSession, EarlyInv, Peer, Endpoints

\* Reading, from the buffers or from the network, keeps the invariant.
LEMMA ReadKeeps ==
  ASSUME TypeOK, FirstSession, NEW e \in Endpoints,
         ReadKept(e) \/ ReadBufferedMessage(e) \/ ReadBufferedRecord(e) \/ ReadRecord(e)
           \/ BufferFutureRecord(e)
  PROVE  FirstSession'
<1> DEFINE p == ssl[e]
<1>1. p \in Contexts /\ conf \in Confs
  BY DEF TypeOK
<1>2. EndpointInv(conf, e, p) /\ Quiet(e, p)
  BY QuietNow DEF FirstSession
<1>3. p.state \in Reads[e] \cup {"HANDSHAKE_OVER"}
  BY DEF ReadKept, ReadBufferedMessage, ReadBufferedRecord, ReadRecord, BufferFutureRecord, Waiting,
         Over
<1>4. /\ \A m \in p.hs : Says(conf, Peer(e), m)
      /\ \A r \in p.future_record : Sends(conf, Peer(e), r)
      /\ Place(conf, e, p)
  BY <1>2 DEF EndpointInv, Early
<1>5. CASE ReadKept(e)
  <2> DEFINE q == Parse(e, [p EXCEPT !.keep_current_message = <<>>], Head(p.keep_current_message))
  <2>1. p.state \in Reads[e] /\ p.keep_current_message # <<>> /\ SetContext(e, q)
    BY <1>5 DEF ReadKept, Waiting
  <2>2. EndpointInv(conf, e, q)
    BY <1>1, <1>2, <2>1, ParsesKept
  <2>3. e = "client" /\ p.state = "SERVER_HELLO_DONE"
    BY <1>2, <2>1 DEF EndpointInv, Early
  <2>4. ssl["server"].state \notin Hello
    BY <1>2, <2>3 DEF Quiet, Hello
  <2> QED
    BY <2>1, <2>2, <2>3, <2>4, SetContextKeeps DEF Quiet
<1>6. CASE ReadBufferedMessage(e)
  <2>1. PICK m \in BufferedMessages(p) :
          HandleMessage(e, [p EXCEPT !.seen_ccs = @ /\ IsHandshake(m)], m)
    BY <1>6 DEF ReadBufferedMessage
  <2>2. m \in Messages
    BY ContextOf, PlainMessages DEF BufferedMessages
  <2>3. (p.seen_ccs /\ IsHandshake(m)) \in BOOLEAN
    BY <1>1, Zenon DEF Contexts
  <2>4. PICK b \in BOOLEAN : HandleMessage(e, [p EXCEPT !.seen_ccs = b], m)
    BY <2>1, <2>3
  <2> DEFINE s == [p EXCEPT !.seen_ccs = b]
  <2>5. /\ s \in Contexts /\ s.state = p.state /\ s.checksum = p.checksum
        /\ s.keep_current_message = p.keep_current_message /\ s.in_msg_seq = p.in_msg_seq
        /\ s.future_record = p.future_record /\ s.hs = p.hs /\ s.flight = p.flight
    BY <1>1 DEF Contexts
  <2>6. EndpointInv(conf, e, s)
    BY <1>1, <1>2, SmallSteps
  <2> HIDE DEF s
  <2>7. Quiet(e, s)
    BY <1>2, <2>5 DEF Quiet
  <2>8. m \in {ChangeCipherSpec, ApplicationData} \/ Says(conf, Peer(e), m)
    BY <1>4 DEF BufferedMessages
  <2>9. s.state \in CcsStates /\ IsHandshake(m) => m.seq # s.in_msg_seq
    BY <2>5, PlainMessages DEF BufferedMessages, IsHandshake
  <2>10. e = "client" /\ ssl["server"].state \in Hello => m.type = "HelloVerifyRequest"
    <3>1. SUFFICES ASSUME e = "client", ssl["server"].state \in Hello PROVE FALSE
      OBVIOUS
    <3>2. p.hs = {} /\ p.state \notin CcsStates
      BY <1>2, <3>1 DEF Quiet, Hello, CcsStates
    <3> QED
      BY <3>2 DEF BufferedMessages
  <2>11. p.keep_current_message = <<>> /\ p.state \in Reads[e]
    BY <1>6 DEF ReadBufferedMessage, Waiting
  <2>12. HandleMessage(e, s, m)
    BY <2>4 DEF s
  <2> QED
    BY <2>2, <2>5, <2>6, <2>7, <2>8, <2>9, <2>10, <2>11, <2>12, HandleMessageKeeps
<1>7. CASE ReadBufferedRecord(e)
  <2> DEFINE s == [p EXCEPT !.future_record = {}]
  <2>1. PICK r \in BufferedRecords(p) : HandleRecord(e, s, r)
    BY <1>7 DEF ReadBufferedRecord
  <2>2. r \in Records /\ r \in p.future_record /\ r.epoch = p.in_epoch
    BY ContextOf DEF BufferedRecords
  <2>3. /\ s \in Contexts /\ s.state = p.state /\ s.checksum = p.checksum
        /\ s.keep_current_message = p.keep_current_message /\ s.in_epoch = p.in_epoch
        /\ s.future_record = {} /\ s.hs = p.hs /\ s.flight = p.flight
    BY <1>1 DEF Contexts
  <2>4. EndpointInv(conf, e, s)
    BY <1>1, <1>2, SmallSteps
  <2> HIDE DEF s
  <2>5. Quiet(e, s)
    BY <1>2, <2>3 DEF Quiet
  <2>6. ~(e = "client" /\ ssl["server"].state \in Hello)
    BY <1>2, <2>2 DEF Quiet
  <2>7. p.keep_current_message = <<>>
    BY <1>7 DEF ReadBufferedRecord
  <2> QED
    BY <1>3, <1>4, <2>1, <2>2, <2>3, <2>4, <2>5, <2>6, <2>7, HandleRecordKeeps
<1>8. CASE ReadRecord(e)
  <2>1. PICK r \in net : r.from # e /\ r.epoch = p.in_epoch /\ HandleRecord(e, p, r)
    BY <1>8 DEF ReadRecord
  <2>2. r \in Records /\ p.keep_current_message = <<>>
    BY <1>8 DEF ReadRecord, ReadsNetwork, TypeOK
  <2> QED
    BY <1>1, <1>2, <1>3, <2>1, <2>2, FromPeer, HandleRecordKeeps
<1>9. CASE BufferFutureRecord(e)
  <2>1. PICK r \in net : /\ r.from # e /\ r.epoch = p.in_epoch + 1
                         /\ SetContext(e, [p EXCEPT !.future_record = {r}])
    BY <1>9 DEF BufferFutureRecord
  <2> DEFINE q == [p EXCEPT !.future_record = {r}]
  <2>2. EndpointInv(conf, e, q)
    BY <1>1, <1>2, <2>1, FromPeer, SmallSteps
  <2>3. q.state = p.state
    BY <1>1 DEF Contexts
  <2>4. Quiet(e, q)
    <3>1. CASE e = "client"
      <4>1. SUFFICES ASSUME ssl["server"].state \in Hello PROVE FALSE
        BY <3>1 DEF Quiet
      <4>2. r.msg.type = "HelloVerifyRequest" /\ Sends(conf, Peer(e), r)
        BY <2>1, <3>1, <4>1, FromPeer
      <4>3. r.epoch = 0
        BY <4>2, PlainMessages DEF Sends
      <4>4. p.in_epoch \in Nat
        BY <1>1 DEF Contexts
      <4> QED
        BY <2>1, <4>3, <4>4
    <3>2. CASE e = "server"
      BY <1>3, <2>3, <3>2 DEF Quiet, Hello, Reads
    <3> QED
      BY <3>1, <3>2 DEF Endpoints
  <2> QED
    BY <2>1, <2>2, <2>4, SetContextKeeps
<1> QED
  BY <1>5, <1>6, <1>7, <1>8, <1>9

--------------------------------------------------------------------------------
(* Writing: a flight that is not yet whole.                                *)

\* What writing leaves alone.
Stays(p, q) ==
  /\ q.ret = p.ret /\ q.cookie = p.cookie /\ q.state = p.state /\ q.session = p.session
  /\ q.in_msg_seq = p.in_msg_seq /\ q.in_epoch = p.in_epoch
  /\ q.hs = p.hs /\ q.future_record = p.future_record
  /\ q.keep_current_message = p.keep_current_message
  /\ q.new_session_ticket = p.new_session_ticket /\ q.client_auth = p.client_auth

\* A flight being written: seq messages of the handshake are written, n are hashed.
Draft(c, e, p, seq, n) ==
  /\ p \in Contexts /\ p.out_msg_seq = seq /\ p.checksum = Hash(c, One(p.cookie), n)
  /\ p.out_epoch = 0 /\ p.alt_epoch = 0
  /\ \A i \in DOMAIN p.flight : p.flight[i] = ChangeCipherSpec \/ Says(c, e, p.flight[i])
  /\ ~HasFinished(p)

\* A flight with one more message.
LEMMA Appended ==
  ASSUME NEW f \in Seq(Messages), NEW m \in Messages
  PROVE  /\ Append(f, m) # <<>>
         /\ \A i \in DOMAIN Append(f, m) : Append(f, m)[i] = m \/ (i \in DOMAIN f /\ Append(f, m)[i] = f[i])
         /\ \E i \in DOMAIN Append(f, m) : Append(f, m)[i] = m
         /\ \A i \in DOMAIN f : i \in DOMAIN Append(f, m) /\ Append(f, m)[i] = f[i]
<1>1. /\ Append(f, m) \in Seq(Messages) /\ Len(Append(f, m)) = Len(f) + 1
      /\ \A i \in 1 .. Len(f) : Append(f, m)[i] = f[i]
      /\ Append(f, m)[Len(f) + 1] = m
  BY AppendProperties
<1>2. DOMAIN f = 1 .. Len(f) /\ DOMAIN Append(f, m) = 1 .. Len(f) + 1 /\ Len(f) \in Nat
  BY <1>1
<1>3. Append(f, m) # <<>>
  <2>1. Len(<<>>) = 0
    OBVIOUS
  <2>2. Len(Append(f, m)) # 0
    BY <1>1, <1>2
  <2> QED
    BY <2>1, <2>2
<1> QED
  BY <1>1, <1>2, <1>3

\* What mbedtls_ssl_write_handshake_msg does to a context.
LEMMA MessageWritten ==
  ASSUME NEW p \in Contexts, NEW type \in Types \ {"ChangeCipherSpec"}, NEW m,
         m = Message(type, p.out_msg_seq, p.session, type = "ClientHello" /\ p.cookie,
                     IF type = "Finished" THEN p.checksum ELSE <<>>)
  PROVE  LET q == WriteMessage(p, type) IN
         /\ q \in Contexts /\ m \in Messages /\ Stays(p, q)
         /\ q.flight = Append(p.flight, m) /\ q.out_msg_seq = p.out_msg_seq + 1
         /\ q.checksum = Append(p.checksum, <<type, p.out_msg_seq, p.session>>)
         /\ type # "Finished" => q.out_epoch = p.out_epoch /\ q.alt_epoch = p.alt_epoch
         /\ type = "Finished" => q.out_epoch = p.out_epoch + 1 /\ q.alt_epoch = p.out_epoch
<1> DEFINE w == [p EXCEPT !.flight = Append(@, m), !.out_msg_seq = @ + 1,
                          !.checksum = Append(@, Digest(m))]
           q == WriteMessage(p, type)
<1>1. m \in Messages /\ Digest(m) = <<type, p.out_msg_seq, p.session>>
  <2>1. p.out_msg_seq \in Nat /\ p.session \in Nat /\ p.checksum \in Seq(Digests)
    BY DEF Contexts
  <2>2. (type = "ClientHello" /\ p.cookie) \in BOOLEAN
    BY DEF Contexts
  <2>3. (IF type = "Finished" THEN p.checksum ELSE <<>>) \in Seq(Digests)
    BY <2>1, Empties
  <2> QED
    BY ZenonT(40), <2>1, <2>2, <2>3, MessageTyping
<1>2. /\ Stays(p, w) /\ w.flight = Append(p.flight, m) /\ w.out_msg_seq = p.out_msg_seq + 1
      /\ w.checksum = Append(p.checksum, Digest(m))
      /\ w.out_epoch = p.out_epoch /\ w.alt_epoch = p.alt_epoch
      /\ DOMAIN w = DOMAIN p
  BY DEF Contexts, Stays
<1>3. q = IF type = "Finished" THEN [w EXCEPT !.alt_epoch = p.out_epoch, !.out_epoch = p.out_epoch + 1]
          ELSE w
  BY DEF WriteMessage
<1>4. q \in Contexts
  BY WriteMessageTyping
<1> HIDE DEF w, q
<1>5. CASE type # "Finished"
  BY <1>1, <1>2, <1>3, <1>4, <1>5 DEF q
<1>6. CASE type = "Finished"
  <2> DEFINE x == [w EXCEPT !.alt_epoch = p.out_epoch, !.out_epoch = p.out_epoch + 1]
  <2>1. "alt_epoch" \in DOMAIN w /\ "out_epoch" \in DOMAIN w
    BY <1>2 DEF Contexts
  <2>2. x.alt_epoch = p.out_epoch /\ x.out_epoch = p.out_epoch + 1 /\ Stays(w, x)
        /\ x.flight = w.flight /\ x.out_msg_seq = w.out_msg_seq /\ x.checksum = w.checksum
    BY <2>1 DEF Stays
  <2>3. q = x
    BY <1>3, <1>6
  <2> HIDE DEF x
  <2> QED
    BY <1>1, <1>2, <1>4, <1>6, <2>2, <2>3 DEF q, Stays
<1> QED
  BY <1>5, <1>6

\* A message is added in its turn.
LEMMA DraftsOn ==
  ASSUME NEW c \in Confs, NEW e, NEW p, NEW seq \in Nat, NEW n \in Nat, Draft(c, e, p, seq, n),
         NEW type \in Types \ {"ChangeCipherSpec", "Finished"},
         Says(c, e, Message(type, seq, p.session, type = "ClientHello" /\ p.cookie, <<>>)),
         Transcript(c, One(p.cookie))[n + 1] = <<type, seq, p.session>>
  PROVE  LET q == WriteMessage(p, type) IN
         Draft(c, e, q, seq + 1, n + 1) /\ Stays(p, q)
<1> DEFINE m == Message(type, seq, p.session, type = "ClientHello" /\ p.cookie, <<>>)
           q == WriteMessage(p, type)
<1>1. p \in Contexts /\ p.out_msg_seq = seq /\ p.checksum = Hash(c, One(p.cookie), n)
      /\ p.out_epoch = 0 /\ p.alt_epoch = 0 /\ ~HasFinished(p)
      /\ \A i \in DOMAIN p.flight : p.flight[i] = ChangeCipherSpec \/ Says(c, e, p.flight[i])
  BY DEF Draft
<1>2. m = Message(type, p.out_msg_seq, p.session, type = "ClientHello" /\ p.cookie,
                  IF type = "Finished" THEN p.checksum ELSE <<>>)
  BY <1>1
<1>3. /\ q \in Contexts /\ m \in Messages /\ Stays(p, q)
      /\ q.flight = Append(p.flight, m) /\ q.out_msg_seq = seq + 1
      /\ q.checksum = Append(p.checksum, <<type, seq, p.session>>)
      /\ q.out_epoch = 0 /\ q.alt_epoch = 0
  <2>1. type \in Types \ {"ChangeCipherSpec"} /\ type # "Finished"
    OBVIOUS
  <2> HIDE DEF m
  <2> QED
    BY <1>1, <1>2, <2>1, MessageWritten
<1>4. m.type = type
  BY DEF Message
<1> HIDE DEF m, q
<1>5. p.flight \in Seq(Messages)
  BY <1>1 DEF Contexts
<1>6. /\ q.flight # <<>>
      /\ \A i \in DOMAIN q.flight : q.flight[i] = m \/ (i \in DOMAIN p.flight /\ q.flight[i] = p.flight[i])
  BY SMTT(40), <1>3, <1>5, Appended
<1>7. \A i \in DOMAIN q.flight : q.flight[i] = ChangeCipherSpec \/ Says(c, e, q.flight[i])
  BY <1>1, <1>6 DEF m
<1>8. ~HasFinished(q)
  BY <1>1, <1>4, <1>6 DEF HasFinished
<1>9. q.checksum = Hash(c, One(q.cookie), n + 1)
  <2>1. One(p.cookie) \in {0, 1} /\ q.cookie = p.cookie
    BY <1>3 DEF One, Stays
  <2> QED
    BY <1>1, <1>3, <2>1, HashAppend
<1> QED
  BY <1>3, <1>4, <1>6, <1>7, <1>8, <1>9 DEF Draft, q

\* So is a ChangeCipherSpec, which is not hashed.
LEMMA DraftsCcs ==
  ASSUME NEW c \in Confs, NEW e, NEW p, NEW seq \in Nat, NEW n \in Nat, Draft(c, e, p, seq, n)
  PROVE  LET q == WriteMessage(p, "ChangeCipherSpec") IN Draft(c, e, q, seq, n) /\ Stays(p, q)
<1> DEFINE q == WriteMessage(p, "ChangeCipherSpec")
<1>1. p \in Contexts /\ p.out_msg_seq = seq /\ p.checksum = Hash(c, One(p.cookie), n)
      /\ p.out_epoch = 0 /\ p.alt_epoch = 0 /\ ~HasFinished(p)
      /\ \A i \in DOMAIN p.flight : p.flight[i] = ChangeCipherSpec \/ Says(c, e, p.flight[i])
  BY DEF Draft
<1>2. /\ q \in Contexts /\ Stays(p, q) /\ q.flight = Append(p.flight, ChangeCipherSpec)
      /\ q.out_msg_seq = p.out_msg_seq /\ q.checksum = p.checksum
      /\ q.out_epoch = p.out_epoch /\ q.alt_epoch = p.alt_epoch
  <2>1. q \in Contexts
    BY <1>1, WriteMessageTyping DEF Types
  <2> QED
    BY <1>1, <2>1 DEF WriteMessage, Contexts, Stays
<1> HIDE DEF q
<1>3. p.flight \in Seq(Messages)
  BY <1>1 DEF Contexts
<1>4. \A i \in DOMAIN q.flight : \/ q.flight[i] = ChangeCipherSpec
                                 \/ i \in DOMAIN p.flight /\ q.flight[i] = p.flight[i]
  BY <1>2, <1>3, PlainMessages, Appended
<1>5. ~HasFinished(q)
  BY <1>1, <1>4, PlainMessages DEF HasFinished
<1> QED
  BY <1>1, <1>2, <1>4, <1>5 DEF Draft, Stays, q

\* ChangeCipherSpec and Finished end the flight, in the next epoch.
LEMMA Closes ==
  ASSUME NEW c \in Confs, NEW e, NEW p, NEW seq \in Nat, NEW n \in Nat, Draft(c, e, p, seq, n),
         Says(c, e, Message("Finished", seq, p.session, FALSE, Hash(c, One(p.cookie), n))),
         Transcript(c, One(p.cookie))[n + 1] = <<"Finished", seq, p.session>>
  PROVE  LET q == WriteClosing(p) IN
         /\ q \in Contexts /\ Stays(p, q) /\ q.out_msg_seq = seq + 1
         /\ q.checksum = Hash(c, One(q.cookie), n + 1)
         /\ q.out_epoch = 1 /\ q.alt_epoch = 0 /\ HasFinished(q) /\ q.flight # <<>>
         /\ \A i \in DOMAIN q.flight : q.flight[i] = ChangeCipherSpec \/ Says(c, e, q.flight[i])
<1> DEFINE w == WriteMessage(p, "ChangeCipherSpec")
           q == WriteMessage(w, "Finished")
           m == Message("Finished", seq, p.session, FALSE, Hash(c, One(p.cookie), n))
<1>1. Draft(c, e, w, seq, n) /\ Stays(p, w)
  BY DraftsCcs
<1> HIDE DEF w
<1>2. w \in Contexts /\ w.out_msg_seq = seq /\ w.checksum = Hash(c, One(w.cookie), n)
      /\ w.out_epoch = 0 /\ w.alt_epoch = 0 /\ w.session = p.session /\ w.cookie = p.cookie
      /\ \A i \in DOMAIN w.flight : w.flight[i] = ChangeCipherSpec \/ Says(c, e, w.flight[i])
  BY <1>1 DEF Draft, Stays
<1>3. m = Message("Finished", w.out_msg_seq, w.session, "Finished" = "ClientHello" /\ w.cookie,
                  IF "Finished" = "Finished" THEN w.checksum ELSE <<>>)
  BY <1>2
<1>4. "Finished" \in Types \ {"ChangeCipherSpec"}
  BY DEF Types
<1>5. m.type = "Finished"
  BY DEF Message
<1> HIDE DEF m
<1>6. /\ q \in Contexts /\ m \in Messages /\ Stays(w, q)
      /\ q.flight = Append(w.flight, m) /\ q.out_msg_seq = w.out_msg_seq + 1
      /\ q.checksum = Append(w.checksum, <<"Finished", w.out_msg_seq, w.session>>)
      /\ q.out_epoch = w.out_epoch + 1 /\ q.alt_epoch = w.out_epoch
  BY <1>2, <1>3, <1>4, MessageWritten
<1> HIDE DEF q
<1>7. w.flight \in Seq(Messages)
  BY <1>2 DEF Contexts
<1>8. /\ q.flight # <<>>
      /\ \A i \in DOMAIN q.flight : q.flight[i] = m \/ (i \in DOMAIN w.flight /\ q.flight[i] = w.flight[i])
      /\ \E i \in DOMAIN q.flight : q.flight[i] = m
  <2>1. q.flight = Append(w.flight, m) /\ m \in Messages
    BY <1>6
  <2> QED
    BY SMTT(40), <1>7, <2>1, Appended
<1>9. HasFinished(q)
  BY <1>5, <1>8 DEF HasFinished
<1>10. \A i \in DOMAIN q.flight : q.flight[i] = ChangeCipherSpec \/ Says(c, e, q.flight[i])
  BY <1>2, <1>8 DEF m
<1>11. q.checksum = Hash(c, One(q.cookie), n + 1)
  <2>1. One(p.cookie) \in {0, 1} /\ q.cookie = p.cookie
    BY <1>2, <1>6 DEF One, Stays
  <2> QED
    <3>1. q.checksum = Append(Hash(c, One(p.cookie), n), Transcript(c, One(p.cookie))[n + 1])
      BY <1>2, <1>6
    <3> QED
      BY <2>1, <3>1, HashAppend
<1>12. Stays(p, q)
  BY <1>1, <1>6 DEF Stays
<1> QED
  BY <1>2, <1>6, <1>8, <1>9, <1>10, <1>11, <1>12 DEF WriteClosing, q, w

\* One message after another.
LEMMA StaysOn ==
  ASSUME NEW p, NEW q, NEW r, Stays(p, q), Stays(q, r)
  PROVE  Stays(p, r)
BY DEF Stays

\* A message that only some configurations have.
LEMMA DraftsWhen ==
  ASSUME NEW c \in Confs, NEW e, NEW p, NEW seq \in Nat, NEW n \in Nat, Draft(c, e, p, seq, n),
         NEW b \in BOOLEAN, NEW type \in Types \ {"ChangeCipherSpec", "Finished", "ClientHello"},
         b => /\ Says(c, e, Message(type, seq, p.session, FALSE, <<>>))
              /\ Transcript(c, One(p.cookie))[n + 1] = <<type, seq, p.session>>
  PROVE  LET q == WriteWhen(b, p, type) IN Draft(c, e, q, seq + One(b), n + One(b)) /\ Stays(p, q)
<1>1. CASE b
  <2>1. (type = "ClientHello" /\ p.cookie) = FALSE
    OBVIOUS
  <2>2. Says(c, e, Message(type, seq, p.session, type = "ClientHello" /\ p.cookie, <<>>))
    BY <1>1, <2>1
  <2>3. LET q == WriteMessage(p, type) IN Draft(c, e, q, seq + 1, n + 1) /\ Stays(p, q)
    BY <1>1, <2>2, DraftsOn
  <2> QED
    BY <1>1, <2>3 DEF WriteWhen, One
<1>2. CASE ~b
  <2>1. seq + One(b) = seq /\ n + One(b) = n
    BY <1>2 DEF One
  <2> QED
    BY <1>2, <2>1 DEF WriteWhen, Stays
<1> QED
  BY <1>1, <1>2

\* A flight with one more message in it.
LEMMA WrittenFlight ==
  ASSUME NEW p \in Contexts, NEW type \in Types \ {"ChangeCipherSpec"}
  PROVE  LET q == WriteMessage(p, type) IN
         /\ q.flight # <<>>
         /\ \A i \in DOMAIN q.flight :
              q.flight[i].type = type \/ (i \in DOMAIN p.flight /\ q.flight[i] = p.flight[i])
<1> DEFINE m == Message(type, p.out_msg_seq, p.session, type = "ClientHello" /\ p.cookie,
                        IF type = "Finished" THEN p.checksum ELSE <<>>)
<1>1. m \in Messages /\ WriteMessage(p, type).flight = Append(p.flight, m)
  BY MessageWritten
<1>2. p.flight \in Seq(Messages)
  BY DEF Contexts
<1>3. m.type = type
  BY DEF Message
<1> HIDE DEF m
<1>4. /\ Append(p.flight, m) # <<>>
      /\ \A i \in DOMAIN Append(p.flight, m) : \/ Append(p.flight, m)[i] = m
                                               \/ i \in DOMAIN p.flight /\ Append(p.flight, m)[i] = p.flight[i]
  BY <1>1, <1>2, Appended, Zenon
<1> QED
  BY <1>1, <1>3, <1>4

\* A message without the cookie is added in its turn.
LEMMA DraftsNext ==
  ASSUME NEW c \in Confs, NEW e, NEW p, NEW seq \in Nat, NEW n \in Nat, Draft(c, e, p, seq, n),
         NEW type \in Types \ {"ChangeCipherSpec", "Finished", "ClientHello"},
         Says(c, e, Message(type, seq, p.session, FALSE, <<>>)),
         Transcript(c, One(p.cookie))[n + 1] = <<type, seq, p.session>>
  PROVE  LET q == WriteMessage(p, type) IN
         Draft(c, e, q, seq + 1, n + 1) /\ Stays(p, q) /\ q.flight # <<>>
<1>1. (type = "ClientHello" /\ p.cookie) = FALSE
  OBVIOUS
<1>2. Says(c, e, Message(type, seq, p.session, type = "ClientHello" /\ p.cookie, <<>>))
  BY <1>1
<1>3. type \in Types \ {"ChangeCipherSpec", "Finished"}
  OBVIOUS
<1> DEFINE q == WriteMessage(p, type)
<1>4. Draft(c, e, q, seq + 1, n + 1) /\ Stays(p, q)
  BY <1>2, <1>3, DraftsOn
<1>5. q.flight # <<>>
  <2>1. p \in Contexts
    BY DEF Draft
  <2> QED
    BY <2>1, WrittenFlight
<1> QED
  BY <1>4, <1>5

\* The flight begins where the endpoint is.
LEMMA DraftBegins ==
  ASSUME NEW c \in Confs, NEW e \in Endpoints, NEW p \in Contexts, EndpointInv(c, e, p),
         ~HasWritten(c, e, p.state)
  PROVE  Draft(c, e, p, p.out_msg_seq, p.in_msg_seq + p.out_msg_seq - 2 * One(p.cookie))
<1>1. p.out_epoch = 0 /\ p.alt_epoch = 0
  BY DEF EndpointInv, Place, One
<1>2. ~HasFinished(p)
  BY <1>1 DEF EndpointInv, FlightInv
<1> QED
  BY <1>1, <1>2 DEF Draft, EndpointInv, Place, FlightInv

\* A whole flight goes out, and the endpoint is at its next place.
LEMMA Sent ==
  ASSUME NEW c \in Confs, NEW e \in Endpoints, NEW p \in Contexts, EndpointInv(c, e, p),
         NEW q \in Contexts, Stays(p, q), q.flight # <<>>,
         \A i \in DOMAIN q.flight : q.flight[i] = ChangeCipherSpec \/ Says(c, e, q.flight[i]),
         HasFinished(q) <=> q.out_epoch = 1,
         NEW state \in States, Place(c, e, Goto(q, state)), Remembered(c, e, Goto(q, state)),
         "SERVER_HELLO_DONE" \notin {p.state, state}
  PROVE  LET r == [SendFlightCompleted(q) EXCEPT !.state = state] IN
         /\ r \in Contexts /\ EndpointInv(c, e, r) /\ r.flight = q.flight /\ r.state = state
         /\ r.hs = p.hs /\ r.future_record = p.future_record
<1> DEFINE g == Goto(q, state)
           s == SendFlightCompleted(q)
           r == [s EXCEPT !.state = state]
<1>1. /\ g.ret = q.ret /\ g.cookie = q.cookie /\ g.session = q.session
      /\ g.in_msg_seq = q.in_msg_seq /\ g.out_msg_seq = q.out_msg_seq /\ g.in_epoch = q.in_epoch
      /\ g.out_epoch = q.out_epoch /\ g.alt_epoch = q.alt_epoch /\ g.checksum = q.checksum
      /\ g.flight = q.flight /\ g.handshake = q.handshake /\ g.state = state
      /\ g.keep_current_message = q.keep_current_message
      /\ g.new_session_ticket = q.new_session_ticket /\ g.client_auth = q.client_auth
      /\ g.hs = q.hs /\ g.future_record = q.future_record
  BY DEF Goto, Contexts
<1>2. s \in Contexts /\ r \in Contexts
  BY SendFlightCompletedTyping, GotoTyping DEF Goto
<1>3. Alike(g, r) /\ r.ret = q.ret /\ r.hs = q.hs /\ r.future_record = q.future_record
      /\ r.flight = q.flight /\ r.state = state
  <2>1. /\ s.ret = q.ret /\ s.cookie = q.cookie /\ s.session = q.session
        /\ s.in_msg_seq = q.in_msg_seq /\ s.out_msg_seq = q.out_msg_seq /\ s.in_epoch = q.in_epoch
        /\ s.out_epoch = q.out_epoch /\ s.alt_epoch = q.alt_epoch /\ s.checksum = q.checksum
        /\ s.flight = q.flight /\ s.handshake = q.handshake
        /\ s.keep_current_message = q.keep_current_message
        /\ s.new_session_ticket = q.new_session_ticket /\ s.client_auth = q.client_auth
        /\ s.hs = q.hs /\ s.future_record = q.future_record
    BY DEF SendFlightCompleted, Contexts
  <2> HIDE DEF g, s
  <2>2. /\ r.ret = s.ret /\ r.cookie = s.cookie /\ r.session = s.session
        /\ r.in_msg_seq = s.in_msg_seq /\ r.out_msg_seq = s.out_msg_seq /\ r.in_epoch = s.in_epoch
        /\ r.out_epoch = s.out_epoch /\ r.alt_epoch = s.alt_epoch /\ r.checksum = s.checksum
        /\ r.flight = s.flight /\ r.handshake = s.handshake
        /\ r.keep_current_message = s.keep_current_message
        /\ r.new_session_ticket = s.new_session_ticket /\ r.client_auth = s.client_auth
        /\ r.hs = s.hs /\ r.future_record = s.future_record /\ r.state = state
    BY <1>2 DEF Contexts
  <2> HIDE DEF r
  <2> QED
    BY <1>1, <2>1, <2>2 DEF Alike
<1> HIDE DEF g, r
<1>4. /\ \A m \in p.hs : Says(c, Peer(e), m)
      /\ \A x \in p.future_record : Sends(c, Peer(e), x)
      /\ p.keep_current_message = <<>> /\ p.ret \in {"ok", "timeout"}
  BY DEF EndpointInv, Early
<1>5. q.hs = p.hs /\ q.future_record = p.future_record /\ q.keep_current_message = <<>>
      /\ q.ret = p.ret
  BY <1>4 DEF Stays
<1>6. Early(c, e, g)
  BY <1>1, <1>4, <1>5 DEF Early
<1>7. FlightInv(c, e, g)
  BY <1>1 DEF FlightInv, HasFinished
<1>8. EndpointInv(c, e, g)
  BY <1>1, <1>4, <1>5, <1>6, <1>7 DEF EndpointInv, g
<1>9. EndpointInv(c, e, r)
  BY <1>3, <1>4, <1>5, <1>8, AlikeKept
<1> QED
  BY <1>2, <1>3, <1>5, <1>9 DEF r

\* The end of a step that writes keeps the invariant.
LEMMA WriteFlightKeeps ==
  ASSUME TypeOK, FirstSession, NEW e \in Endpoints,
         NEW q \in Contexts, Stays(ssl[e], q), q.flight # <<>>,
         \A i \in DOMAIN q.flight : q.flight[i] = ChangeCipherSpec \/ Says(conf, e, q.flight[i]),
         HasFinished(q) <=> q.out_epoch = 1,
         NEW state \in States, Place(conf, e, Goto(q, state)), Remembered(conf, e, Goto(q, state)),
         "SERVER_HELLO_DONE" \notin {ssl[e].state, state},
         \/ state \notin Hello /\ (e = "client" => ssl["client"].state \notin Hello)
         \/ /\ e = "client" /\ ssl["client"].state \in Hello /\ state \in Hello
            /\ \A i \in DOMAIN q.flight :
                 \/ q.flight[i].type = "ClientHello"
                 \/ i \in DOMAIN ssl["client"].flight /\ q.flight[i] = ssl["client"].flight[i],
         WriteFlight(e, q, state)
  PROVE  FirstSession'
<1> DEFINE p == ssl[e]
           r == [SendFlightCompleted(q) EXCEPT !.state = state]
<1>1. conf \in Confs /\ p \in Contexts /\ EndpointInv(conf, e, p) /\ Quiet(e, p)
  BY QuietNow DEF TypeOK, FirstSession
<1>2. /\ r \in Contexts /\ EndpointInv(conf, e, r) /\ r.flight = q.flight /\ r.state = state
      /\ r.hs = p.hs /\ r.future_record = p.future_record
  BY <1>1, Sent
<1>3. FlightTransmit(e, r)
  BY DEF WriteFlight
<1> HIDE DEF r
<1>4. Quiet(e, r)
  <2>1. CASE e = "client"
    <3>1. SUFFICES ASSUME ssl["server"].state \in Hello
                   PROVE  /\ r.state \in Hello /\ r.future_record = {} /\ r.hs = {}
                          /\ \A i \in DOMAIN r.flight : r.flight[i].type = "ClientHello"
      BY <2>1 DEF Quiet
    <3>2. p.state \in Hello /\ p.future_record = {} /\ p.hs = {}
          /\ \A i \in DOMAIN p.flight : p.flight[i].type = "ClientHello"
      BY <1>1, <2>1, <3>1 DEF Quiet
    <3> QED
      BY <1>2, <2>1, <3>2
  <2>2. CASE e = "server"
    BY <1>2, <2>2 DEF Quiet
  <2> QED
    BY <2>1, <2>2 DEF Endpoints
<1> QED
  BY <1>2, <1>3, <1>4, FlightTransmitKeeps

--------------------------------------------------------------------------------
(* Writing, step by step.                                                  *)

\* What a state and a written flight are, once they are put together.
LEMMA Went ==
  ASSUME NEW q \in Contexts, NEW state
  PROVE  LET g == Goto(q, state) IN
         /\ g.state = state /\ g.cookie = q.cookie /\ g.session = q.session
         /\ g.in_msg_seq = q.in_msg_seq /\ g.out_msg_seq = q.out_msg_seq
         /\ g.in_epoch = q.in_epoch /\ g.out_epoch = q.out_epoch /\ g.alt_epoch = q.alt_epoch
         /\ g.checksum = q.checksum /\ g.new_session_ticket = q.new_session_ticket
         /\ g.client_auth = q.client_auth
BY DEF Goto, Contexts

\* ssl_write_client_hello keeps the invariant of the first session.
LEMMA WriteClientHelloKeeps ==
  ASSUME TypeOK, FirstSession, WriteClientHello
  PROVE  FirstSession'
<1> DEFINE p == ssl["client"]
           k == One(p.cookie)
           q == WriteMessage(p, "ClientHello")
<1>1. "client" \in Endpoints /\ p \in Contexts /\ conf \in Confs
  BY DEF TypeOK, Endpoints
<1>2. EndpointInv(conf, "client", p) /\ Place(conf, "client", p) /\ Remembered(conf, "client", p)
  BY <1>1 DEF FirstSession, EndpointInv
<1>3. p.state = "CLIENT_HELLO" /\ WriteFlight("client", q, "SERVER_HELLO")
  BY DEF WriteClientHello, At
<1>4. /\ k \in {0, 1} /\ p.cookie \in BOOLEAN /\ (p.cookie => conf.cookies)
      /\ p.in_msg_seq = k /\ p.out_msg_seq = k /\ p.session = 0 /\ p.in_epoch = 0
      /\ ~HasWritten(conf, "client", p.state)
  BY <1>1, <1>2, <1>3 DEF Place, ClientIn, ClientOut, Hello, HasRead, HasWritten, ClientHasFinished,
     Closed, One, Contexts
<1>5. Draft(conf, "client", p, k, 0)
  <2>1. Draft(conf, "client", p, p.out_msg_seq, p.in_msg_seq + p.out_msg_seq - 2 * k)
    BY <1>1, <1>2, <1>4, DraftBegins
  <2>2. p.in_msg_seq + p.out_msg_seq - 2 * k = 0
    BY <1>4
  <2> QED
    BY <1>4, <2>1, <2>2
<1>6. /\ Draft(conf, "client", q, k + 1, 1) /\ Stays(p, q) /\ q.flight # <<>>
      /\ \A i \in DOMAIN q.flight : \/ q.flight[i].type = "ClientHello"
                                    \/ i \in DOMAIN p.flight /\ q.flight[i] = p.flight[i]
  <2>1. ("ClientHello" = "ClientHello" /\ p.cookie) = p.cookie
    BY <1>4
  <2>2. Says(conf, "client", Message("ClientHello", k, p.session, p.cookie, <<>>))
    BY <1>4 DEF Says, ClientSays, One
  <2>3. Transcript(conf, k)[1] = <<"ClientHello", k, 0>>
    BY DEF Transcript
  <2>4. Says(conf, "client",
             Message("ClientHello", k, p.session, "ClientHello" = "ClientHello" /\ p.cookie, <<>>))
    BY <2>1, <2>2
  <2>5. "ClientHello" \in Types \ {"ChangeCipherSpec", "Finished"}
    BY DEF Types
  <2>6. k \in Nat /\ 0 \in Nat /\ 0 + 1 = 1
    BY <1>4
  <2>7. Transcript(conf, One(p.cookie))[0 + 1] = <<"ClientHello", k, p.session>>
    BY <1>4, <2>3, <2>6
  <2> HIDE DEF p, q
  <2>8. Draft(conf, "client", q, k + 1, 0 + 1) /\ Stays(p, q)
    BY <1>1, <1>5, <2>4, <2>5, <2>6, <2>7, DraftsOn DEF q
  <2>9. \A i \in DOMAIN q.flight : \/ q.flight[i].type = "ClientHello"
                                   \/ i \in DOMAIN p.flight /\ q.flight[i] = p.flight[i]
    BY <1>1, <2>5, WrittenFlight, Zenon DEF q
  <2>10. q.flight # <<>>
    BY <1>1, <2>5, WrittenFlight, Zenon DEF q
  <2> QED
    BY <2>6, <2>8, <2>10, <2>9
<1> HIDE DEF q
<1>7. /\ q \in Contexts /\ q.out_msg_seq = k + 1 /\ q.checksum = Hash(conf, k, 1) /\ q.out_epoch = 0
      /\ q.alt_epoch = 0 /\ q.cookie = p.cookie /\ q.session = 0 /\ q.in_msg_seq = k
      /\ q.in_epoch = 0 /\ q.new_session_ticket = p.new_session_ticket
      /\ q.client_auth = p.client_auth /\ ~HasFinished(q)
      /\ \A i \in DOMAIN q.flight : q.flight[i] = ChangeCipherSpec \/ Says(conf, "client", q.flight[i])
  BY <1>4, <1>6 DEF Draft, Stays
<1>8. Place(conf, "client", Goto(q, "SERVER_HELLO"))
  <2>1. k + (k + 1) - 2 * k = 1
    BY <1>4
  <2> HIDE DEF p
  <2>2. LET g == Goto(q, "SERVER_HELLO") IN
        /\ g.state = "SERVER_HELLO" /\ g.cookie = p.cookie /\ g.session = 0
        /\ g.in_msg_seq = k /\ g.out_msg_seq = k + 1 /\ g.in_epoch = 0 /\ g.out_epoch = 0
        /\ g.alt_epoch = 0 /\ g.checksum = Hash(conf, k, k + (k + 1) - 2 * k)
    BY <1>7, <2>1, Went
  <2> QED
    BY <1>4, <2>2 DEF Place, ClientIn, ClientOut, ClientStates, Hello, HasRead, HasWritten,
       ClientHasFinished, Closed, One
<1>9. Remembered(conf, "client", Goto(q, "SERVER_HELLO"))
  BY <1>2, <1>3, <1>7, Went DEF Remembered, Hello
<1>10. "SERVER_HELLO" \in States /\ "SERVER_HELLO_DONE" \notin {p.state, "SERVER_HELLO"}
       /\ {p.state, "SERVER_HELLO"} \subseteq Hello
  BY <1>3 DEF States, Hello
<1> QED
  BY <1>1, <1>3, <1>6, <1>7, <1>8, <1>9, <1>10, WriteFlightKeeps

\* So do the steps of the server from ServerHello to ServerHelloDone or Finished,
LEMMA WriteServerHelloKeeps ==
  ASSUME TypeOK, FirstSession, WriteServerHello
  PROVE  FirstSession'
<1> USE DEF Types
<1> DEFINE p == ssl["server"]
           k == First(conf)
           A == Auth(conf)
           T == Tick(conf)
           hello == WriteMessage(p, "ServerHello")
<1>1. "server" \in Endpoints /\ p \in Contexts /\ conf \in Confs
  BY DEF TypeOK, Endpoints
<1>2. EndpointInv(conf, "server", p) /\ Place(conf, "server", p)
  BY <1>1 DEF FirstSession, EndpointInv
<1>3. p.state = "SERVER_HELLO" /\ (conf.cookies => p.cookie)
  BY DEF WriteServerHello, At
<1>4. /\ k \in {0, 1} /\ A \in {0, 1} /\ T \in {0, 1}
      /\ conf.cookies \in BOOLEAN /\ conf.ticket \in BOOLEAN /\ conf.auth \in BOOLEAN
      /\ A = One(conf.auth) /\ T = One(conf.ticket)
  BY <1>1, Numbers, ConfTyping DEF Auth, Tick
<1>5. /\ p.cookie = conf.cookies /\ One(p.cookie) = k
      /\ p.session = 1 /\ p.in_epoch = 0 /\ p.in_msg_seq = k + 1 /\ p.out_msg_seq = k
      /\ ~HasWritten(conf, "server", p.state)
  <2>1. p.cookie = conf.cookies
    BY <1>1, <1>2, <1>3, <1>4 DEF Place, Contexts
  <2> QED
    BY <1>2, <1>3, <2>1 DEF Place, ServerIn, ServerOut, Hello, HasRead, HasWritten, ServerHasFinished,
       Closed, One, First
<1>6. Draft(conf, "server", p, k, 1)
  <2>1. Draft(conf, "server", p, p.out_msg_seq, p.in_msg_seq + p.out_msg_seq - 2 * One(p.cookie))
    BY <1>1, <1>2, <1>5, DraftBegins
  <2>2. p.in_msg_seq + p.out_msg_seq - 2 * One(p.cookie) = 1
    BY <1>4, <1>5
  <2> QED
    BY <1>5, <2>1, <2>2
<1>7. Draft(conf, "server", hello, k + 1, 2) /\ Stays(p, hello)
  <2>1. Says(conf, "server", Message("ServerHello", k, p.session, FALSE, <<>>))
    BY <1>5 DEF Says, ServerSays
  <2>2. Transcript(conf, One(p.cookie))[1 + 1] = <<"ServerHello", k, p.session>>
    BY <1>5 DEF Transcript
  <2>3. k \in Nat /\ 1 + 1 = 2
    BY <1>4
  <2> HIDE DEF p, k
  <2>4. Draft(conf, "server", hello, k + 1, 1 + 1) /\ Stays(p, hello)
    BY <1>1, <1>6, <2>1, <2>2, <2>3, DraftsNext
  <2> QED
    BY <2>3, <2>4
<1> HIDE DEF hello
<1>8. hello.session = 1 /\ One(hello.cookie) = k
  BY <1>5, <1>7 DEF Stays
\* Where the server is once it has written q.
<1>9. ASSUME NEW q, NEW state \in ServerStates(conf) \ Hello, Stays(p, q),
             q \in Contexts, q.alt_epoch = 0,
             q.out_msg_seq = ServerOut(conf, state, k), ServerIn(conf, state, k) = k + 1,
             q.out_epoch = One(HasWritten(conf, "server", state)), ~HasRead(conf, "server", state),
             q.checksum = Hash(conf, k, q.out_msg_seq + 1 - k)
      PROVE  Place(conf, "server", Goto(q, state)) /\ Remembered(conf, "server", Goto(q, state))
  <2>1. LET g == Goto(q, state) IN
        /\ g.state = state /\ g.cookie = conf.cookies /\ g.session = 1 /\ g.alt_epoch = 0
        /\ g.in_msg_seq = ServerIn(conf, state, k) /\ g.out_msg_seq = ServerOut(conf, state, k)
        /\ g.in_epoch = 0 /\ g.out_epoch = One(HasWritten(conf, "server", state))
        /\ g.checksum = Hash(conf, k, g.in_msg_seq + g.out_msg_seq - 2 * k)
    <3>1. q.out_msg_seq \in Nat
      BY <1>9 DEF Contexts
    <3>2. (k + 1) + q.out_msg_seq - 2 * k = q.out_msg_seq + 1 - k
      BY <1>4, <3>1
    <3> HIDE DEF p, k
    <3> QED
      BY <1>5, <1>9, <3>2, Went DEF Stays
  <2>2. state # "CLIENT_HELLO" /\ One(conf.cookies) = k /\ One(HasRead(conf, "server", state)) = 0
    BY <1>9 DEF Hello, First, One
  <2> HIDE DEF p, k
  <2> QED
    BY <1>9, <2>1, <2>2 DEF Place, Remembered
<1>10. CASE conf.resume
  <2> DEFINE w == WriteWhen(conf.ticket, hello, "NewSessionTicket")
             q == WriteClosing(w)
             state == "CLIENT_CHANGE_CIPHER_SPEC"
  <2>1. WriteFlight("server", q, state)
    BY <1>10 DEF WriteServerHello, hello
  <2>2. Draft(conf, "server", w, k + 1 + T, 2 + T) /\ Stays(hello, w)
    <3>1. conf.ticket => /\ Says(conf, "server", Message("NewSessionTicket", k + 1, 1, FALSE, <<>>))
                         /\ Transcript(conf, k)[2 + 1] = <<"NewSessionTicket", k + 1, 1>>
      BY <1>4, <1>10 DEF Says, ServerSays, Transcript, One
    <3>2. k + 1 \in Nat /\ 2 \in Nat
      BY <1>4
    <3>3. "NewSessionTicket" \in Types \ {"ChangeCipherSpec", "Finished", "ClientHello"}
      OBVIOUS
    <3> HIDE DEF k, T, w
    <3>4. Draft(conf, "server", w, k + 1 + One(conf.ticket), 2 + One(conf.ticket)) /\ Stays(hello, w)
      BY <1>1, <1>4, <1>7, <1>8, <3>1, <3>2, <3>3, DraftsWhen DEF w
    <3> QED
      BY <1>4, <3>4
  <2> HIDE DEF w
  <2>3. w.session = 1 /\ One(w.cookie) = k
    BY <1>8, <2>2 DEF Stays
  <2>4. /\ q \in Contexts /\ Stays(w, q) /\ q.out_msg_seq = k + 1 + T + 1
        /\ q.checksum = Hash(conf, k, 2 + T + 1)
        /\ q.out_epoch = 1 /\ q.alt_epoch = 0 /\ HasFinished(q) /\ q.flight # <<>>
        /\ \A i \in DOMAIN q.flight : q.flight[i] = ChangeCipherSpec \/ Says(conf, "server", q.flight[i])
    <3>1. /\ Says(conf, "server", Message("Finished", k + 1 + T, 1, FALSE, Hash(conf, k, 2 + T)))
          /\ Transcript(conf, k)[2 + T + 1] = <<"Finished", k + 1 + T, 1>>
      BY <1>4, <1>10 DEF Says, ServerSays, Transcript
    <3>2. k + 1 + T \in Nat /\ 2 + T \in Nat
      BY <1>4
    <3> HIDE DEF k, T, q
    <3>3. /\ q \in Contexts /\ Stays(w, q) /\ q.out_msg_seq = k + 1 + T + 1
          /\ q.checksum = Hash(conf, One(q.cookie), 2 + T + 1)
          /\ q.out_epoch = 1 /\ q.alt_epoch = 0 /\ HasFinished(q) /\ q.flight # <<>>
          /\ \A i \in DOMAIN q.flight : q.flight[i] = ChangeCipherSpec \/ Says(conf, "server", q.flight[i])
      BY <1>1, <2>2, <2>3, <3>1, <3>2, Closes DEF q
    <3> QED
      BY <2>3, <3>3 DEF Stays
  <2> HIDE DEF q
  <2>5. Stays(p, q)
    BY <1>7, <2>2, <2>4, StaysOn
  <2>6. /\ state \in ServerStates(conf) \ Hello /\ ServerIn(conf, state, k) = k + 1
        /\ ServerOut(conf, state, k) = k + 2 + T
        /\ One(HasWritten(conf, "server", state)) = 1 /\ ~HasRead(conf, "server", state)
    BY <1>4, <1>10 DEF ServerStates, Hello, ServerIn, ServerOut, HasWritten, HasRead, ServerHasFinished,
       Closed, One
  <2>7. k + 1 + T + 1 = k + 2 + T /\ 2 + T + 1 = (k + 1 + T + 1) + 1 - k
    BY <1>4
  <2>8. Place(conf, "server", Goto(q, state)) /\ Remembered(conf, "server", Goto(q, state))
    BY <1>9, <2>4, <2>5, <2>6, <2>7
  <2>9. state \in States /\ "SERVER_HELLO_DONE" \notin {p.state, state} /\ state \notin Hello
    BY <1>3 DEF States, Hello
  <2> QED
    BY <1>1, <2>1, <2>4, <2>5, <2>8, <2>9, WriteFlightKeeps
<1>11. CASE ~conf.resume
  <2> DEFINE cert == WriteMessage(hello, "Certificate")
             w == WriteWhen(conf.auth, cert, "CertificateRequest")
             q == WriteMessage(w, "ServerHelloDone")
             state == IF conf.auth THEN "CLIENT_CERTIFICATE" ELSE "CLIENT_KEY_EXCHANGE"
  <2>1. WriteFlight("server", q, state)
    BY <1>11 DEF WriteServerHello, hello
  <2>2. Draft(conf, "server", cert, k + 2, 3) /\ Stays(hello, cert)
    <3>1. Says(conf, "server", Message("Certificate", k + 1, 1, FALSE, <<>>))
      BY <1>4, <1>11 DEF Says, ServerSays
    <3>2. Transcript(conf, k)[2 + 1] = <<"Certificate", k + 1, 1>>
      BY <1>4, <1>11 DEF Transcript
    <3>3. k + 1 \in Nat /\ 2 \in Nat /\ 2 + 1 = 3 /\ k + 1 + 1 = k + 2
      BY <1>4
    <3>4. "Certificate" \in Types \ {"ChangeCipherSpec", "Finished", "ClientHello"}
      OBVIOUS
    <3> HIDE DEF k, cert
    <3>5. Draft(conf, "server", cert, k + 1 + 1, 2 + 1) /\ Stays(hello, cert)
      BY <1>1, <1>7, <1>8, <3>2, <3>1, <3>3, <3>4, DraftsNext DEF cert
    <3> QED
      BY <3>3, <3>5
  <2> HIDE DEF cert
  <2>3. cert.session = 1 /\ One(cert.cookie) = k
    BY <1>8, <2>2 DEF Stays
  <2>4. Draft(conf, "server", w, k + 2 + A, 3 + A) /\ Stays(cert, w)
    <3>1. conf.auth => Says(conf, "server", Message("CertificateRequest", k + 2, 1, FALSE, <<>>))
      BY <1>4, <1>11 DEF Says, ServerSays
    <3>2. conf.auth => Transcript(conf, k)[3 + 1] = <<"CertificateRequest", k + 2, 1>>
      BY <1>4, <1>11 DEF Transcript, One
    <3>3. k + 2 \in Nat /\ 3 \in Nat
      BY <1>4
    <3>4. "CertificateRequest" \in Types \ {"ChangeCipherSpec", "Finished", "ClientHello"}
      OBVIOUS
    <3> HIDE DEF k, A, w
    <3>5. Draft(conf, "server", w, k + 2 + One(conf.auth), 3 + One(conf.auth)) /\ Stays(cert, w)
      BY <1>1, <1>4, <2>2, <2>3, <3>1, <3>2, <3>3, <3>4, DraftsWhen DEF w
    <3> QED
      BY <1>4, <3>5
  <2> HIDE DEF w
  <2>5. w.session = 1 /\ One(w.cookie) = k
    BY <2>3, <2>4 DEF Stays
  <2>6. Draft(conf, "server", q, k + 2 + A + 1, 3 + A + 1) /\ Stays(w, q) /\ q.flight # <<>>
    <3>1. Says(conf, "server", Message("ServerHelloDone", k + 2 + A, 1, FALSE, <<>>))
      BY <1>4, <1>11 DEF Says, ServerSays
    <3>2. Transcript(conf, k)[3 + A + 1] = <<"ServerHelloDone", k + 2 + A, 1>>
      BY <1>4, <1>11 DEF Transcript
    <3>3. k + 2 + A \in Nat /\ 3 + A \in Nat
      BY <1>4
    <3>4. "ServerHelloDone" \in Types \ {"ChangeCipherSpec", "Finished", "ClientHello"}
      OBVIOUS
    <3> HIDE DEF k, A, q
    <3> QED
      BY <1>1, <2>4, <2>5, <3>1, <3>2, <3>3, <3>4, DraftsNext DEF q
  <2> HIDE DEF q
  <2>7. Stays(p, q)
    BY <1>7, <2>2, <2>4, <2>6, StaysOn
  <2>8. /\ q \in Contexts /\ q.out_msg_seq = k + 2 + A + 1
        /\ q.checksum = Hash(conf, k, 3 + A + 1) /\ q.out_epoch = 0 /\ q.alt_epoch = 0
        /\ ~HasFinished(q)
        /\ \A i \in DOMAIN q.flight : q.flight[i] = ChangeCipherSpec \/ Says(conf, "server", q.flight[i])
    BY <2>5, <2>6 DEF Draft, Stays
  <2>9. /\ state \in ServerStates(conf) \ Hello /\ ServerIn(conf, state, k) = k + 1
        /\ ServerOut(conf, state, k) = k + 3 + A
        /\ One(HasWritten(conf, "server", state)) = 0 /\ ~HasRead(conf, "server", state)
    BY <1>4, <1>11 DEF ServerStates, Hello, ServerIn, ServerOut, HasWritten, HasRead,
       ServerHasFinished, Closed, One
  <2>10. k + 2 + A + 1 = k + 3 + A /\ 3 + A + 1 = (k + 2 + A + 1) + 1 - k
    BY <1>4
  <2>11. Place(conf, "server", Goto(q, state)) /\ Remembered(conf, "server", Goto(q, state))
    BY <1>9, <2>7, <2>8, <2>9, <2>10
  <2>12. state \in States /\ "SERVER_HELLO_DONE" \notin {p.state, state} /\ state \notin Hello
    BY <1>3 DEF States, Hello
  <2> QED
    BY <1>1, <2>1, <2>6, <2>7, <2>8, <2>11, <2>12, WriteFlightKeeps
<1> QED
  BY <1>10, <1>11

\* those of the client from its certificate to Finished,
LEMMA WriteClientKeyExchangeKeeps ==
  ASSUME TypeOK, FirstSession, WriteClientKeyExchange
  PROVE  FirstSession'
<1> USE DEF Types
<1> DEFINE p == ssl["client"]
           k == First(conf)
           A == Auth(conf)
           T == Tick(conf)
           cert == WriteWhen(conf.auth, p, "Certificate")
           keys == WriteMessage(cert, "ClientKeyExchange")
           w == WriteWhen(conf.auth, keys, "CertificateVerify")
           q == WriteClosing(w)
           state == IF conf.ticket THEN "NEW_SESSION_TICKET" ELSE "SERVER_CHANGE_CIPHER_SPEC"
<1>1. "client" \in Endpoints /\ p \in Contexts /\ conf \in Confs
  BY DEF TypeOK, Endpoints
<1>2. EndpointInv(conf, "client", p) /\ Place(conf, "client", p) /\ Remembered(conf, "client", p)
  BY <1>1 DEF FirstSession, EndpointInv
<1>3. p.state = "CLIENT_CERTIFICATE"
  BY DEF WriteClientKeyExchange, At
<1>4. /\ k \in {0, 1} /\ A \in {0, 1} /\ T \in {0, 1}
      /\ conf.cookies \in BOOLEAN /\ conf.ticket \in BOOLEAN /\ conf.auth \in BOOLEAN
      /\ A = One(conf.auth) /\ T = One(conf.ticket)
  BY <1>1, Numbers, ConfTyping DEF Auth, Tick
<1>5. ~conf.resume
  BY <1>2, <1>3 DEF Place, ClientStates, Hello, Closed
<1>6. /\ p.cookie = conf.cookies /\ One(p.cookie) = k
      /\ p.session = 1 /\ p.in_epoch = 0 /\ p.in_msg_seq = k + 3 + A /\ p.out_msg_seq = k + 1
      /\ ~HasWritten(conf, "client", p.state)
      /\ p.client_auth = conf.auth /\ p.new_session_ticket = conf.ticket
  <2>1. p.cookie = conf.cookies /\ One(p.cookie) = k
    BY <1>2, <1>3 DEF Place, Hello, First
  <2>2. p.client_auth = conf.auth /\ p.new_session_ticket = conf.ticket
    BY <1>2, <1>3, <1>5 DEF Remembered, Hello, ClientHasFinished, Closed
  <2> QED
    BY <1>2, <1>3, <1>5, <2>1, <2>2 DEF Place, ClientIn, ClientOut, Hello, HasRead, HasWritten,
       ClientHasFinished, Closed, One
<1>7. WriteFlight("client", q, state)
  BY <1>6 DEF WriteClientKeyExchange
<1>8. Draft(conf, "client", p, k + 1, 4 + A)
  <2>1. Draft(conf, "client", p, p.out_msg_seq, p.in_msg_seq + p.out_msg_seq - 2 * One(p.cookie))
    BY <1>1, <1>2, <1>6, DraftBegins
  <2>2. p.in_msg_seq + p.out_msg_seq - 2 * One(p.cookie) = 4 + A
    BY <1>4, <1>6
  <2> QED
    BY <1>6, <2>1, <2>2
<1>9. Draft(conf, "client", cert, k + 1 + A, 4 + 2 * A) /\ Stays(p, cert)
  <2>1. conf.auth => Says(conf, "client", Message("Certificate", k + 1, p.session, FALSE, <<>>))
    BY <1>4, <1>5, <1>6 DEF Says, ClientSays
  <2>2. conf.auth => Transcript(conf, One(p.cookie))[4 + A + 1] = <<"Certificate", k + 1, p.session>>
    BY <1>4, <1>5, <1>6 DEF Transcript, One
  <2>3. k + 1 \in Nat /\ 4 + A \in Nat /\ 4 + 2 * A = 4 + A + A
    BY <1>4
  <2>4. "Certificate" \in Types \ {"ChangeCipherSpec", "Finished", "ClientHello"}
    OBVIOUS
  <2> HIDE DEF p, k, A, cert
  <2>5. Draft(conf, "client", cert, k + 1 + One(conf.auth), 4 + A + One(conf.auth)) /\ Stays(p, cert)
    BY <1>1, <1>4, <1>8, <2>1, <2>2, <2>3, <2>4, DraftsWhen DEF cert
  <2> QED
    BY <1>4, <2>3, <2>5
<1> HIDE DEF cert
<1>10. cert.session = 1 /\ One(cert.cookie) = k
  BY <1>6, <1>9 DEF Stays
<1>11. Draft(conf, "client", keys, k + 2 + A, 5 + 2 * A) /\ Stays(cert, keys)
  <2>1. Says(conf, "client", Message("ClientKeyExchange", k + 1 + A, 1, FALSE, <<>>))
    BY <1>4, <1>5 DEF Says, ClientSays
  <2>2. Transcript(conf, k)[4 + 2 * A + 1] = <<"ClientKeyExchange", k + 1 + A, 1>>
    BY <1>4, <1>5 DEF Transcript
  <2>3. k + 1 + A \in Nat /\ 4 + 2 * A \in Nat /\ k + 1 + A + 1 = k + 2 + A
        /\ 4 + 2 * A + 1 = 5 + 2 * A
    BY <1>4
  <2>4. "ClientKeyExchange" \in Types \ {"ChangeCipherSpec", "Finished", "ClientHello"}
    OBVIOUS
  <2> HIDE DEF k, A, keys
  <2>5. Draft(conf, "client", keys, k + 1 + A + 1, 4 + 2 * A + 1) /\ Stays(cert, keys)
    BY <1>1, <1>9, <1>10, <2>1, <2>2, <2>3, <2>4, DraftsNext DEF keys
  <2> QED
    BY <2>3, <2>5
<1> HIDE DEF keys
<1>12. keys.session = 1 /\ One(keys.cookie) = k
  BY <1>10, <1>11 DEF Stays
<1>13. Draft(conf, "client", w, k + 2 + 2 * A, 5 + 3 * A) /\ Stays(keys, w)
  <2>1. conf.auth => Says(conf, "client", Message("CertificateVerify", k + 2 + A, 1, FALSE, <<>>))
    <3>1. conf.auth => k + 2 + A = k + 3
      BY <1>4 DEF One
    <3> QED
      BY <1>4, <1>5, <3>1 DEF Says, ClientSays
  <2>2. conf.auth => Transcript(conf, k)[5 + 2 * A + 1] = <<"CertificateVerify", k + 2 + A, 1>>
    BY <1>4, <1>5 DEF Transcript, One
  <2>3. k + 2 + A \in Nat /\ 5 + 2 * A \in Nat /\ k + 2 + A + A = k + 2 + 2 * A
        /\ 5 + 2 * A + A = 5 + 3 * A
    BY <1>4
  <2>4. "CertificateVerify" \in Types \ {"ChangeCipherSpec", "Finished", "ClientHello"}
    OBVIOUS
  <2> DEFINE s == k + 2 + A
             n == 5 + 2 * A
  <2> HIDE DEF k, A, w
  <2>5. s \in Nat /\ n \in Nat /\ Draft(conf, "client", keys, s, n)
        /\ (conf.auth => /\ Says(conf, "client", Message("CertificateVerify", s, 1, FALSE, <<>>))
                         /\ Transcript(conf, k)[n + 1] = <<"CertificateVerify", s, 1>>)
    BY <1>11, <2>1, <2>2, <2>3
  <2> HIDE DEF s, n
  <2>6. Draft(conf, "client", w, s + One(conf.auth), n + One(conf.auth)) /\ Stays(keys, w)
    BY <1>1, <1>4, <1>12, <2>4, <2>5, DraftsWhen DEF w
  <2> QED
    BY <1>4, <2>3, <2>6 DEF s, n
<1> HIDE DEF w
<1>14. w.session = 1 /\ One(w.cookie) = k
  BY <1>12, <1>13 DEF Stays
<1>15. /\ q \in Contexts /\ Stays(w, q) /\ q.out_msg_seq = k + 3 + 2 * A
       /\ q.checksum = Hash(conf, k, 6 + 3 * A)
       /\ q.out_epoch = 1 /\ q.alt_epoch = 0 /\ HasFinished(q) /\ q.flight # <<>>
       /\ \A i \in DOMAIN q.flight : q.flight[i] = ChangeCipherSpec \/ Says(conf, "client", q.flight[i])
  <2>1. Says(conf, "client", Message("Finished", k + 2 + 2 * A, 1, FALSE, Hash(conf, k, 5 + 3 * A)))
    BY <1>4, <1>5 DEF Says, ClientSays
  <2>2. Transcript(conf, k)[5 + 3 * A + 1] = <<"Finished", k + 2 + 2 * A, 1>>
    BY <1>4, <1>5 DEF Transcript
  <2>3. k + 2 + 2 * A \in Nat /\ 5 + 3 * A \in Nat /\ k + 2 + 2 * A + 1 = k + 3 + 2 * A
        /\ 5 + 3 * A + 1 = 6 + 3 * A
    BY <1>4
  <2> HIDE DEF k, A, q
  <2>4. /\ q \in Contexts /\ Stays(w, q) /\ q.out_msg_seq = k + 2 + 2 * A + 1
        /\ q.checksum = Hash(conf, One(q.cookie), 5 + 3 * A + 1)
        /\ q.out_epoch = 1 /\ q.alt_epoch = 0 /\ HasFinished(q) /\ q.flight # <<>>
        /\ \A i \in DOMAIN q.flight : q.flight[i] = ChangeCipherSpec \/ Says(conf, "client", q.flight[i])
    BY <1>1, <1>13, <1>14, <2>1, <2>2, <2>3, Closes DEF q
  <2> QED
    BY <1>14, <2>3, <2>4 DEF Stays
<1> HIDE DEF q
<1>16. Stays(p, q)
  BY <1>9, <1>11, <1>13, <1>15, StaysOn
<1>17. /\ state \in ClientStates(conf) \ Hello /\ ClientIn(conf, state, k) = k + 3 + A
       /\ ClientOut(conf, state, k) = k + 3 + 2 * A
       /\ One(HasWritten(conf, "client", state)) = 1 /\ One(HasRead(conf, "client", state)) = 0
       /\ state \notin {"SERVER_HELLO_DONE", "CLIENT_CERTIFICATE", "SERVER_CERTIFICATE",
                        "CERTIFICATE_REQUEST"}
       /\ ClientHasFinished(conf, state)
  <2>1. /\ state \in ClientStates(conf) \ Hello
        /\ state \notin {"SERVER_HELLO_DONE", "CLIENT_CERTIFICATE", "SERVER_CERTIFICATE",
                         "CERTIFICATE_REQUEST"}
        /\ ClientHasFinished(conf, state)
    BY <1>4, <1>5 DEF ClientStates, Hello, Closed, ClientHasFinished
  <2>2. ClientIn(conf, state, k) = k + 3 + A
    BY <1>4, <1>5 DEF ClientIn, Hello, One
  <2> QED
    BY <1>5, <2>1, <2>2 DEF ClientOut, HasWritten, HasRead, Closed, One, Hello
<1>18. Place(conf, "client", Goto(q, state)) /\ Remembered(conf, "client", Goto(q, state))
  <2>1. (k + 3 + A) + (k + 3 + 2 * A) - 2 * k = 6 + 3 * A
    BY <1>4
  <2>2. One(conf.cookies) = k /\ One(state \notin Hello) = 1
    BY <1>17 DEF First, One
  <2> HIDE DEF p, k, A, state
  <2>3. LET g == Goto(q, state) IN
        /\ g.state = state /\ g.cookie = conf.cookies /\ g.session = 1 /\ g.alt_epoch = 0
        /\ g.in_msg_seq = k + 3 + A /\ g.out_msg_seq = k + 3 + 2 * A
        /\ g.in_epoch = 0 /\ g.out_epoch = 1 /\ g.checksum = Hash(conf, k, 6 + 3 * A)
    BY <1>6, <1>15, <1>16, Went DEF Stays
  <2>4. Place(conf, "client", Goto(q, state))
    BY <1>17, <2>1, <2>2, <2>3 DEF Place
  <2>5. Remembered(conf, "client", Goto(q, state))
    BY <1>17, <2>3 DEF Remembered
  <2> QED
    BY <2>4, <2>5
<1>19. /\ state \in States /\ "SERVER_HELLO_DONE" \notin {p.state, state} /\ state \notin Hello
       /\ p.state \notin Hello
  BY <1>3 DEF States, Hello
<1> HIDE DEF state
<1> QED
  BY <1>1, <1>7, <1>15, <1>16, <1>18, <1>19, WriteFlightKeeps

\* those that write the last flight,
LEMMA WriteFinishedKeeps ==
  ASSUME TypeOK, FirstSession, NEW e \in Endpoints, WriteFinished(e)
  PROVE  FirstSession'
<1> USE DEF Types
<1> DEFINE p == ssl[e]
           k == First(conf)
           A == Auth(conf)
           T == Tick(conf)
           state == "HANDSHAKE_WRAPUP"
<1>1. p \in Contexts /\ conf \in Confs
  BY DEF TypeOK
<1>2. EndpointInv(conf, e, p) /\ Place(conf, e, p) /\ Remembered(conf, e, p)
  BY <1>1 DEF FirstSession, EndpointInv
<1>3. /\ k \in {0, 1} /\ A \in {0, 1} /\ T \in {0, 1}
      /\ conf.cookies \in BOOLEAN /\ conf.ticket \in BOOLEAN /\ conf.auth \in BOOLEAN
      /\ A = One(conf.auth) /\ T = One(conf.ticket)
  BY <1>1, Numbers, ConfTyping DEF Auth, Tick
<1>4. p.state = IF e = "client" THEN "CLIENT_CHANGE_CIPHER_SPEC" ELSE "SERVER_CHANGE_CIPHER_SPEC"
  BY DEF WriteFinished, At
<1>5. p.cookie = conf.cookies /\ One(p.cookie) = k /\ state \in States /\ state \notin Hello
      /\ p.state \notin Hello /\ "SERVER_HELLO_DONE" \notin {p.state, state}
  BY <1>2, <1>4 DEF Place, Hello, First, States
<1>6. CASE e = "client"
  <2> DEFINE q == WriteClosing(p)
  <2>1. WriteFlight(e, q, state)
    <3>1. WriteWhen(e = "server" /\ conf.ticket, p, "NewSessionTicket") = p
      BY <1>6 DEF WriteWhen
    <3> QED
      BY <3>1 DEF WriteFinished
  <2>2. conf.resume
    BY <1>2, <1>4, <1>6 DEF Place, ClientStates, Hello, Closed
  <2>3. /\ p.session = 1 /\ p.in_epoch = 1 /\ p.in_msg_seq = k + 2 + T /\ p.out_msg_seq = k + 1
        /\ ~HasWritten(conf, e, p.state)
    <3>1. p.in_msg_seq = k + 1 + (T + 1)
      BY <1>2, <1>4, <1>5, <1>6, <2>2 DEF Place, ClientIn, Hello
    <3> QED
      BY <1>2, <1>3, <1>4, <1>5, <1>6, <2>2, <3>1 DEF Place, ClientOut, Hello, HasRead, HasWritten,
         ClientHasFinished, Closed, One
  <2>4. Draft(conf, e, p, k + 1, 3 + T)
    <3>1. Draft(conf, e, p, p.out_msg_seq, p.in_msg_seq + p.out_msg_seq - 2 * One(p.cookie))
      BY <1>1, <1>2, <2>3, DraftBegins
    <3>2. p.in_msg_seq + p.out_msg_seq - 2 * One(p.cookie) = 3 + T
      BY <1>3, <1>5, <2>3
    <3> QED
      BY <2>3, <3>1, <3>2
  <2>5. /\ q \in Contexts /\ Stays(p, q) /\ q.out_msg_seq = k + 2
        /\ q.checksum = Hash(conf, k, 4 + T)
        /\ q.out_epoch = 1 /\ q.alt_epoch = 0 /\ HasFinished(q) /\ q.flight # <<>>
        /\ \A i \in DOMAIN q.flight : q.flight[i] = ChangeCipherSpec \/ Says(conf, e, q.flight[i])
    <3>1. Says(conf, e, Message("Finished", k + 1, p.session, FALSE, Hash(conf, One(p.cookie), 3 + T)))
      BY <1>5, <1>6, <2>2, <2>3 DEF Says, ClientSays
    <3>2. Transcript(conf, One(p.cookie))[3 + T + 1] = <<"Finished", k + 1, p.session>>
      BY <1>3, <1>5, <2>2, <2>3 DEF Transcript
    <3>3. k + 1 \in Nat /\ 3 + T \in Nat /\ k + 1 + 1 = k + 2 /\ 3 + T + 1 = 4 + T
      BY <1>3
    <3> HIDE DEF p, k, T, q
    <3>4. /\ q \in Contexts /\ Stays(p, q) /\ q.out_msg_seq = k + 1 + 1
          /\ q.checksum = Hash(conf, One(q.cookie), 3 + T + 1)
          /\ q.out_epoch = 1 /\ q.alt_epoch = 0 /\ HasFinished(q) /\ q.flight # <<>>
          /\ \A i \in DOMAIN q.flight : q.flight[i] = ChangeCipherSpec \/ Says(conf, e, q.flight[i])
      BY <1>1, <2>4, <3>1, <3>2, <3>3, Closes DEF q
    <3> QED
      BY <1>5, <3>3, <3>4 DEF Stays
  <2> HIDE DEF q
  <2>6. /\ state \in ClientStates(conf) /\ ClientIn(conf, state, k) = k + 2 + T
        /\ ClientOut(conf, state, k) = k + 2
        /\ One(HasWritten(conf, e, state)) = 1 /\ One(HasRead(conf, e, state)) = 1
    <3>1. ClientIn(conf, state, k) = k + 1 + (T + 1)
      BY <2>2 DEF ClientIn, Hello
    <3> QED
      BY <1>3, <1>6, <2>2, <3>1 DEF ClientStates, Hello, ClientOut, HasWritten, HasRead,
         ClientHasFinished, Closed, One
  <2>7. Place(conf, e, Goto(q, state)) /\ Remembered(conf, e, Goto(q, state))
    <3>1. (k + 2 + T) + (k + 2) - 2 * k = 4 + T
      BY <1>3
    <3>2. One(conf.cookies) = k /\ One(state \notin Hello) = 1 /\ ClientHasFinished(conf, state)
      BY <2>2 DEF First, One, Hello, ClientHasFinished, Closed
    <3> HIDE DEF p, k, T
    <3>3. LET g == Goto(q, state) IN
          /\ g.state = state /\ g.cookie = conf.cookies /\ g.session = 1 /\ g.alt_epoch = 0
          /\ g.in_msg_seq = k + 2 + T /\ g.out_msg_seq = k + 2
          /\ g.in_epoch = 1 /\ g.out_epoch = 1 /\ g.checksum = Hash(conf, k, 4 + T)
      BY <1>5, <2>3, <2>5, Went DEF Stays
    <3>4. Place(conf, e, Goto(q, state))
      BY <1>6, <2>6, <3>1, <3>2, <3>3 DEF Place
    <3>5. Remembered(conf, e, Goto(q, state))
      BY <2>2, <3>2, <3>3 DEF Remembered, Hello
    <3> QED
      BY <3>4, <3>5
  <2> HIDE DEF state
  <2> QED
    BY <1>1, <1>5, <1>6, <2>1, <2>5, <2>7, WriteFlightKeeps
<1>7. CASE e = "server"
  <2> DEFINE w == WriteWhen(conf.ticket, p, "NewSessionTicket")
             q == WriteClosing(w)
  <2>1. WriteFlight(e, q, state)
    <3>1. WriteWhen(e = "server" /\ conf.ticket, p, "NewSessionTicket") = w
      BY <1>7 DEF WriteWhen
    <3> QED
      BY <3>1 DEF WriteFinished
  <2>2. ~conf.resume
    BY <1>2, <1>4, <1>7 DEF Place, ServerStates, Hello, Closed
  <2>3. /\ p.session = 1 /\ p.in_epoch = 1 /\ p.in_msg_seq = k + 3 + 2 * A
        /\ p.out_msg_seq = k + 3 + A /\ ~HasWritten(conf, e, p.state)
    <3>1. p.in_msg_seq = k + 2 + 2 * A + 1
      BY <1>2, <1>4, <1>5, <1>7, <2>2 DEF Place, ServerIn, Hello
    <3> QED
      BY <1>2, <1>3, <1>4, <1>5, <1>7, <2>2, <3>1 DEF Place, ServerOut, Hello, HasRead, HasWritten,
         ServerHasFinished, Closed, One
  <2>4. Draft(conf, e, p, k + 3 + A, 6 + 3 * A)
    <3>1. Draft(conf, e, p, p.out_msg_seq, p.in_msg_seq + p.out_msg_seq - 2 * One(p.cookie))
      BY <1>1, <1>2, <2>3, DraftBegins
    <3>2. p.in_msg_seq + p.out_msg_seq - 2 * One(p.cookie) = 6 + 3 * A
      BY <1>3, <1>5, <2>3
    <3> QED
      BY <2>3, <3>1, <3>2
  <2>5. Draft(conf, e, w, k + 3 + A + T, 6 + 3 * A + T) /\ Stays(p, w)
    <3>1. conf.ticket => Says(conf, e, Message("NewSessionTicket", k + 3 + A, p.session, FALSE, <<>>))
      BY <1>7, <2>2, <2>3 DEF Says, ServerSays
    <3>2. conf.ticket => Transcript(conf, One(p.cookie))[6 + 3 * A + 1]
                           = <<"NewSessionTicket", k + 3 + A, p.session>>
      BY <1>3, <1>5, <2>2, <2>3 DEF Transcript, One
    <3>3. k + 3 + A \in Nat /\ 6 + 3 * A \in Nat
      BY <1>3
    <3>4. "NewSessionTicket" \in Types \ {"ChangeCipherSpec", "Finished", "ClientHello"}
      OBVIOUS
    <3> HIDE DEF p, k, A, T, w
    <3>5. Draft(conf, e, w, k + 3 + A + One(conf.ticket), 6 + 3 * A + One(conf.ticket)) /\ Stays(p, w)
      BY <1>1, <1>3, <2>4, <3>1, <3>2, <3>3, <3>4, DraftsWhen DEF w
    <3> QED
      BY <1>3, <3>5
  <2> HIDE DEF w
  <2>6. w.session = 1 /\ One(w.cookie) = k
    BY <1>5, <2>3, <2>5 DEF Stays
  <2>7. /\ q \in Contexts /\ Stays(w, q) /\ q.out_msg_seq = k + 4 + A + T
        /\ q.checksum = Hash(conf, k, 7 + 3 * A + T)
        /\ q.out_epoch = 1 /\ q.alt_epoch = 0 /\ HasFinished(q) /\ q.flight # <<>>
        /\ \A i \in DOMAIN q.flight : q.flight[i] = ChangeCipherSpec \/ Says(conf, e, q.flight[i])
    <3>1. Says(conf, e, Message("Finished", k + 3 + A + T, 1, FALSE, Hash(conf, k, 6 + 3 * A + T)))
      BY <1>7, <2>2 DEF Says, ServerSays
    <3>2. Transcript(conf, k)[6 + 3 * A + T + 1] = <<"Finished", k + 3 + A + T, 1>>
      BY <1>3, <2>2 DEF Transcript
    <3>3. k + 3 + A + T \in Nat /\ 6 + 3 * A + T \in Nat /\ k + 3 + A + T + 1 = k + 4 + A + T
          /\ 6 + 3 * A + T + 1 = 7 + 3 * A + T
      BY <1>3
    <3> HIDE DEF k, A, T, q
    <3>4. /\ q \in Contexts /\ Stays(w, q) /\ q.out_msg_seq = k + 3 + A + T + 1
          /\ q.checksum = Hash(conf, One(q.cookie), 6 + 3 * A + T + 1)
          /\ q.out_epoch = 1 /\ q.alt_epoch = 0 /\ HasFinished(q) /\ q.flight # <<>>
          /\ \A i \in DOMAIN q.flight : q.flight[i] = ChangeCipherSpec \/ Says(conf, e, q.flight[i])
      BY <1>1, <2>5, <2>6, <3>1, <3>2, <3>3, Closes DEF q
    <3> QED
      BY <2>6, <3>3, <3>4 DEF Stays
  <2> HIDE DEF q
  <2>8. Stays(p, q)
    BY <2>5, <2>7, StaysOn
  <2>9. /\ state \in ServerStates(conf) /\ ServerIn(conf, state, k) = k + 3 + 2 * A
        /\ ServerOut(conf, state, k) = k + 4 + A + T
        /\ One(HasWritten(conf, e, state)) = 1 /\ One(HasRead(conf, e, state)) = 1
    <3>1. ServerIn(conf, state, k) = k + 2 + 2 * A + 1
      BY <2>2 DEF ServerIn, Hello
    <3> QED
      BY <1>3, <1>7, <2>2, <3>1 DEF ServerStates, Hello, ServerOut, HasWritten, HasRead,
         ServerHasFinished, Closed, One
  <2>10. Place(conf, e, Goto(q, state)) /\ Remembered(conf, e, Goto(q, state))
    <3>1. (k + 3 + 2 * A) + (k + 4 + A + T) - 2 * k = 7 + 3 * A + T
      BY <1>3
    <3>2. One(conf.cookies) = k
      BY DEF First
    <3> HIDE DEF p, k, A, T
    <3>3. LET g == Goto(q, state) IN
          /\ g.state = state /\ g.cookie = conf.cookies /\ g.session = 1 /\ g.alt_epoch = 0
          /\ g.in_msg_seq = k + 3 + 2 * A /\ g.out_msg_seq = k + 4 + A + T
          /\ g.in_epoch = 1 /\ g.out_epoch = 1 /\ g.checksum = Hash(conf, k, 7 + 3 * A + T)
      BY <1>5, <2>3, <2>7, <2>8, Went DEF Stays
    <3>4. Place(conf, e, Goto(q, state))
      BY <1>7, <2>9, <3>1, <3>2, <3>3 DEF Place
    <3> QED
      BY <1>7, <3>4 DEF Remembered
  <2> HIDE DEF state
  <2> QED
    BY <1>1, <1>5, <1>7, <2>1, <2>7, <2>8, <2>10, WriteFlightKeeps
<1> QED
  BY <1>6, <1>7 DEF Endpoints

\* A context after ssl_handshake_init is at the first place.
LEMMA ResetKeeps ==
  ASSUME NEW c \in Confs
  PROVE  EndpointInv(c, "client", Reset(0)) /\ EndpointInv(c, "server", Reset(1))
<1>1. ASSUME NEW n \in {0, 1}
      PROVE  LET p == Reset(n) IN
             /\ p.state = "CLIENT_HELLO" /\ p.session = n /\ p.ret = "ok" /\ p.out_msg_seq = 0
             /\ p.in_msg_seq = 0 /\ p.flight = <<>> /\ p.in_epoch = 0 /\ p.out_epoch = 0
             /\ p.alt_epoch = 0 /\ p.hs = {} /\ p.future_record = {}
             /\ p.keep_current_message = <<>> /\ p.checksum = <<>> /\ p.cookie = FALSE
             /\ p.client_auth = FALSE
  BY DEF Reset
<1>2. Hash(c, 0, 0) = <<>>
  BY DEF Hash
<1>3. ASSUME NEW e \in Endpoints, NEW p, p.state = "CLIENT_HELLO", p.ret = "ok", p.out_msg_seq = 0,
             p.session = IF e = "client" THEN 0 ELSE 1,
             p.in_msg_seq = 0, p.flight = <<>>, p.in_epoch = 0, p.out_epoch = 0, p.alt_epoch = 0,
             p.hs = {}, p.future_record = {}, p.keep_current_message = <<>>, p.checksum = <<>>,
             p.cookie = FALSE, p.client_auth = FALSE
      PROVE  EndpointInv(c, e, p)
  <2>1. Place(c, e, p)
    BY <1>2, <1>3 DEF Place, Hello, ClientStates, ServerStates, ClientIn, ClientOut, ServerIn, ServerOut,
       HasRead, HasWritten, ClientHasFinished, ServerHasFinished, Closed, One, Endpoints
  <2>2. FlightInv(c, e, p)
    BY <1>3 DEF FlightInv, HasFinished, Reads, Endpoints
  <2>3. Early(c, e, p) /\ Remembered(c, e, p)
    BY <1>3 DEF Early, Remembered, Hello
  <2> QED
    BY <1>3, <2>1, <2>2, <2>3 DEF EndpointInv
<1> QED
  BY <1>1, <1>3 DEF Endpoints

\* the answer to a hello without cookie,
LEMMA WriteHelloVerifyRequestKeeps ==
  ASSUME TypeOK, FirstSession, WriteHelloVerifyRequest
  PROVE  FirstSession'
<1> DEFINE p == ssl["server"]
           q == WriteMessage(p, "HelloVerifyRequest")
           m == Message("HelloVerifyRequest", 0, 1, FALSE, <<>>)
<1>1. "server" \in Endpoints /\ p \in Contexts /\ conf \in Confs
  BY DEF TypeOK, Endpoints
<1>2. Place(conf, "server", p)
  BY <1>1 DEF FirstSession, EndpointInv
<1>3. /\ p.state = "SERVER_HELLO" /\ p.state \in Hello /\ conf.cookies /\ ~q.cookie
      /\ net' = net \cup FlightRecords("server", q) /\ conf' = conf
      /\ ssl' = [ssl EXCEPT !["server"] = Reset(q.session)]
  BY DEF WriteHelloVerifyRequest, At, Hello
<1>4. LET n == Message("HelloVerifyRequest", p.out_msg_seq, p.session, FALSE, <<>>) IN
      /\ n \in Messages /\ q \in Contexts /\ Stays(p, q) /\ q.flight = Append(p.flight, n)
      /\ q.alt_epoch = p.alt_epoch
  <2>1. "HelloVerifyRequest" \in Types \ {"ChangeCipherSpec"} /\ "HelloVerifyRequest" # "Finished"
    BY DEF Types
  <2> QED
    BY ZenonT(40), <1>1, <2>1, MessageWritten
<1> HIDE DEF q
<1>5. p.out_msg_seq = 0 /\ p.session = 1 /\ p.alt_epoch = 0 /\ p.flight = <<>>
  <2>1. p.flight = <<>> /\ ~p.cookie
    BY <1>3, <1>4 DEF FirstSession, EarlyInv, Stays
  <2> QED
    BY <1>2, <1>3, <2>1 DEF Place, ServerOut, Hello, One
<1>6. /\ m \in Messages /\ q \in Contexts /\ q.flight = Append(<<>>, m) /\ q.alt_epoch = 0
      /\ q.session = 1 /\ m.type = "HelloVerifyRequest"
  BY <1>4, <1>5 DEF Stays, Message
<1>7. \A r \in FlightRecords("server", q) :
        r.from = "server" /\ r.msg = m /\ Sends(conf, "server", r)
  <2> SUFFICES ASSUME NEW r \in FlightRecords("server", q)
               PROVE  r.from = "server" /\ r.msg = m /\ Sends(conf, "server", r)
    OBVIOUS
  <2>1. PICK x \in ToSet(q.flight) :
          r = Record("server", IF x.type = "Finished" THEN SwapEpochs(SwapEpochs(q)) ELSE SwapEpochs(q), x)
    BY DEF FlightRecords
  <2>2. x = m
    <3> HIDE DEF m
    <3>1. PICK i \in DOMAIN q.flight : x = q.flight[i]
      BY <2>1 DEF ToSet
    <3>2. i \notin DOMAIN <<>>
      OBVIOUS
    <3> QED
      BY <1>6, <3>1, <3>2, Empties, Appended
  <2>3. SwapEpochs(q).out_epoch = 0
    BY <1>6 DEF SwapEpochs, Contexts
  <2>4. r = Record("server", SwapEpochs(q), m)
    BY <1>6, <2>1, <2>2
  <2>5. r.from = "server" /\ r.msg = m /\ r.epoch = 0 /\ r.key = 0
    BY <2>3, <2>4 DEF Record
  <2>6. ServerSays(conf, m)
    BY <1>3 DEF ServerSays
  <2> QED
    BY <1>6, <2>5, <2>6 DEF Sends, Says
<1>8. ssl'["server"] = Reset(1) /\ ssl'["client"] = ssl["client"]
  BY <1>3, <1>6 DEF TypeOK, Endpoints
<1>9. \A e \in Endpoints : EndpointInv(conf', e, ssl'[e])
  BY <1>1, <1>3, <1>8, ResetKeeps DEF FirstSession, Endpoints
<1>10. \A r \in net' : \E e \in Endpoints : Sends(conf', e, r)
  BY <1>1, <1>3, <1>7 DEF FirstSession
<1>11. EarlyInv'
  <2>1. Reset(1).future_record = {} /\ Reset(1).flight = <<>>
    BY DEF Reset
  <2>2. \A r \in net' : r.msg.type = IF r.from = "client" THEN "ClientHello" ELSE "HelloVerifyRequest"
    BY <1>3, <1>6, <1>7 DEF FirstSession, EarlyInv
  <2> QED
    BY <1>3, <1>8, <2>1, <2>2 DEF FirstSession, EarlyInv, Endpoints
<1> QED
  BY <1>9, <1>10, <1>11 DEF FirstSession

\* the end of the handshake,
LEMMA WrapupKeeps ==
  ASSUME TypeOK, FirstSession, NEW e \in Endpoints, Wrapup(e)
  PROVE  FirstSession'
<1> DEFINE p == ssl[e]
           g == Goto(p, "HANDSHAKE_OVER")
           t == [g EXCEPT !.timer = FALSE]
<1>1. p \in Contexts /\ EndpointInv(conf, e, p) /\ Quiet(e, p)
  BY QuietNow DEF TypeOK, FirstSession
<1>2. p.state = "HANDSHAKE_WRAPUP"
  BY DEF Wrapup, At
<1>3. SetContext(e, IF g.flight # <<>> THEN t ELSE FreeHandshake(g))
  BY DEF Wrapup
<1>4. /\ g \in Contexts
      /\ Moves(p, g) /\ g.state = "HANDSHAKE_OVER" /\ g.flight = p.flight /\ g.session = p.session
      /\ g.in_epoch = p.in_epoch /\ g.keep_current_message = p.keep_current_message
      /\ g.new_session_ticket = p.new_session_ticket /\ g.client_auth = p.client_auth
      /\ g.in_msg_seq = p.in_msg_seq /\ g.checksum = p.checksum
      /\ g.hs = p.hs /\ g.future_record = p.future_record
  BY <1>1, WentTo DEF States
<1> HIDE DEF g
<1>5. Place(conf, e, p) /\ FlightInv(conf, e, p) /\ Early(conf, e, p) /\ Remembered(conf, e, p)
      /\ p.ret \in {"ok", "timeout"}
  BY <1>1 DEF EndpointInv
<1>6. Place(conf, e, g)
  <2>1. CASE e = "client"
    <3>1. /\ ClientIn(conf, g.state, One(g.cookie)) = ClientIn(conf, p.state, One(g.cookie))
          /\ ClientOut(conf, g.state, One(g.cookie)) = ClientOut(conf, p.state, One(g.cookie))
          /\ One(g.state \notin Hello) = One(p.state \notin Hello)
          /\ g.state \in ClientStates(conf) /\ p.state \notin Hello
          /\ HasRead(conf, e, g.state) = HasRead(conf, e, p.state)
          /\ HasWritten(conf, e, g.state) = HasWritten(conf, e, p.state)
      BY <1>2, <1>4, <2>1 DEF ClientIn, ClientOut, ClientHasFinished, ClientStates, HasRead, HasWritten,
         Hello, Closed, One
    <3> QED
      BY <1>4, <1>5, <2>1, <3>1 DEF Place, Moves
  <2>2. CASE e = "server"
    <3>1. /\ ServerIn(conf, g.state, One(g.cookie)) = ServerIn(conf, p.state, One(g.cookie))
          /\ ServerOut(conf, g.state, One(g.cookie)) = ServerOut(conf, p.state, One(g.cookie))
          /\ g.state # "CLIENT_HELLO"
          /\ g.state \in ServerStates(conf) /\ p.state \notin Hello
          /\ HasRead(conf, e, g.state) = HasRead(conf, e, p.state)
          /\ HasWritten(conf, e, g.state) = HasWritten(conf, e, p.state)
      BY <1>2, <1>4, <2>2 DEF ServerIn, ServerOut, ServerHasFinished, ServerStates, HasRead, HasWritten,
         Hello, Closed, One
    <3> QED
      BY <1>4, <1>5, <2>2, <3>1 DEF Place, Moves
  <2> QED
    BY <2>1, <2>2 DEF Endpoints
<1>7. Early(conf, e, g) /\ Remembered(conf, e, g)
  BY <1>2, <1>4, <1>5 DEF Early, Remembered, Hello, ClientHasFinished, Closed
<1>8. ASSUME NEW q, q.state = "HANDSHAKE_OVER" PROVE Quiet(e, q)
  BY <1>1, <1>2, <1>8 DEF Quiet, Hello
<1>9. CASE g.flight # <<>>
  <2>1. FlightInv(conf, e, g)
    BY <1>4, <1>5, <1>9 DEF FlightInv, HasFinished, Moves
  <2>2. EndpointInv(conf, e, g)
    BY <1>4, <1>5, <1>6, <1>7, <2>1 DEF EndpointInv, Moves
  <2>3. Alike(g, t) /\ t.ret = g.ret /\ t.hs = g.hs /\ t.future_record = g.future_record
    BY <1>4 DEF Alike, Contexts
  <2> HIDE DEF t
  <2>4. EndpointInv(conf, e, t)
    BY <2>2, <2>3, AlikeKept DEF EndpointInv, Early
  <2> QED
    BY <1>3, <1>4, <1>8, <1>9, <2>3, <2>4, SetContextKeeps DEF Alike
<1>10. CASE g.flight = <<>>
  <2>1. EndpointInv(conf, e, FreeHandshake(g))
    BY <1>4, <1>5, <1>6, <1>7, FreeKeeps DEF Moves
  <2>2. FreeHandshake(g).state = "HANDSHAKE_OVER"
    BY <1>4 DEF FreeHandshake, Contexts
  <2> QED
    BY <1>3, <1>8, <1>10, <2>1, <2>2, SetContextKeeps
<1> QED
  BY <1>9, <1>10

--------------------------------------------------------------------------------
(* What is sent once the handshake is over, timeouts, and hellos.          *)

\* A record that is sent without a change of state.
LEMMA RecordSent ==
  ASSUME FirstSession, NEW r, NEW e \in Endpoints, Sends(conf, e, r), net' = net \cup {r},
         UNCHANGED <<conf, ssl>>,
         ssl["server"].state \in Hello =>
           r.msg.type = IF r.from = "client" THEN "ClientHello" ELSE "HelloVerifyRequest"
  PROVE  FirstSession'
BY DEF FirstSession, EarlyInv

\* application data,
LEMMA WriteKeeps ==
  ASSUME TypeOK, FirstSession, NEW e \in Endpoints, Write(e)
  PROVE  FirstSession'
<1> DEFINE p == ssl[e]
           r == Record(e, p, ApplicationData)
<1>1. p.state = "HANDSHAKE_OVER" /\ net' = net \cup {r} /\ UNCHANGED <<conf, ssl>>
  BY DEF Write, Over
<1>2. Place(conf, e, p)
  BY DEF FirstSession, EndpointInv
<1>3. p.out_epoch = 1 /\ p.session = 1
  BY <1>1, <1>2 DEF Place, HasWritten, ClientHasFinished, ServerHasFinished, Hello, Closed, One, Endpoints
<1>4. Sends(conf, e, r)
  BY <1>3 DEF Record, Sends
<1>5. ssl["server"].state \notin Hello
  BY <1>1 DEF FirstSession, EarlyInv, Endpoints, Hello
<1> HIDE DEF r
<1> QED
  BY <1>1, <1>4, <1>5, RecordSent

\* and timeouts.
LEMMA TimeKeeps ==
  ASSUME TypeOK, FirstSession, NEW e \in Endpoints, Waiting(e), TimeIsOver(e)
  PROVE  FirstSession'
<1> DEFINE p == ssl[e]
           doubled == IF conf.patient THEN p.retransmit_timeout ELSE p.retransmit_timeout + 1
           t == [p EXCEPT !.timer = FALSE, !.ret = "timeout"]
           r == [p EXCEPT !.retransmit_timeout = doubled]
<1>1. p \in Contexts /\ EndpointInv(conf, e, p) /\ Quiet(e, p)
  BY QuietNow DEF TypeOK, FirstSession
<1>2. IF doubled > MaxTimeout THEN SetContext(e, t) ELSE FlightTransmit(e, r)
  BY DEF TimeIsOver
<1>3. doubled \in Nat
  <2>1. p.retransmit_timeout \in Nat /\ p.retransmit_timeout + 1 \in Nat
    BY <1>1 DEF Contexts
  <2> QED
    BY <2>1
<1>4. p.flight # <<>>
  BY <1>1 DEF Waiting, EndpointInv, FlightInv
<1>5. CASE doubled > MaxTimeout
  <2>1. EndpointInv(conf, e, t)
    BY <1>1, GivesUpKeeps
  <2>2. t.state = p.state /\ t.future_record = p.future_record /\ t.hs = p.hs /\ t.flight = p.flight
    BY <1>1 DEF Contexts
  <2> HIDE DEF t
  <2>3. Quiet(e, t)
    BY <1>1, <2>2 DEF Quiet
  <2> QED
    BY <1>2, <1>5, <2>1, <2>3, SetContextKeeps
<1>6. CASE ~(doubled > MaxTimeout)
  <2> HIDE DEF doubled
  <2>1. EndpointInv(conf, e, r)
    BY <1>1, <1>3, SmallSteps
  <2>2. /\ r \in Contexts /\ r.state = p.state /\ r.future_record = p.future_record /\ r.hs = p.hs
        /\ r.flight = p.flight
    BY <1>1, <1>3 DEF Contexts
  <2> HIDE DEF r
  <2>3. Quiet(e, r)
    BY <1>1, <2>2 DEF Quiet
  <2> QED
    BY <1>2, <1>4, <1>6, <2>1, <2>2, <2>3, FlightTransmitKeeps
<1> QED
  BY <1>5, <1>6

\* A ClientHello is the first, or the one with a cookie.
LEMMA HelloSaid ==
  ASSUME NEW c, NEW m, ClientSays(c, m), m.type = "ClientHello"
  PROVE  \/ m = Message("ClientHello", 0, 0, FALSE, <<>>)
         \/ c.cookies /\ m = Message("ClientHello", 1, 0, TRUE, <<>>)
BY DEF ClientSays, Message

\* The server reads a ClientHello, whichever it is, as its first message.
LEMMA ParseClientHelloKeeps ==
  ASSUME TypeOK, FirstSession, NEW cookie \in BOOLEAN, ParseClientHello(cookie)
  PROVE  FirstSession'
<1> DEFINE p == ssl["server"]
<1>1. "server" \in Endpoints /\ "client" \in Endpoints /\ p \in Contexts /\ conf \in Confs
  BY DEF TypeOK, Endpoints
<1>2. EndpointInv(conf, "server", p) /\ Place(conf, "server", p)
  BY <1>1 DEF FirstSession, EndpointInv
<1>3. p.state = "CLIENT_HELLO" /\ p.state \in Hello
  BY DEF ParseClientHello, Hello
<1>4. PICK r \in net :
        /\ r.from = "client"
        /\ SetContext("server", IF r.epoch = 0 /\ r.msg.type = "ClientHello"
                                THEN ClientHelloParsed(p, r.msg) ELSE Fatal(p))
  BY DEF ParseClientHello
<1> DEFINE m == r.msg
           k == One(m.cookie)
           v == [p EXCEPT !.out_msg_seq = m.seq, !.in_msg_seq = m.seq + 1, !.checksum = <<Digest(m)>>,
                          !.cookie = m.cookie, !.new_session_ticket = conf.ticket,
                          !.state = "SERVER_HELLO"]
           q == RecvFlightCompleted(v)
<1>5. Sends(conf, "client", r) /\ m.type = "ClientHello" /\ m \in Messages
  <2>1. PICK e \in Endpoints : Sends(conf, e, r)
    BY <1>4 DEF FirstSession
  <2>2. e = "client"
    BY <1>4, <2>1 DEF Sends
  <2> QED
    BY <1>3, <1>4, <2>1, <2>2 DEF FirstSession, EarlyInv, TypeOK, Records
<1>6. r.epoch = 0 /\ ClientSays(conf, m)
  BY <1>5, PlainMessages DEF Sends, Says
<1>7. /\ k \in {0, 1} /\ m.seq = k /\ m.session = 0 /\ m.cookie \in BOOLEAN
      /\ (m.cookie => conf.cookies)
  <2>1. \/ m = Message("ClientHello", 0, 0, FALSE, <<>>)
        \/ conf.cookies /\ m = Message("ClientHello", 1, 0, TRUE, <<>>)
    BY <1>5, <1>6, HelloSaid
  <2>2. CASE m = Message("ClientHello", 0, 0, FALSE, <<>>)
    <3>1. m.seq = 0 /\ m.session = 0 /\ m.cookie = FALSE
      BY <2>2 DEF Message
    <3> HIDE DEF m
    <3> QED
      BY <3>1 DEF One
  <2>3. CASE conf.cookies /\ m = Message("ClientHello", 1, 0, TRUE, <<>>)
    <3>1. m.seq = 1 /\ m.session = 0 /\ m.cookie = TRUE
      BY <2>3 DEF Message
    <3> HIDE DEF m
    <3> QED
      BY <2>3, <3>1 DEF One
  <2> QED
    BY <2>1, <2>2, <2>3
<1>8. SetContext("server", q)
  BY <1>4, <1>5, <1>6 DEF ClientHelloParsed
<1> HIDE DEF m
<1>9. /\ p.session = 1 /\ p.in_epoch = 0 /\ p.out_epoch = 0 /\ p.alt_epoch = 0
      /\ p.keep_current_message = <<>> /\ p.ret \in {"ok", "timeout"}
  BY <1>2, <1>3 DEF Place, HasRead, HasWritten, ServerHasFinished, Hello, Closed, One, EndpointInv, Early
<1>10. /\ v \in Contexts /\ v.session = 1 /\ v.in_epoch = 0 /\ v.out_epoch = 0 /\ v.alt_epoch = 0
       /\ v.keep_current_message = <<>> /\ v.ret = p.ret /\ v.cookie = m.cookie
       /\ v.in_msg_seq = k + 1 /\ v.out_msg_seq = k /\ v.state = "SERVER_HELLO"
       /\ v.checksum = <<<<"ClientHello", k, 0>>>>
  <2>1. m.seq \in Nat /\ m.seq + 1 \in Nat /\ <<Digest(m)>> \in Seq(Digests)
    BY <1>5, DigestTyping DEF Messages
  <2>2. m.cookie \in BOOLEAN /\ conf.ticket \in BOOLEAN
    BY <1>1, <1>7, ConfTyping
  <2>3. Digest(m) = <<"ClientHello", k, 0>>
    BY <1>5, <1>7 DEF Digest
  <2>4. /\ v \in Contexts /\ v.session = p.session /\ v.in_epoch = p.in_epoch
        /\ v.out_epoch = p.out_epoch /\ v.alt_epoch = p.alt_epoch
        /\ v.keep_current_message = p.keep_current_message /\ v.ret = p.ret /\ v.cookie = m.cookie
        /\ v.in_msg_seq = m.seq + 1 /\ v.out_msg_seq = m.seq /\ v.state = "SERVER_HELLO"
        /\ v.checksum = <<Digest(m)>>
    <3> DEFINE a == m.seq
               s == m.seq + 1
               d == <<Digest(m)>>
               b == m.cookie
               t == conf.ticket
    <3>1. a \in Nat /\ s \in Nat /\ d \in Seq(Digests) /\ b \in BOOLEAN /\ t \in BOOLEAN
      BY <2>1, <2>2
    <3> HIDE DEF a, s, d, b, t
    <3>2. LET w == [p EXCEPT !.out_msg_seq = a, !.in_msg_seq = s, !.checksum = d, !.cookie = b,
                             !.new_session_ticket = t, !.state = "SERVER_HELLO"] IN
               /\ w \in Contexts /\ w.session = p.session /\ w.in_epoch = p.in_epoch
               /\ w.out_epoch = p.out_epoch /\ w.alt_epoch = p.alt_epoch
               /\ w.keep_current_message = p.keep_current_message /\ w.ret = p.ret /\ w.cookie = b
               /\ w.in_msg_seq = s /\ w.out_msg_seq = a /\ w.state = "SERVER_HELLO"
               /\ w.checksum = d
      BY ZenonT(40), <1>1, <3>1 DEF Contexts, States
    <3> QED
      BY <3>2 DEF a, s, d, b, t
  <2> HIDE DEF v, k
  <2> QED
    BY <1>7, <1>9, <2>3, <2>4
<1> HIDE DEF v
<1>11. /\ Moves(v, q) /\ q.state = v.state /\ q.flight = <<>> /\ q.session = v.session
       /\ q.in_epoch = v.in_epoch /\ q.keep_current_message = v.keep_current_message
       /\ q.in_msg_seq = v.in_msg_seq /\ q.checksum = v.checksum
       /\ q.hs = {} /\ q.future_record = {}
  BY <1>10, Completed
<1> HIDE DEF q
<1>12. /\ q.session = 1 /\ q.in_epoch = 0 /\ q.out_epoch = 0 /\ q.alt_epoch = 0
       /\ q.keep_current_message = <<>> /\ q.ret \in {"ok", "timeout"} /\ q.cookie = m.cookie
       /\ q.in_msg_seq = k + 1 /\ q.out_msg_seq = k /\ q.state = "SERVER_HELLO"
       /\ q.checksum = <<<<"ClientHello", k, 0>>>>
  BY <1>9, <1>10, <1>11 DEF Moves
<1>13. Hash(conf, k, 1) = <<<<"ClientHello", k, 0>>>>
  <2>1. Hash(conf, k, 0) = <<>>
    BY DEF Hash
  <2>2. Transcript(conf, k)[1] = <<"ClientHello", k, 0>>
    BY DEF Transcript
  <2> HIDE DEF k
  <2>3. Append(Hash(conf, k, 0), Transcript(conf, k)[1]) = Hash(conf, k, 1)
    <3>1. k \in {0, 1} /\ 0 \in Nat /\ 0 + 1 = 1
      BY <1>7
    <3>2. Append(Hash(conf, k, 0), Transcript(conf, k)[0 + 1]) = Hash(conf, k, 0 + 1)
      BY <1>1, <3>1, HashAppend, Zenon
    <3> QED
      BY <3>1, <3>2
  <2>4. Append(<<>>, <<"ClientHello", k, 0>>) = <<<<"ClientHello", k, 0>>>>
    OBVIOUS
  <2> QED
    BY <2>1, <2>2, <2>3, <2>4
<1>14. Place(conf, "server", q)
  <2>1. (k + 1) + k - 2 * k = 1
    BY <1>7
  <2> HIDE DEF k
  <2>2. One(q.cookie) = k
    BY <1>12 DEF k
  <2> QED
    BY <1>7, <1>12, <1>13, <2>1, <2>2 DEF Place, Hello, ServerStates, ServerIn, ServerOut, HasRead,
       HasWritten, ServerHasFinished, Closed, One
<1>15. FlightInv(conf, "server", q)
  BY <1>11, <1>12 DEF FlightInv, HasFinished, Reads
<1>16. Early(conf, "server", q) /\ Remembered(conf, "server", q)
  BY <1>11, <1>12 DEF Early, Remembered
<1>17. EndpointInv(conf, "server", q)
  BY <1>12, <1>14, <1>15, <1>16 DEF EndpointInv
<1>18. Quiet("server", q)
  BY <1>3, <1>11 DEF Quiet
<1> QED
  BY <1>1, <1>8, <1>17, <1>18, SetContextKeeps

\* A ClientHello that brings no cookie is answered and forgotten.
LEMMA ReconnectKeeps ==
  ASSUME TypeOK, FirstSession, Reconnect, OneSession, OneSession'
  PROVE  FirstSession'
<1> DEFINE p == ssl["server"]
<1>1. "server" \in Endpoints /\ p \in Contexts /\ conf \in Confs
  BY DEF TypeOK, Endpoints
<1>2. p.state = "HANDSHAKE_OVER" /\ conf.cookies
  BY DEF Reconnect, Over
<1>3. PICK r \in net :
        /\ r.from = "client" /\ r.epoch = 0 /\ r.msg.type = "ClientHello"
        /\ IF r.msg.cookie
           THEN SetContext("server", ClientHelloParsed(Reset(p.session + 1), r.msg))
           ELSE /\ net' = net \cup {[from |-> "server", epoch |-> 0, key |-> 0,
                                     msg |-> Message("HelloVerifyRequest", r.msg.seq, p.session,
                                                     FALSE, <<>>)]}
                /\ UNCHANGED <<conf, ssl>>
  BY DEF Reconnect
<1>4. Sends(conf, "client", r) /\ r.msg \in Messages
  BY <1>3 DEF FirstSession, Sends, TypeOK, Records
<1>5. p.session = 1
  BY DEF OneSession
<1>6. ~r.msg.cookie
  <2>1. SUFFICES ASSUME r.msg.cookie PROVE FALSE
    OBVIOUS
  <2>2. ssl'["server"] = ClientHelloParsed(Reset(2), r.msg)
    BY <1>1, <1>3, <1>5, <2>1 DEF SetContext, TypeOK
  <2>3. ClientHelloParsed(Reset(2), r.msg).session = 2
    BY DEF ClientHelloParsed, RecvFlightCompleted, Reset
  <2> QED
    BY <2>2, <2>3 DEF OneSession
<1>7. r.msg.seq = 0
  <2>1. ClientSays(conf, r.msg)
    BY <1>3, <1>4, PlainMessages DEF Sends, Says
  <2> QED
    BY <1>3, <1>6, <2>1 DEF ClientSays, Message
<1> DEFINE h == [from |-> "server", epoch |-> 0, key |-> 0,
                 msg |-> Message("HelloVerifyRequest", 0, 1, FALSE, <<>>)]
<1>8. net' = net \cup {h} /\ UNCHANGED <<conf, ssl>>
  BY <1>3, <1>5, <1>6, <1>7
<1>9. Sends(conf, "server", h)
  BY <1>2 DEF Sends, Says, ServerSays, Message
<1>10. ssl["server"].state \notin Hello
  BY <1>2 DEF Hello
<1> HIDE DEF h
<1> QED
  BY <1>1, <1>8, <1>9, <1>10, RecordSent

--------------------------------------------------------------------------------
(* The session of the server never goes back to an earlier one.            *)

\* Nothing that makes up a step changes the session.
LEMMA HelpersStay ==
  ASSUME NEW p \in Contexts
  PROVE  /\ SwapEpochs(p).session = p.session
         /\ FlightTransmitted(p).session = p.session
         /\ RecvFlightCompleted(p).session = p.session
         /\ SendFlightCompleted(p).session = p.session
         /\ FreeHandshake(p).session = p.session
         /\ Fatal(p).session = p.session
         /\ \A state : Goto(p, state).session = p.session
         /\ \A m : UpdateHandshakeStatus(p, m).session = p.session
         /\ \A m : BufferMessage(p, m).session = p.session
         /\ \A m : ClientHelloParsed(p, m).session = p.session
<1>1. /\ SwapEpochs(p).session = p.session
      /\ RecvFlightCompleted(p).session = p.session
      /\ SendFlightCompleted(p).session = p.session
      /\ FreeHandshake(p).session = p.session
      /\ Fatal(p).session = p.session
  BY DEF SwapEpochs, RecvFlightCompleted, SendFlightCompleted, FreeHandshake, Fatal, Contexts
<1>2. /\ \A state : Goto(p, state).session = p.session
      /\ \A m : UpdateHandshakeStatus(p, m).session = p.session
      /\ \A m : BufferMessage(p, m).session = p.session
  BY DEF Goto, UpdateHandshakeStatus, BufferMessage, Contexts
<1>3. FlightTransmitted(p).session = p.session
  <2>1. ASSUME NEW q \in Contexts, NEW b PROVE [q EXCEPT !.timer = b].session = q.session
    BY DEF Contexts
  <2> QED
    BY <1>1, <2>1, SwapTyping DEF FlightTransmitted
<1>4. \A m : ClientHelloParsed(p, m).session = p.session
  BY DEF ClientHelloParsed, RecvFlightCompleted, Contexts
<1> QED
  BY <1>1, <1>2, <1>3, <1>4

\* Only a ServerHello tells of a session, and the server reads none.
LEMMA ServerParseStays ==
  ASSUME NEW p \in Contexts, NEW m, p.state \in Reads["server"]
  PROVE  Parse("server", p, m).session = p.session
<1>1. ASSUME NEW q, q.session = p.session, NEW type
      PROVE  Expect(p, m, type, q).session = p.session
  BY <1>1, HelpersStay DEF Expect
<1>2. CASE p.state \in FinishedStates
  <2>1. ASSUME NEW state PROVE RecvFlightCompleted(Goto(p, state)).session = p.session
    BY DEF RecvFlightCompleted, Goto, Contexts
  <2> QED
    BY <1>2, <2>1, ParseCases, HelpersStay DEF ParseFinished
<1>3. CASE p.state \in CcsStates
  <2> DEFINE q == [p EXCEPT !.in_epoch = @ + 1,
                            !.state = IF "server" = "client" THEN "SERVER_FINISHED" ELSE "CLIENT_FINISHED"]
  <2>1. q.session = p.session
    BY DEF Contexts
  <2>2. Parse("server", p, m) = ParseChangeCipherSpec("server", p, m)
    BY <1>3, ParseCases
  <2>3. ParseChangeCipherSpec("server", p, m) = Expect(p, m, "ChangeCipherSpec", q)
    BY DEF ParseChangeCipherSpec
  <2> HIDE DEF q
  <2> QED
    BY <1>1, <2>1, <2>2, <2>3
<1>4. CASE p.state \in {"CLIENT_CERTIFICATE", "CLIENT_KEY_EXCHANGE", "CERTIFICATE_VERIFY"}
  BY <1>1, <1>4, ParseCases, HelpersStay
     DEF ParseCertificate, ParseClientKeyExchange, ParseCertificateVerify
<1> QED
  BY <1>2, <1>3, <1>4 DEF Reads, CcsStates, FinishedStates

\* The session of the server is that of its context before, or the next one.
Onward == ssl'["server"].session >= ssl["server"].session

\* No step goes back to an earlier session: none that sets a context to one of the same,
LEMMA SetContextOnward ==
  ASSUME TypeOK, NEW e \in Endpoints, NEW q, SetContext(e, q),
         e = "server" => q.session >= ssl["server"].session
  PROVE  Onward
<1>1. ssl["server"].session \in Nat
  BY DEF TypeOK, Endpoints, Contexts
<1>2. ssl' = [ssl EXCEPT ![e] = q] /\ ssl \in [Endpoints -> Contexts]
  BY DEF SetContext, TypeOK
<1>3. CASE e = "server"
  BY <1>2, <1>3 DEF Onward, Endpoints
<1>4. CASE e # "server"
  BY <1>1, <1>2, <1>4 DEF Onward, Endpoints
<1> QED
  BY <1>3, <1>4

\* none that sends a flight,
LEMMA FlightTransmitOnward ==
  ASSUME TypeOK, NEW e \in Endpoints, NEW q \in Contexts, FlightTransmit(e, q),
         e = "server" => q.session = ssl["server"].session
  PROVE  Onward
<1>1. ssl["server"].session \in Nat
  BY DEF TypeOK, Endpoints, Contexts
<1>2. PICK t : ssl' = [ssl EXCEPT ![e] = t] /\ t.session = q.session
  <2>1. [q EXCEPT !.ret = "null flight"].session = q.session
    BY DEF Contexts
  <2> QED
    BY <2>1, HelpersStay DEF FlightTransmit
<1> QED
  BY <1>1, <1>2 DEF Onward, TypeOK, Endpoints

\* none that reads a message,
LEMMA HandleMessageOnward ==
  ASSUME TypeOK, NEW e \in Endpoints, NEW p \in Contexts, NEW m \in Messages,
         e = "server" => p.session = ssl["server"].session,
         p.state \in Reads[e] \cup {"HANDSHAKE_OVER"}, HandleMessage(e, p, m)
  PROVE  Onward
<1>1. ssl["server"].session \in Nat
  BY DEF TypeOK, Endpoints, Contexts
<1>2. CASE Passes(p, m) /\ SetContext(e, Parse(e, UpdateHandshakeStatus(p, m), m))
  <2>1. p.state # "HANDSHAKE_OVER"
    BY <1>2 DEF Passes, CcsStates
  <2>2. UpdateHandshakeStatus(p, m).state = p.state /\ UpdateHandshakeStatus(p, m) \in Contexts
    BY UpdateTyping DEF UpdateHandshakeStatus, Contexts
  <2>3. e = "server" => Parse(e, UpdateHandshakeStatus(p, m), m).session = p.session
    BY <2>1, <2>2, ServerParseStays, HelpersStay
  <2> QED
    BY <1>1, <1>2, <2>3, SetContextOnward
<1>3. CASE ComesEarly(p, m) /\ SetContext(e, BufferMessage(p, m))
  BY <1>1, <1>3, HelpersStay, SetContextOnward
<1>4. CASE AsksAgain(p, m) /\ FlightTransmit(e, p)
  BY <1>4, FlightTransmitOnward
<1>5. CASE SetContext(e, FreeHandshake(p))
  BY <1>1, <1>5, HelpersStay, SetContextOnward
<1> QED
  BY <1>2, <1>3, <1>4, <1>5 DEF HandleMessage

\* or a record,
LEMMA HandleRecordOnward ==
  ASSUME TypeOK, NEW e \in Endpoints, NEW p \in Contexts, NEW r \in Records,
         e = "server" => p.session = ssl["server"].session,
         p.state \in Reads[e] \cup {"HANDSHAKE_OVER"}, HandleRecord(e, p, r)
  PROVE  Onward
<1>1. ssl["server"].session \in Nat /\ r.msg \in Messages
  BY DEF TypeOK, Endpoints, Contexts, Records
<1> QED
  BY <1>1, HandleMessageOnward, HelpersStay, SetContextOnward DEF HandleRecord

\* no step that reads,
LEMMA ReadOnward ==
  ASSUME TypeOK, NEW e \in Endpoints,
         ReadKept(e) \/ ReadBufferedMessage(e) \/ ReadBufferedRecord(e) \/ ReadRecord(e)
           \/ BufferFutureRecord(e)
  PROVE  Onward
<1> DEFINE p == ssl[e]
<1>1. p \in Contexts /\ ssl["server"].session \in Nat
  BY ContextOf DEF Endpoints, Contexts
<1>2. p.state \in Reads[e] \cup {"HANDSHAKE_OVER"}
  BY DEF ReadKept, ReadBufferedMessage, ReadBufferedRecord, ReadRecord, BufferFutureRecord, Waiting,
         Over
<1>3. CASE ReadKept(e)
  <2> DEFINE q == [p EXCEPT !.keep_current_message = <<>>]
  <2>1. q \in Contexts /\ q.session = p.session /\ q.state = p.state
    BY <1>1, Empties DEF Contexts
  <2>2. p.state \in Reads[e] /\ SetContext(e, Parse(e, q, Head(p.keep_current_message)))
    BY <1>3 DEF ReadKept, Waiting
  <2> HIDE DEF q
  <2>3. e = "server" => Parse(e, q, Head(p.keep_current_message)).session = p.session
    BY <2>1, <2>2, ServerParseStays
  <2> QED
    BY <1>1, <2>2, <2>3, SetContextOnward
<1>4. CASE ReadBufferedMessage(e)
  <2>1. PICK m \in BufferedMessages(p) : HandleMessage(e, [p EXCEPT !.seen_ccs = @ /\ IsHandshake(m)], m)
    BY <1>4 DEF ReadBufferedMessage
  <2>2. m \in Messages
    BY ContextOf, PlainMessages DEF BufferedMessages
  <2>3. (p.seen_ccs /\ IsHandshake(m)) \in BOOLEAN
    BY <1>1, Zenon DEF Contexts
  <2>4. ASSUME NEW b \in BOOLEAN
        PROVE  /\ [p EXCEPT !.seen_ccs = b] \in Contexts /\ [p EXCEPT !.seen_ccs = b].state = p.state
               /\ [p EXCEPT !.seen_ccs = b].session = p.session
    BY <1>1 DEF Contexts
  <2> QED
    BY <1>2, <2>1, <2>2, <2>3, <2>4, HandleMessageOnward
<1>5. CASE ReadBufferedRecord(e)
  <2>1. PICK r \in BufferedRecords(p) : HandleRecord(e, [p EXCEPT !.future_record = {}], r)
    BY <1>5 DEF ReadBufferedRecord
  <2>2. r \in Records
    BY ContextOf DEF BufferedRecords
  <2>3. /\ [p EXCEPT !.future_record = {}] \in Contexts
        /\ [p EXCEPT !.future_record = {}].state = p.state
        /\ [p EXCEPT !.future_record = {}].session = p.session
    BY <1>1 DEF Contexts
  <2> QED
    BY <1>2, <2>1, <2>2, <2>3, HandleRecordOnward
<1>6. CASE ReadRecord(e)
  BY <1>1, <1>2, <1>6, HandleRecordOnward DEF ReadRecord, TypeOK
<1>7. CASE BufferFutureRecord(e)
  <2>1. PICK r \in net : SetContext(e, [p EXCEPT !.future_record = {r}])
    BY <1>7 DEF BufferFutureRecord
  <2>2. [p EXCEPT !.future_record = {r}].session = p.session
    BY <1>1 DEF Contexts
  <2>3. e = "server" => [p EXCEPT !.future_record = {r}].session >= ssl["server"].session
    BY <1>1, <2>2
  <2> QED
    BY <2>1, <2>3, SetContextOnward
<1> QED
  BY <1>3, <1>4, <1>5, <1>6, <1>7

\* none that writes a flight,
LEMMA WriteFlightOnward ==
  ASSUME TypeOK, NEW e \in Endpoints, NEW q \in Contexts, NEW state \in States,
         WriteFlight(e, q, state), e = "server" => q.session = ssl["server"].session
  PROVE  Onward
<1> DEFINE w == SendFlightCompleted(q)
           v == [w EXCEPT !.state = state]
<1>1. w \in Contexts /\ w.session = q.session
  BY SendFlightCompletedTyping, HelpersStay
<1>2. FlightTransmit(e, v)
  BY DEF WriteFlight
<1> HIDE DEF w
<1>3. v \in Contexts /\ v.session = q.session
  BY <1>1 DEF Contexts
<1> QED
  BY <1>2, <1>3, FlightTransmitOnward

\* no step that writes,
LEMMA WriteOnward ==
  ASSUME TypeOK, NEW e \in Endpoints,
         WriteFinished(e) \/ Wrapup(e) \/ WriteClientHello \/ WriteClientKeyExchange
           \/ WriteHelloVerifyRequest \/ WriteServerHello \/ Write(e)
  PROVE  Onward
<1>1. {"client", "server"} \subseteq Endpoints
  BY DEF Endpoints
<1>2. /\ \A f \in Endpoints : ssl[f] \in Contexts
      /\ ssl["server"].session \in Nat
  <2>1. \A f \in Endpoints : ssl[f] \in Contexts
    BY ContextOf
  <2>2. ssl["server"].session \in Nat
    BY <1>1, <2>1 DEF Contexts
  <2> QED
    BY <2>1, <2>2
<1> USE DEF States, Types
<1>3. ASSUME NEW p \in Contexts, NEW type \in Types
      PROVE  WriteMessage(p, type) \in Contexts /\ WriteMessage(p, type).session = p.session
  <2>1. WriteMessage(p, type) \in Contexts
    BY WriteMessageTyping
  <2> QED
    BY ZenonT(40), <2>1 DEF WriteMessage, Contexts
<1>4. ASSUME NEW p \in Contexts, NEW type \in Types, NEW b
      PROVE  WriteWhen(b, p, type) \in Contexts /\ WriteWhen(b, p, type).session = p.session
  BY <1>3 DEF WriteWhen
<1>5. ASSUME NEW p \in Contexts
      PROVE  WriteClosing(p) \in Contexts /\ WriteClosing(p).session = p.session
  BY <1>3 DEF WriteClosing
<1>6. CASE WriteFinished(e)
  BY <1>2, <1>4, <1>5, <1>6, WriteFlightOnward DEF WriteFinished
<1>7. CASE Wrapup(e)
  <2>1. /\ Goto(ssl[e], "HANDSHAKE_OVER") \in Contexts
        /\ Goto(ssl[e], "HANDSHAKE_OVER").session = ssl[e].session
    BY <1>2, GotoTyping, HelpersStay
  <2>2. ASSUME NEW p \in Contexts PROVE [p EXCEPT !.timer = FALSE].session = p.session
    BY DEF Contexts
  <2> DEFINE g == Goto(ssl[e], "HANDSHAKE_OVER")
             h == IF g.flight # <<>> THEN [g EXCEPT !.timer = FALSE] ELSE FreeHandshake(g)
  <2>3. h.session = ssl[e].session /\ SetContext(e, h)
    <3>1. SetContext(e, h)
      BY <1>7 DEF Wrapup
    <3> HIDE DEF g
    <3> QED
      BY <2>1, <2>2, <3>1, HelpersStay DEF g
  <2> HIDE DEF h
  <2>4. e = "server" => h.session >= ssl["server"].session
    BY <1>2, <2>3
  <2> QED
    BY <2>3, <2>4, SetContextOnward
<1>8. CASE WriteClientHello
  BY <1>1, <1>2, <1>3, <1>8, WriteFlightOnward DEF WriteClientHello
<1>9. CASE WriteClientKeyExchange
  BY <1>1, <1>2, <1>3, <1>4, <1>5, <1>9, WriteFlightOnward DEF WriteClientKeyExchange
<1>10. CASE WriteHelloVerifyRequest
  <2>1. WriteMessage(ssl["server"], "HelloVerifyRequest").session = ssl["server"].session
    BY <1>1, <1>2, <1>3
  <2>2. ASSUME NEW n PROVE Reset(n).session = n
    BY DEF Reset
  <2> QED
    BY <1>1, <1>2, <1>10, <2>1, <2>2 DEF WriteHelloVerifyRequest, TypeOK, Onward
<1>11. CASE WriteServerHello
  BY <1>1, <1>2, <1>3, <1>4, <1>5, <1>11, WriteFlightOnward DEF WriteServerHello
<1>12. CASE Write(e)
  BY <1>2, <1>12 DEF Write, Onward
<1> QED
  BY <1>6, <1>7, <1>8, <1>9, <1>10, <1>11, <1>12

\* no timeout,
LEMMA TimeOnward ==
  ASSUME TypeOK, NEW e \in Endpoints, TimeIsOver(e)
  PROVE  Onward
<1> DEFINE p == ssl[e]
           doubled == IF conf.patient THEN p.retransmit_timeout ELSE p.retransmit_timeout + 1
<1>1. p \in Contexts /\ ssl["server"].session \in Nat
  BY ContextOf DEF Endpoints, Contexts
<1>2. doubled \in Nat
  <2>1. p.retransmit_timeout \in Nat /\ p.retransmit_timeout + 1 \in Nat
    BY <1>1 DEF Contexts
  <2> QED
    BY <2>1
<1>3. [p EXCEPT !.timer = FALSE, !.ret = "timeout"].session = p.session
  BY <1>1 DEF Contexts
<1>4. ASSUME NEW n \in Nat
      PROVE  /\ [p EXCEPT !.retransmit_timeout = n] \in Contexts
             /\ [p EXCEPT !.retransmit_timeout = n].session = p.session
  BY <1>1 DEF Contexts
<1>5. IF doubled > MaxTimeout
      THEN SetContext(e, [p EXCEPT !.timer = FALSE, !.ret = "timeout"])
      ELSE FlightTransmit(e, [p EXCEPT !.retransmit_timeout = doubled])
  BY DEF TimeIsOver
<1> HIDE DEF doubled
<1>6. CASE doubled > MaxTimeout
  <2> DEFINE q == [p EXCEPT !.timer = FALSE, !.ret = "timeout"]
  <2>1. SetContext(e, q) /\ (e = "server" => q.session >= ssl["server"].session)
    BY <1>1, <1>3, <1>5, <1>6
  <2> HIDE DEF q
  <2> QED
    BY <2>1, SetContextOnward
<1>7. CASE ~(doubled > MaxTimeout)
  BY <1>2, <1>4, <1>5, <1>7, FlightTransmitOnward
<1> QED
  BY <1>6, <1>7

\* and no ClientHello.
LEMMA HelloOnward ==
  ASSUME TypeOK, (\E cookie \in BOOLEAN : ParseClientHello(cookie)) \/ Reconnect
  PROVE  Onward
<1> DEFINE p == ssl["server"]
<1>1. "server" \in Endpoints /\ p \in Contexts /\ p.session \in Nat
  BY ContextOf DEF Endpoints, Contexts
<1>2. CASE \E cookie \in BOOLEAN : ParseClientHello(cookie)
  BY <1>1, <1>2, HelpersStay, SetContextOnward DEF ParseClientHello
<1>3. CASE Reconnect
  <2>1. PICK r \in net :
          \/ SetContext("server", ClientHelloParsed(Reset(p.session + 1), r.msg))
          \/ UNCHANGED ssl
    BY <1>3 DEF Reconnect
  <2>2. p.session + 1 \in Nat /\ p.session + 1 >= p.session
    BY <1>1
  <2>3. ClientHelloParsed(Reset(p.session + 1), r.msg).session = p.session + 1
    BY <2>2, ResetTyping, HelpersStay DEF Reset
  <2> QED
    BY <1>1, <2>1, <2>2, <2>3, SetContextOnward DEF Onward
<1> QED
  BY <1>2, <1>3

\* So no step takes the server back to an earlier session.
LEMMA NextOnward ==
  ASSUME TypeOK, [Next]_vars PROVE Onward
<1>1. ssl["server"].session \in Nat
  BY DEF TypeOK, Endpoints, Contexts
<1>2. ASSUME NEW e \in Endpoints, Local(e) \/ Receive(e) \/ Write(e) PROVE Onward
  BY <1>2, ReadOnward, WriteOnward DEF Local, Receive
<1>3. ASSUME NEW e \in Endpoints, TimerExpires(e) \/ ReceivesNothing(e) PROVE Onward
  BY <1>3, TimeOnward DEF TimerExpires, ReceivesNothing
<1>4. CASE (\E cookie \in BOOLEAN : ParseClientHello(cookie)) \/ Reconnect
  BY <1>4, HelloOnward
<1>5. CASE Lose \/ UNCHANGED vars
  BY <1>1, <1>5 DEF Lose, vars, Onward
<1> QED
  BY <1>2, <1>3, <1>4, <1>5 DEF Next

-----------------------------------------------------------------------------
HandshakeInv == TypeOK /\ ssl["server"].session >= 1 /\ (OneSession => FirstSession)

\* At first both sides are at their first place.
LEMMA HandshakeInit == Init => HandshakeInv
<1> SUFFICES ASSUME Init PROVE HandshakeInv
  OBVIOUS
<1>1. TypeOK /\ conf \in Confs
  BY InitTypes DEF Init
<1>2. ssl["client"] = Reset(0) /\ ssl["server"] = Reset(1) /\ net = {}
  BY DEF Init, Endpoints
<1>3. \A e \in Endpoints : EndpointInv(conf, e, ssl[e])
  BY <1>1, <1>2, ResetKeeps DEF Endpoints
<1>4. EarlyInv /\ ssl["server"].session >= 1
  BY <1>2 DEF EarlyInv, Reset, Hello, Endpoints
<1> QED
  BY <1>1, <1>2, <1>3, <1>4 DEF HandshakeInv, FirstSession

\* Every step within the first session keeps its invariant.
LEMMA FirstSessionNext ==
  ASSUME TypeOK, FirstSession, Next, OneSession, OneSession'
  PROVE  FirstSession'
<1>1. ASSUME NEW e \in Endpoints,
             \/ ReadKept(e) \/ ReadBufferedMessage(e) \/ ReadBufferedRecord(e) \/ ReadRecord(e)
             \/ BufferFutureRecord(e)
      PROVE  FirstSession'
  BY <1>1, ReadKeeps
<1>2. ASSUME NEW e \in Endpoints, WriteFinished(e) PROVE FirstSession'
  BY <1>2, WriteFinishedKeeps
<1>3. ASSUME NEW e \in Endpoints, Wrapup(e) PROVE FirstSession'
  BY <1>3, WrapupKeeps
<1>4. CASE WriteClientHello \/ WriteClientKeyExchange
  BY <1>4, WriteClientHelloKeeps, WriteClientKeyExchangeKeeps
<1>5. CASE WriteHelloVerifyRequest \/ WriteServerHello
  BY <1>5, WriteHelloVerifyRequestKeeps, WriteServerHelloKeeps
<1>6. ASSUME NEW e \in Endpoints, Write(e) PROVE FirstSession'
  BY <1>6, WriteKeeps
<1>7. ASSUME NEW e \in Endpoints, TimerExpires(e) \/ ReceivesNothing(e) PROVE FirstSession'
  BY <1>7, TimeKeeps DEF TimerExpires, ReceivesNothing
<1>8. ASSUME NEW cookie \in BOOLEAN, ParseClientHello(cookie) PROVE FirstSession'
  BY <1>8, ParseClientHelloKeeps
<1>9. CASE Reconnect
  BY <1>9, ReconnectKeeps
<1>10. CASE Lose
  BY <1>10 DEF Lose, FirstSession, EarlyInv
<1> QED
  BY <1>1, <1>2, <1>3, <1>4, <1>5, <1>6, <1>7, <1>8, <1>9, <1>10 DEF Next, Local, Receive

\* Every step keeps the invariant.
LEMMA HandshakeNext == HandshakeInv /\ [Next]_vars => HandshakeInv'
<1> SUFFICES ASSUME HandshakeInv, [Next]_vars PROVE HandshakeInv'
  OBVIOUS
<1>1. TypeOK' /\ Onward
  BY NextTypes, NextOnward DEF HandshakeInv
<1>2. ssl["server"].session \in Nat /\ ssl'["server"].session \in Nat
  BY <1>1 DEF HandshakeInv, TypeOK, Endpoints, Contexts
<1>3. ssl'["server"].session >= 1 /\ (OneSession' => OneSession)
  BY <1>1, <1>2 DEF HandshakeInv, Onward, OneSession
<1>4. ASSUME OneSession' PROVE FirstSession'
  <2>1. CASE Next
    BY <1>3, <1>4, <2>1, FirstSessionNext DEF HandshakeInv
  <2>2. CASE UNCHANGED vars
    BY <1>3, <1>4, <2>2 DEF HandshakeInv, vars, FirstSession, EarlyInv
  <2> QED
    BY <2>1, <2>2
<1> QED
  BY <1>1, <1>3, <1>4 DEF HandshakeInv

\* In the first session neither side ever fails, whatever the network loses, repeats
\* and reorders (NeverFails).
THEOREM HandshakeNeverFails == Spec => []NeverFails
<1>1. HandshakeInv => NeverFails
  BY DEF HandshakeInv, FirstSession, EndpointInv, NeverFails
<1> QED
  BY <1>1, HandshakeInit, HandshakeNext, PTL DEF Spec

--------------------------------------------------------------------------------
(* One handshake: who is at the end has been answered from there.          *)

\* The states after the other side's Finished.
Passed(e) ==
  Closed \cup {IF e = "client" THEN "CLIENT_CHANGE_CIPHER_SPEC" ELSE "SERVER_CHANGE_CIPHER_SPEC"}

\* A side that has not written Finished is one whose Finished nobody holds.
Answered ==
  \A e \in Endpoints :
    LET q == ssl[Peer(e)] IN
    ssl[e].out_epoch = 0 =>
      /\ \A r \in net : r.from = e => r.msg.type # "Finished"
      /\ \A m \in q.hs : m.type # "Finished"
      /\ \A r \in q.future_record : r.msg.type # "Finished"
      /\ q.state \notin Passed(Peer(e))

\* No Finished for a server in another session than the first.
Foreign(r) == IF r.epoch = 0 THEN r.msg.type # "Finished" ELSE r.key = 1

\* In a later session the client has been through the first one, and the server
\* gets no Finished.
Late ==
  LET c == ssl["client"]
      s == ssl["server"]
  IN /\ ClientHasFinished(conf, c.state) /\ c.session = 1 /\ c.out_epoch = 1 /\ c.alt_epoch = 0
     /\ c.flight = <<>> \/ HasFinished(c)
     /\ s.state \notin Passed("server") /\ s.keep_current_message = <<>>
     /\ \A m \in s.hs : m.type # "Finished"
     /\ \A r \in s.future_record : Foreign(r)
     /\ \A r \in net : r.from = "client" => Foreign(r)

OneInv == IF OneSession THEN Answered ELSE Late

\* Two contexts that differ neither in what they wait for nor in what they hold.
Holds(p, q) ==
  /\ q.state = p.state /\ q.session = p.session /\ q.hs = p.hs
  /\ q.future_record = p.future_record /\ q.keep_current_message = p.keep_current_message

\* Either side is the other's peer.
LEMMA Others == \A e \in Endpoints : Peer(e) \in Endpoints /\ Peer(e) # e /\ Peer(Peer(e)) = e
                                    /\ \A f \in Endpoints : f # e => f = Peer(e)
BY DEF Endpoints, Peer

\* One context steps to q and sends what its flight holds, or no Finished.
LEMMA AnsweredKept ==
  ASSUME TypeOK, FirstSession, FirstSession', Answered,
         NEW e \in Endpoints, NEW q, ssl' = [ssl EXCEPT ![e] = q],
         \A r \in net' : \/ r \in net
                         \/ r.from = e /\ (r.msg \in ToSet(q.flight) \/ r.msg.type # "Finished"),
         q.out_epoch = 0 => ssl[e].out_epoch = 0,
         ssl[Peer(e)].out_epoch = 0 =>
           /\ \A m \in q.hs : m.type # "Finished"
           /\ \A r \in q.future_record : r.msg.type # "Finished"
           /\ q.state \notin Passed(e)
  PROVE  Answered'
<1> DEFINE f == Peer(e)
<1>1. /\ f \in Endpoints /\ f # e /\ Peer(f) = e /\ \A g \in Endpoints : g = e \/ g = f
  BY Others
<1>2. ssl'[e] = q /\ ssl'[f] = ssl[f]
  BY <1>1 DEF TypeOK
<1>3. \A r \in net' : r \in net \/ (r.from = e /\ (r.msg.type = "Finished" => q.out_epoch = 1))
  <2> SUFFICES ASSUME NEW r \in net', r \notin net, r.msg.type = "Finished"
               PROVE  r.from = e /\ q.out_epoch = 1
    OBVIOUS
  <2>1. r.from = e /\ r.msg \in ToSet(q.flight)
    OBVIOUS
  <2>2. HasFinished(q)
    BY <2>1 DEF ToSet, HasFinished
  <2>3. HasFinished(ssl'[e]) => ssl'[e].out_epoch = 1
    BY DEF FirstSession, EndpointInv, FlightInv
  <2> QED
    BY <1>2, <2>1, <2>2, <2>3
<1>4. ASSUME ssl'[e].out_epoch = 0
      PROVE  /\ \A r \in net' : r.from = e => r.msg.type # "Finished"
             /\ \A m \in ssl'[f].hs : m.type # "Finished"
             /\ \A r \in ssl'[f].future_record : r.msg.type # "Finished"
             /\ ssl'[f].state \notin Passed(f)
  <2>1. ssl[e].out_epoch = 0
    BY <1>2, <1>4
  <2> QED
    BY <1>1, <1>2, <1>3, <1>4, <2>1 DEF Answered
<1>5. ASSUME ssl'[f].out_epoch = 0
      PROVE  /\ \A r \in net' : r.from = f => r.msg.type # "Finished"
             /\ \A m \in ssl'[e].hs : m.type # "Finished"
             /\ \A r \in ssl'[e].future_record : r.msg.type # "Finished"
             /\ ssl'[e].state \notin Passed(e)
  <2>1. ssl[f].out_epoch = 0
    BY <1>2, <1>5
  <2>2. \A r \in net : r.from = f => r.msg.type # "Finished"
    BY <1>1, <2>1 DEF Answered
  <2> QED
    BY <1>1, <1>2, <1>3, <2>1, <2>2
<1> HIDE DEF f
<1> QED
  BY <1>1, <1>4, <1>5 DEF Answered

\* The context after a flight is sent, and what is sent.
Transmitted(e, p, q) ==
  /\ ssl' = [ssl EXCEPT ![e] = q] /\ conf' = conf /\ Holds(p, q) /\ q.flight = p.flight
  /\ p.flight = <<>> \/ HasFinished(p) => q.out_epoch = p.out_epoch /\ q.alt_epoch = p.alt_epoch
  /\ q.out_epoch \in {p.out_epoch, p.alt_epoch}
  /\ \A r \in net' :
       r \in net \/ (r.from = e /\ r.msg \in ToSet(q.flight) /\ r \in FlightRecords(e, p))

\* A flight is sent, or is missing.
LEMMA TransmitEffect ==
  ASSUME TypeOK, NEW e \in Endpoints, NEW p \in Contexts, FlightTransmit(e, p)
  PROVE  \E q \in Contexts : Transmitted(e, p, q)
<1>1. CASE p.flight = <<>>
  <2> DEFINE q == [p EXCEPT !.ret = "null flight"]
  <2>1. /\ q \in Contexts /\ Holds(p, q) /\ q.flight = p.flight
        /\ q.out_epoch = p.out_epoch /\ q.alt_epoch = p.alt_epoch
    BY DEF Contexts, Returns, Holds
  <2>2. ssl' = [ssl EXCEPT ![e] = q] /\ conf' = conf /\ net' = net
    BY <1>1 DEF FlightTransmit
  <2> HIDE DEF q
  <2>3. q.out_epoch \in {p.out_epoch, p.alt_epoch}
    BY <2>1
  <2>4. \A r \in net' : r \in net
    BY <2>2
  <2>5. q \in Contexts
    BY <2>1
  <2>6. Transmitted(e, p, q)
    BY <2>1, <2>2, <2>3, <2>4 DEF Transmitted
  <2> QED
    BY <2>5, <2>6
<1>2. CASE p.flight # <<>>
  <2> DEFINE q == FlightTransmitted(p)
             w == IF HasFinished(p) THEN p ELSE SwapEpochs(p)
  <2>1. ssl' = [ssl EXCEPT ![e] = q] /\ conf' = conf /\ net' = net \cup FlightRecords(e, p)
    BY <1>2 DEF FlightTransmit
  <2>2. q \in Contexts
    BY FlightTransmittedTyping
  <2>3. /\ w \in Contexts /\ Holds(p, w) /\ w.flight = p.flight
        /\ HasFinished(p) => w.out_epoch = p.out_epoch /\ w.alt_epoch = p.alt_epoch
        /\ w.out_epoch \in {p.out_epoch, p.alt_epoch}
    BY SwapTyping DEF SwapEpochs, Holds, Contexts
  <2>4. PICK b : q = [w EXCEPT !.timer = b]
    BY DEF FlightTransmitted
  <2> HIDE DEF q, w
  <2>5. /\ Holds(w, q) /\ q.flight = w.flight /\ q.out_epoch = w.out_epoch
        /\ q.alt_epoch = w.alt_epoch
    BY <2>3, <2>4 DEF Contexts, Holds
  <2>6. Holds(p, q)
    BY <2>3, <2>5 DEF Holds
  <2>7. \A r \in FlightRecords(e, p) : r.from = e /\ r.msg \in ToSet(p.flight)
    BY DEF FlightRecords, Record
  <2>8. \A r \in net' :
          r \in net \/ (r.from = e /\ r.msg \in ToSet(q.flight) /\ r \in FlightRecords(e, p))
    <3>1. ToSet(q.flight) = ToSet(p.flight)
      BY <2>3, <2>5
    <3>2. \A r \in net' : r \in net \/ r \in FlightRecords(e, p)
      BY <2>1
    <3> QED
      BY <2>7, <3>1, <3>2
  <2>9. /\ q.flight = p.flight /\ q.out_epoch \in {p.out_epoch, p.alt_epoch}
        /\ p.flight = <<>> \/ HasFinished(p) =>
             q.out_epoch = p.out_epoch /\ q.alt_epoch = p.alt_epoch
    BY <1>2, <2>3, <2>5
  <2>10. Transmitted(e, p, q)
    BY <2>1, <2>6, <2>8, <2>9 DEF Transmitted
  <2> QED
    BY <2>2, <2>10
<1> QED
  BY <1>1, <1>2

\* What writing leaves alone: what a context waits for and holds.
LEMMA WritingHolds ==
  ASSUME NEW p \in Contexts
  PROVE  /\ \A type \in Types : WriteMessage(p, type) \in Contexts /\ Holds(p, WriteMessage(p, type))
         /\ \A b : \A type \in Types : /\ WriteWhen(b, p, type) \in Contexts
                                     /\ Holds(p, WriteWhen(b, p, type))
         /\ WriteClosing(p) \in Contexts /\ Holds(p, WriteClosing(p))
<1>1. ASSUME NEW w \in Contexts, NEW type \in Types
      PROVE  WriteMessage(w, type) \in Contexts /\ Holds(w, WriteMessage(w, type))
  <2>1. WriteMessage(w, type) \in Contexts
    BY WriteMessageTyping
  <2>2. CASE type = "ChangeCipherSpec"
    <3> DEFINE q == [w EXCEPT !.flight = Append(@, ChangeCipherSpec)]
    <3>1. Holds(w, q)
      BY DEF Contexts, Holds
    <3>2. WriteMessage(w, type) = q
      BY <2>2 DEF WriteMessage
    <3> HIDE DEF q
    <3> QED
      BY <2>1, <3>1, <3>2
  <2>3. CASE type # "ChangeCipherSpec"
    <3> DEFINE m == Message(type, w.out_msg_seq, w.session, type = "ClientHello" /\ w.cookie,
                            IF type = "Finished" THEN w.checksum ELSE <<>>)
               q == [w EXCEPT !.flight = Append(@, m), !.out_msg_seq = @ + 1,
                              !.checksum = Append(@, Digest(m))]
               v == [q EXCEPT !.alt_epoch = w.out_epoch, !.out_epoch = w.out_epoch + 1]
    <3>1. WriteMessage(w, type) = IF type = "Finished" THEN v ELSE q
      BY <2>3 DEF WriteMessage
    <3> HIDE DEF m
    <3>2. Holds(w, q) /\ Holds(w, v)
      BY DEF Contexts, Holds
    <3> HIDE DEF q, v
    <3> QED
      BY <2>1, <3>1, <3>2
  <2> QED
    BY <2>1, <2>2, <2>3
<1>2. ASSUME NEW b, NEW type \in Types
      PROVE  WriteWhen(b, p, type) \in Contexts /\ Holds(p, WriteWhen(b, p, type))
  BY <1>1 DEF WriteWhen, Holds
<1>3. WriteClosing(p) \in Contexts /\ Holds(p, WriteClosing(p))
  <2> DEFINE w == WriteMessage(p, "ChangeCipherSpec")
             q == WriteMessage(w, "Finished")
  <2>1. {"ChangeCipherSpec", "Finished"} \subseteq Types
    BY DEF Types
  <2>2. w \in Contexts /\ Holds(p, w)
    BY <1>1, <2>1
  <2> HIDE DEF w
  <2>3. q \in Contexts /\ Holds(w, q)
    BY <1>1, <2>1, <2>2
  <2> HIDE DEF q
  <2>4. Holds(p, q)
    BY <2>2, <2>3 DEF Holds
  <2> QED
    BY <2>3, <2>4 DEF WriteClosing, q, w
<1> QED
  BY <1>1, <1>2, <1>3

\* A flight is written and sent, and the next state is state.
Writes(e, q, state) ==
  /\ q \in Contexts /\ ssl' = [ssl EXCEPT ![e] = q] /\ conf' = conf
  /\ q.state = state /\ q.session = ssl[e].session
  /\ q.hs = ssl[e].hs /\ q.future_record = ssl[e].future_record
  /\ q.keep_current_message = ssl[e].keep_current_message
  /\ \A r \in net' : r \in net \/ (r.from = e /\ r.msg \in ToSet(q.flight))

\* The end of a step that writes.
LEMMA WriteFlightEffect ==
  ASSUME TypeOK, NEW e \in Endpoints, NEW w \in Contexts, Holds(ssl[e], w), NEW state \in States,
         WriteFlight(e, w, state)
  PROVE  \E q : Writes(e, q, state)
<1> DEFINE u == SendFlightCompleted(w)
           v == [u EXCEPT !.state = state]
<1>1. FlightTransmit(e, v)
  BY DEF WriteFlight
<1>2. /\ u \in Contexts /\ u.session = w.session /\ u.hs = w.hs
      /\ u.future_record = w.future_record /\ u.keep_current_message = w.keep_current_message
  BY SendFlightCompletedTyping DEF SendFlightCompleted, Contexts
<1> HIDE DEF u
<1>3. /\ v \in Contexts /\ v.state = state /\ v.session = u.session /\ v.hs = u.hs
      /\ v.future_record = u.future_record /\ v.keep_current_message = u.keep_current_message
  BY <1>2 DEF Contexts
<1> HIDE DEF v
<1>4. PICK q \in Contexts : Transmitted(e, v, q)
  BY <1>1, <1>3, TransmitEffect
<1>5. Writes(e, q, state)
  BY <1>2, <1>3, <1>4 DEF Writes, Transmitted, Holds
<1> QED
  BY <1>5

\* The states that write.
Writing(e) == IF e = "client" THEN {"CLIENT_HELLO", "CLIENT_CERTIFICATE", "CLIENT_CHANGE_CIPHER_SPEC"}
              ELSE {"SERVER_HELLO", "SERVER_CHANGE_CIPHER_SPEC"}

\* No step that writes leads past the other side's Finished.
LEMMA WriteEffect ==
  ASSUME TypeOK, NEW e \in Endpoints,
         \/ WriteFinished(e)
         \/ e = "client" /\ (WriteClientHello \/ WriteClientKeyExchange)
         \/ e = "server" /\ WriteServerHello
  PROVE  \E q, state : /\ Writes(e, q, state) /\ ssl[e].state \in Writing(e)
                       /\ state \in Passed(e) => ssl[e].state \in Passed(e)
<1> DEFINE p == ssl[e]
<1>1. p \in Contexts /\ Holds(p, p)
  BY ContextOf DEF Holds
<1>2. ASSUME NEW v, NEW w, Holds(p, v), Holds(v, w) PROVE Holds(p, w)
  BY <1>2 DEF Holds
<1>3. /\ {"ClientHello", "Certificate", "ClientKeyExchange", "CertificateVerify", "ServerHello",
          "CertificateRequest", "ServerHelloDone", "NewSessionTicket"} \subseteq Types
      /\ {"HANDSHAKE_WRAPUP", "SERVER_HELLO", "NEW_SESSION_TICKET", "SERVER_CHANGE_CIPHER_SPEC",
          "CLIENT_CHANGE_CIPHER_SPEC", "CLIENT_CERTIFICATE", "CLIENT_KEY_EXCHANGE"} \subseteq States
  BY DEF Types, States
<1>4. CASE WriteFinished(e)
  <2> DEFINE v == WriteWhen(e = "server" /\ conf.ticket, p, "NewSessionTicket")
             w == WriteClosing(v)
  <2>1. /\ p.state = IF e = "client" THEN "CLIENT_CHANGE_CIPHER_SPEC" ELSE "SERVER_CHANGE_CIPHER_SPEC"
        /\ WriteFlight(e, w, "HANDSHAKE_WRAPUP")
    BY <1>4 DEF WriteFinished, At
  <2>2. v \in Contexts /\ Holds(p, v)
    BY <1>1, <1>3, WritingHolds
  <2> HIDE DEF v
  <2>3. w \in Contexts /\ Holds(v, w)
    BY <2>2, WritingHolds
  <2> HIDE DEF w
  <2>4. PICK q : Writes(e, q, "HANDSHAKE_WRAPUP")
    BY <1>2, <1>3, <2>1, <2>2, <2>3, WriteFlightEffect
  <2>5. p.state \in Writing(e) /\ p.state \in Passed(e)
    BY <2>1 DEF Writing, Passed, Endpoints
  <2> QED
    BY <2>4, <2>5
<1>5. CASE e = "client" /\ WriteClientHello
  <2> DEFINE w == WriteMessage(p, "ClientHello")
  <2>1. p.state = "CLIENT_HELLO" /\ WriteFlight(e, w, "SERVER_HELLO")
    BY <1>5 DEF WriteClientHello, At
  <2>2. w \in Contexts /\ Holds(p, w)
    BY <1>1, <1>3, WritingHolds
  <2> HIDE DEF w
  <2>3. PICK q : Writes(e, q, "SERVER_HELLO")
    BY <1>3, <2>1, <2>2, WriteFlightEffect
  <2>4. p.state \in Writing(e) /\ "SERVER_HELLO" \notin Passed(e)
    BY <1>5, <2>1 DEF Writing, Passed, Closed
  <2> QED
    BY <2>3, <2>4
<1>6. CASE e = "client" /\ WriteClientKeyExchange
  <2> DEFINE u == WriteWhen(p.client_auth, p, "Certificate")
             v == WriteMessage(u, "ClientKeyExchange")
             w == WriteWhen(p.client_auth, v, "CertificateVerify")
             x == WriteClosing(w)
             state == IF p.new_session_ticket THEN "NEW_SESSION_TICKET" ELSE "SERVER_CHANGE_CIPHER_SPEC"
  <2>1. p.state = "CLIENT_CERTIFICATE" /\ WriteFlight(e, x, state)
    BY <1>6 DEF WriteClientKeyExchange, At
  <2>2. u \in Contexts /\ Holds(p, u)
    BY <1>1, <1>3, WritingHolds
  <2> HIDE DEF u
  <2>3. v \in Contexts /\ Holds(u, v)
    BY <1>3, <2>2, WritingHolds
  <2> HIDE DEF v
  <2>4. w \in Contexts /\ Holds(v, w)
    BY <1>3, <2>3, WritingHolds
  <2> HIDE DEF w
  <2>5. x \in Contexts /\ Holds(w, x)
    BY <2>4, WritingHolds
  <2> HIDE DEF x
  <2>6. Holds(p, x)
    BY <1>2, <2>2, <2>3, <2>4, <2>5
  <2>7. state \in States /\ state \notin Passed(e)
    BY <1>3, <1>6 DEF Passed, Closed
  <2> HIDE DEF state
  <2>8. PICK q : Writes(e, q, state)
    BY <2>1, <2>5, <2>6, <2>7, WriteFlightEffect
  <2>9. p.state \in Writing(e)
    BY <1>6, <2>1 DEF Writing
  <2> QED
    BY <2>7, <2>8, <2>9
<1>7. CASE e = "server" /\ WriteServerHello
  <2> DEFINE u == WriteMessage(p, "ServerHello")
             v == WriteWhen(conf.ticket, u, "NewSessionTicket")
             w == WriteClosing(v)
             x == WriteMessage(u, "Certificate")
             y == WriteWhen(conf.auth, x, "CertificateRequest")
             z == WriteMessage(y, "ServerHelloDone")
             state == IF conf.auth THEN "CLIENT_CERTIFICATE" ELSE "CLIENT_KEY_EXCHANGE"
  <2>1. /\ p.state = "SERVER_HELLO"
        /\ IF conf.resume THEN WriteFlight(e, w, "CLIENT_CHANGE_CIPHER_SPEC")
           ELSE WriteFlight(e, z, state)
    BY <1>7 DEF WriteServerHello, At
  <2>2. u \in Contexts /\ Holds(p, u)
    BY <1>1, <1>3, WritingHolds
  <2> HIDE DEF u
  <2>3. v \in Contexts /\ Holds(u, v)
    BY <1>3, <2>2, WritingHolds
  <2> HIDE DEF v
  <2>4. w \in Contexts /\ Holds(v, w)
    BY <2>3, WritingHolds
  <2> HIDE DEF w
  <2>5. x \in Contexts /\ Holds(u, x)
    BY <1>3, <2>2, WritingHolds
  <2> HIDE DEF x
  <2>6. y \in Contexts /\ Holds(x, y)
    BY <1>3, <2>5, WritingHolds
  <2> HIDE DEF y
  <2>7. z \in Contexts /\ Holds(y, z)
    BY <1>3, <2>6, WritingHolds
  <2> HIDE DEF z
  <2>8. Holds(p, w) /\ Holds(p, z)
    BY <1>2, <2>2, <2>3, <2>4, <2>5, <2>6, <2>7
  <2>9. state \in States /\ state \notin Passed(e) /\ "CLIENT_CHANGE_CIPHER_SPEC" \notin Passed(e)
    BY <1>3, <1>7 DEF Passed, Closed
  <2> HIDE DEF state
  <2>10. PICK q, t : Writes(e, q, t) /\ t \notin Passed(e)
    BY <1>3, <2>1, <2>4, <2>7, <2>8, <2>9, WriteFlightEffect
  <2>11. p.state \in Writing(e)
    BY <1>7, <2>1 DEF Writing
  <2> QED
    BY <2>10, <2>11
<1> QED
  BY <1>4, <1>5, <1>6, <1>7

--------------------------------------------------------------------------------
(* Steps that write no message.                                            *)

\* What every read leaves of a context, and where it may lead.
Mild(e, p, q) ==
  /\ q.out_epoch = p.out_epoch /\ q.alt_epoch = p.alt_epoch
  /\ q.flight = p.flight \/ q.flight = <<>>
  /\ q.hs \subseteq p.hs /\ q.future_record \subseteq p.future_record
  /\ e = "server" => q.keep_current_message = p.keep_current_message
Goes(e, m, state, next) ==
  /\ next \in Passed(e) => state \in Passed(e) \/ m.type = "Finished"
  /\ e = "client" /\ ClientHasFinished(conf, state) => ClientHasFinished(conf, next)

\* The helpers of reading are mild.
LEMMA MildHelpers ==
  ASSUME NEW e \in Endpoints, NEW p \in Contexts
  PROVE  /\ Mild(e, p, p) /\ Mild(e, p, Fatal(p)) /\ Fatal(p).state = p.state
         /\ Mild(e, p, RecvFlightCompleted(p)) /\ RecvFlightCompleted(p).state = p.state
         /\ \A state \in States : Mild(e, p, Goto(p, state)) /\ Goto(p, state).state = state
         /\ \A m : Mild(e, p, UpdateHandshakeStatus(p, m)) /\ UpdateHandshakeStatus(p, m).state = p.state
         /\ Mild(e, p, FreeHandshake(p)) /\ FreeHandshake(p).state = p.state
<1>1. /\ Mild(e, p, p) /\ Mild(e, p, Fatal(p)) /\ Fatal(p).state = p.state
      /\ Mild(e, p, RecvFlightCompleted(p)) /\ RecvFlightCompleted(p).state = p.state
  BY DEF Mild, Fatal, RecvFlightCompleted, Contexts
<1>2. /\ Mild(e, p, FreeHandshake(p)) /\ FreeHandshake(p).state = p.state
  BY DEF Mild, FreeHandshake, Contexts
<1>3. \A state \in States : Mild(e, p, Goto(p, state)) /\ Goto(p, state).state = state
  BY DEF Mild, Goto, Contexts
<1>4. \A m : Mild(e, p, UpdateHandshakeStatus(p, m)) /\ UpdateHandshakeStatus(p, m).state = p.state
  BY DEF Mild, UpdateHandshakeStatus, Contexts
<1> QED
  BY <1>1, <1>2, <1>3, <1>4

\* So is one after the other.
LEMMA MildOn ==
  ASSUME NEW e, NEW p, NEW q, NEW r, Mild(e, p, q), Mild(e, q, r)
  PROVE  Mild(e, p, r)
BY DEF Mild

\* What a message does that is parsed.
LEMMA ParseTakes ==
  ASSUME conf \in Confs, NEW e \in Endpoints, NEW p \in Contexts, p.state \in Reads[e],
         NEW m \in Messages
  PROVE  LET q == Parse(e, p, m) IN
         /\ Mild(e, p, q) /\ Goes(e, m, p.state, q.state)
         /\ e = "server" \/ p.state # "SERVER_HELLO" => q.session = p.session
<1> DEFINE q == Parse(e, p, m)
<1>1. ASSUME NEW type, NEW r, Mild(e, p, r)
      PROVE  /\ Mild(e, p, Expect(p, m, type, r))
             /\ Expect(p, m, type, r).state \in {p.state, r.state}
             /\ r.session = p.session => Expect(p, m, type, r).session = p.session
  BY <1>1, MildHelpers, HelpersStay DEF Expect
<1>2. Goes(e, m, p.state, p.state)
  BY DEF Goes
<1>3. CASE p.state = "SERVER_HELLO"
  <2> DEFINE h == [p EXCEPT !.state = "CLIENT_HELLO", !.checksum = <<>>, !.cookie = TRUE]
             s == IF ~conf.resume THEN "SERVER_CERTIFICATE"
                  ELSE IF conf.ticket THEN "NEW_SESSION_TICKET" ELSE "SERVER_CHANGE_CIPHER_SPEC"
             r == [p EXCEPT !.session = m.session, !.new_session_ticket = conf.ticket, !.state = s]
  <2>1. e = "client"
    BY <1>3 DEF Reads, Endpoints
  <2>2. q = ParseServerHello(p, m)
    BY <1>3, ParseCases
  <2>3. q = IF m.type = "HelloVerifyRequest" THEN RecvFlightCompleted(h)
            ELSE Expect(p, m, "ServerHello", r)
    BY <2>2 DEF ParseServerHello, ParseHelloVerifyRequest
  <2>4. h \in Contexts /\ Mild(e, p, h) /\ h.state = "CLIENT_HELLO"
    BY Empties DEF Contexts, States, Mild
  <2>5. s \in States /\ s \notin Passed(e)
    BY <2>1 DEF States, Passed, Closed
  <2> HIDE DEF h, s
  <2>6. Mild(e, p, r) /\ r.state = s
    BY DEF Contexts, Mild
  <2> HIDE DEF r, q
  <2>7. Mild(e, p, RecvFlightCompleted(h)) /\ RecvFlightCompleted(h).state = "CLIENT_HELLO"
    BY <2>4, MildHelpers, MildOn
  <2>8. Mild(e, p, q) /\ q.state \in {"CLIENT_HELLO", s, p.state}
    BY <1>1, <2>3, <2>6, <2>7
  <2>9. ~ClientHasFinished(conf, p.state) /\ "CLIENT_HELLO" \notin Passed(e)
    BY <1>3, <2>1 DEF ClientHasFinished, Closed, Passed
  <2>10. Goes(e, m, p.state, q.state)
    BY <2>5, <2>8, <2>9 DEF Goes
  <2> QED
    BY <1>3, <2>1, <2>8, <2>10 DEF q
<1>4. CASE p.state \in {"SERVER_CERTIFICATE", "CLIENT_CERTIFICATE", "SERVER_HELLO_DONE",
                        "CLIENT_KEY_EXCHANGE", "CERTIFICATE_VERIFY"}
  <2>1. ~ClientHasFinished(conf, p.state)
    BY <1>4 DEF ClientHasFinished, Closed
  <2>2. ASSUME NEW type,
               NEW state \in {"CERTIFICATE_REQUEST", "CLIENT_KEY_EXCHANGE", "CLIENT_CERTIFICATE",
                              "CERTIFICATE_VERIFY", "CLIENT_CHANGE_CIPHER_SPEC"},
               state = "CLIENT_CHANGE_CIPHER_SPEC" => e = "server",
               \/ q = Expect(p, m, type, Goto(p, state))
               \/ q = Expect(p, m, type, RecvFlightCompleted(Goto(p, state)))
        PROVE  Mild(e, p, q) /\ Goes(e, m, p.state, q.state) /\ q.session = p.session
    <3>1. state \in States /\ state \notin Passed(e)
      BY <2>2 DEF States, Passed, Closed, Endpoints
    <3>2. /\ Goto(p, state) \in Contexts /\ Mild(e, p, Goto(p, state)) /\ Goto(p, state).state = state
          /\ Goto(p, state).session = p.session
      BY <3>1, MildHelpers, GotoTyping, HelpersStay
    <3>3. /\ Mild(e, p, RecvFlightCompleted(Goto(p, state)))
          /\ RecvFlightCompleted(Goto(p, state)).state = state
          /\ RecvFlightCompleted(Goto(p, state)).session = p.session
      BY <3>2, MildHelpers, MildOn, HelpersStay
    <3> HIDE DEF q
    <3>4. Mild(e, p, q) /\ q.state \in {state, p.state} /\ q.session = p.session
      BY <1>1, <2>2, <3>2, <3>3
    <3>5. Goes(e, m, p.state, q.state)
      BY <2>1, <3>1, <3>4 DEF Goes
    <3> QED
      BY <3>4, <3>5
  <2>3. p.state \in {"CLIENT_KEY_EXCHANGE", "CERTIFICATE_VERIFY"} => e = "server"
    BY DEF Reads, Endpoints
  <2>4. CASE p.state \in {"SERVER_CERTIFICATE", "CLIENT_CERTIFICATE"}
    <3> DEFINE state == IF e = "client" THEN "CERTIFICATE_REQUEST" ELSE "CLIENT_KEY_EXCHANGE"
    <3>1. q = Expect(p, m, "Certificate", Goto(p, state))
      BY <2>4, ParseCases DEF ParseCertificate
    <3>2. state \in {"CERTIFICATE_REQUEST", "CLIENT_KEY_EXCHANGE"}
      OBVIOUS
    <3> HIDE DEF q, state
    <3>3. Mild(e, p, q) /\ Goes(e, m, p.state, q.state) /\ q.session = p.session
      BY <2>2, <3>1, <3>2
    <3> QED
      BY <3>3 DEF q
  <2>5. CASE p.state = "SERVER_HELLO_DONE"
    <3>1. q = Expect(p, m, "ServerHelloDone", RecvFlightCompleted(Goto(p, "CLIENT_CERTIFICATE")))
      BY <2>5, ParseCases DEF ParseServerHelloDone
    <3> HIDE DEF q
    <3>2. Mild(e, p, q) /\ Goes(e, m, p.state, q.state) /\ q.session = p.session
      BY <2>2, <3>1
    <3> QED
      BY <3>2 DEF q
  <2>6. CASE p.state = "CLIENT_KEY_EXCHANGE"
    <3> DEFINE state == IF conf.auth THEN "CERTIFICATE_VERIFY" ELSE "CLIENT_CHANGE_CIPHER_SPEC"
    <3>1. q = Expect(p, m, "ClientKeyExchange", Goto(p, state))
      BY <2>6, ParseCases DEF ParseClientKeyExchange
    <3>2. state \in {"CERTIFICATE_VERIFY", "CLIENT_CHANGE_CIPHER_SPEC"}
      OBVIOUS
    <3> HIDE DEF q, state
    <3>3. Mild(e, p, q) /\ Goes(e, m, p.state, q.state) /\ q.session = p.session
      BY <2>2, <2>3, <2>6, <3>1, <3>2
    <3> QED
      BY <3>3 DEF q
  <2>7. CASE p.state = "CERTIFICATE_VERIFY"
    <3>1. q = Expect(p, m, "CertificateVerify", Goto(p, "CLIENT_CHANGE_CIPHER_SPEC"))
      BY <2>7, ParseCases DEF ParseCertificateVerify
    <3> HIDE DEF q
    <3>2. Mild(e, p, q) /\ Goes(e, m, p.state, q.state) /\ q.session = p.session
      BY <2>2, <2>3, <2>7, <3>1
    <3> QED
      BY <3>2 DEF q
  <2> QED
    BY <1>4, <2>4, <2>5, <2>6, <2>7
<1>5. CASE p.state = "CERTIFICATE_REQUEST"
  <2> DEFINE r == IF m.type = "CertificateRequest" THEN [p EXCEPT !.client_auth = TRUE]
                  ELSE [p EXCEPT !.keep_current_message = <<m>>]
             s == [r EXCEPT !.state = "SERVER_HELLO_DONE"]
  <2>1. e = "client" /\ ~ClientHasFinished(conf, p.state) /\ "SERVER_HELLO_DONE" \notin Passed(e)
    BY <1>5 DEF Reads, Endpoints, ClientHasFinished, Closed, Passed
  <2>2. q = s
    BY <1>5, ParseCases DEF ParseCertificateRequest
  <2>3. <<m>> \in Seq(Messages)
    OBVIOUS
  <2>4. r \in Contexts /\ Mild(e, p, r) /\ r.session = p.session
    BY <2>1, <2>3 DEF Contexts, Mild
  <2> HIDE DEF r
  <2>5. Mild(e, r, s) /\ s.state = "SERVER_HELLO_DONE" /\ s.session = r.session
    BY <2>4 DEF Contexts, Mild
  <2> HIDE DEF s, q
  <2>6. Mild(e, p, q) /\ q.state = "SERVER_HELLO_DONE" /\ q.session = p.session
    BY <2>2, <2>4, <2>5, MildOn
  <2>7. Goes(e, m, p.state, q.state)
    BY <2>1, <2>6 DEF Goes
  <2> QED
    BY <2>6, <2>7 DEF q
<1>6. CASE p.state = "NEW_SESSION_TICKET"
  <2> DEFINE r == [p EXCEPT !.new_session_ticket = FALSE, !.state = "SERVER_CHANGE_CIPHER_SPEC"]
  <2>1. e = "client" /\ "SERVER_CHANGE_CIPHER_SPEC" \notin Passed(e)
    BY <1>6 DEF Reads, Endpoints, Closed, Passed
  <2>2. q = Expect(p, m, "NewSessionTicket", r)
    <3>1. q = ParseNewSessionTicket(p, m)
      BY <1>6, ParseCases
    <3> QED
      BY <3>1 DEF ParseNewSessionTicket
  <2>3. Mild(e, p, r) /\ r.state = "SERVER_CHANGE_CIPHER_SPEC" /\ r.session = p.session
    BY DEF Contexts, Mild
  <2> HIDE DEF r, q
  <2>4. /\ Mild(e, p, q) /\ q.state \in {p.state, "SERVER_CHANGE_CIPHER_SPEC"}
        /\ q.session = p.session
    BY <1>1, <2>2, <2>3
  <2>5. ClientHasFinished(conf, p.state) => ClientHasFinished(conf, "SERVER_CHANGE_CIPHER_SPEC")
    BY <1>6 DEF ClientHasFinished, Closed
  <2>6. Goes(e, m, p.state, q.state)
    BY <2>1, <2>4, <2>5 DEF Goes
  <2> QED
    BY <2>4, <2>6 DEF q
<1>7. CASE p.state \in CcsStates
  <2> DEFINE t == IF e = "client" THEN "SERVER_FINISHED" ELSE "CLIENT_FINISHED"
             r == [p EXCEPT !.in_epoch = @ + 1, !.state = t]
  <2>1. t \notin Passed(e)
    BY DEF Closed, Passed, Endpoints
  <2>2. q = Expect(p, m, "ChangeCipherSpec", r)
    <3>1. q = ParseChangeCipherSpec(e, p, m)
      BY <1>7, ParseCases
    <3> QED
      BY <3>1 DEF ParseChangeCipherSpec
  <2>3. e = "client" /\ ClientHasFinished(conf, p.state) => ClientHasFinished(conf, t)
    BY <1>7 DEF ClientHasFinished, Closed, CcsStates, Reads
  <2> HIDE DEF t
  <2>4. Mild(e, p, r) /\ r.state = t /\ r.session = p.session
    BY DEF Contexts, Mild
  <2> HIDE DEF r, q
  <2>5. Mild(e, p, q) /\ q.state \in {p.state, t} /\ q.session = p.session
    BY <1>1, <2>2, <2>4
  <2>6. Goes(e, m, p.state, q.state)
    BY <2>1, <2>3, <2>5 DEF Goes
  <2> QED
    BY <2>5, <2>6 DEF q
<1>8. CASE p.state \in FinishedStates
  <2> DEFINE t == IF e = "client"
                  THEN IF conf.resume THEN "CLIENT_CHANGE_CIPHER_SPEC" ELSE "HANDSHAKE_WRAPUP"
                  ELSE IF conf.resume THEN "HANDSHAKE_WRAPUP" ELSE "SERVER_CHANGE_CIPHER_SPEC"
             r == RecvFlightCompleted(Goto(p, t))
  <2>1. t \in States
    BY DEF States
  <2>2. q = Fatal(p) \/ (q = r /\ m.type = "Finished")
    BY <1>8, ParseCases DEF ParseFinished
  <2>3. e = "client" /\ ClientHasFinished(conf, p.state) => ClientHasFinished(conf, t)
    BY <1>8 DEF ClientHasFinished, Closed, FinishedStates
  <2> HIDE DEF t
  <2>4. /\ Goto(p, t) \in Contexts /\ Mild(e, p, Goto(p, t)) /\ Goto(p, t).state = t
        /\ Goto(p, t).session = p.session
    BY <2>1, MildHelpers, GotoTyping, HelpersStay
  <2>5. Mild(e, p, r) /\ r.state = t /\ r.session = p.session
    BY <2>4, MildHelpers, MildOn, HelpersStay
  <2> HIDE DEF r, q
  <2>6. CASE q = Fatal(p)
    <3>1. Mild(e, p, q) /\ q.state = p.state /\ q.session = p.session
      BY <2>6, MildHelpers, HelpersStay
    <3> QED
      BY <1>2, <3>1 DEF q
  <2>7. CASE q = r /\ m.type = "Finished"
    <3>1. Goes(e, m, p.state, q.state)
      BY <2>3, <2>5, <2>7 DEF Goes
    <3> QED
      BY <2>5, <2>7, <3>1 DEF q
  <2> QED
    BY <2>2, <2>6, <2>7
<1> QED
  BY <1>3, <1>4, <1>5, <1>6, <1>7, <1>8, ReadingStates

\* What a message does that is handled, whatever becomes of it.
Takes(e, p, m, q) ==
  /\ q \in Contexts /\ (SetContext(e, q) \/ FlightTransmit(e, q))
  /\ q.out_epoch = p.out_epoch /\ q.alt_epoch = p.alt_epoch
  /\ q.flight = p.flight \/ q.flight = <<>>
  /\ q.hs \subseteq p.hs \cup {m} /\ q.future_record \subseteq p.future_record
  /\ e = "server" => q.keep_current_message = p.keep_current_message
  /\ e = "server" \/ p.state # "SERVER_HELLO" => q.session = p.session
  /\ Goes(e, m, p.state, q.state)

\* A message that is passed on, kept, answered or the last.
LEMMA MessageTakes ==
  ASSUME TypeOK, NEW e \in Endpoints, NEW p \in Contexts, NEW m \in Messages,
         p.state \in Reads[e] \cup {"HANDSHAKE_OVER"}, HandleMessage(e, p, m)
  PROVE  \E q : Takes(e, p, m, q)
<1>1. ASSUME NEW q \in Contexts, SetContext(e, q) \/ FlightTransmit(e, q), Mild(e, p, q),
             e = "server" \/ p.state # "SERVER_HELLO" => q.session = p.session,
             Goes(e, m, p.state, q.state)
      PROVE  Takes(e, p, m, q)
  BY <1>1 DEF Takes, Mild
<1>2. Goes(e, m, p.state, p.state)
  BY DEF Goes
<1>3. CASE Passes(p, m) /\ SetContext(e, Parse(e, UpdateHandshakeStatus(p, m), m))
  <2> DEFINE u == UpdateHandshakeStatus(p, m)
             q == Parse(e, u, m)
  <2>1. p.state # "HANDSHAKE_OVER"
    BY <1>3 DEF Passes, CcsStates
  <2>2. /\ u \in Contexts /\ u.state = p.state /\ u.session = p.session /\ Mild(e, p, u)
        /\ conf \in Confs
    BY UpdateTyping, MildHelpers, HelpersStay DEF TypeOK
  <2>3. SetContext(e, q)
    BY <1>3
  <2> HIDE DEF u
  <2>4. /\ q \in Contexts /\ Mild(e, u, q) /\ Goes(e, m, u.state, q.state)
        /\ e = "server" \/ u.state # "SERVER_HELLO" => q.session = u.session
    BY <2>1, <2>2, ParseTakes, ParseTyping
  <2> HIDE DEF q
  <2>5. Mild(e, p, q)
    BY <2>2, <2>4, MildOn
  <2>6. Takes(e, p, m, q)
    BY <1>1, <2>2, <2>3, <2>4, <2>5
  <2> QED
    BY <2>6
<1>4. CASE ComesEarly(p, m) /\ SetContext(e, BufferMessage(p, m))
  <2> DEFINE q == BufferMessage(p, m)
  <2>1. q \in Contexts /\ q.session = p.session
    BY BufferTyping, HelpersStay
  <2>2. /\ q.state = p.state /\ q.out_epoch = p.out_epoch /\ q.alt_epoch = p.alt_epoch
        /\ q.flight = p.flight /\ q.future_record = p.future_record
        /\ q.keep_current_message = p.keep_current_message
        /\ q.hs = p.hs \/ q.hs = p.hs \cup {m}
    BY DEF BufferMessage, Contexts
  <2>3. SetContext(e, q)
    BY <1>4
  <2> HIDE DEF q
  <2>4. Takes(e, p, m, q)
    BY <1>2, <2>1, <2>2, <2>3 DEF Takes
  <2> QED
    BY <2>4
<1>5. CASE AsksAgain(p, m) /\ FlightTransmit(e, p)
  <2>1. Takes(e, p, m, p)
    BY <1>1, <1>2, <1>5, MildHelpers
  <2> QED
    BY <2>1
<1>6. CASE SetContext(e, FreeHandshake(p))
  <2>1. Takes(e, p, m, FreeHandshake(p))
    BY <1>1, <1>2, <1>6, MildHelpers, FreeTyping, HelpersStay
  <2> QED
    BY <2>1
<1> QED
  BY <1>3, <1>4, <1>5, <1>6 DEF HandleMessage

\* Of a record that cannot be decrypted nothing is taken.
LEMMA RecordTakes ==
  ASSUME TypeOK, NEW e \in Endpoints, NEW p \in Contexts, NEW r \in Records,
         p.state \in Reads[e] \cup {"HANDSHAKE_OVER"}, HandleRecord(e, p, r)
  PROVE  \E m, q : /\ Takes(e, p, m, q)
                   /\ m = ApplicationData \/ (m = r.msg /\ (r.epoch = 0 \/ r.key = p.session))
<1>1. r.msg \in Messages
  BY DEF Records
<1>2. CASE r.epoch = 0 \/ r.key = p.session
  <2>1. HandleMessage(e, p, r.msg)
    BY <1>2 DEF HandleRecord
  <2>2. PICK q : Takes(e, p, r.msg, q)
    BY <1>1, <2>1, MessageTakes
  <2> QED
    BY <1>2, <2>2
<1>3. CASE SetContext(e, Fatal(p))
  <2>1. Goes(e, ApplicationData, p.state, p.state)
    BY DEF Goes
  <2>2. Takes(e, p, ApplicationData, Fatal(p))
    BY <1>3, <2>1, MildHelpers, FatalTyping, HelpersStay DEF Takes, Mild
  <2> QED
    BY <2>2
<1> QED
  BY <1>2, <1>3 DEF HandleRecord

\* Nothing that e holds or may be given lets it read a Finished.
Barred(e) ==
  /\ \A m \in ssl[e].hs : m.type # "Finished"
  /\ ssl[e].keep_current_message # <<>> => Head(ssl[e].keep_current_message).type # "Finished"
  /\ \A r \in ssl[e].future_record \cup {x \in net : x.from # e} :
       r.epoch = 0 \/ r.key = ssl[e].session => r.msg.type # "Finished"

\* A step that writes no message: what e is after it, whether or not its flight is sent again.
StepsTo(e, p, q) ==
  /\ q \in Contexts /\ (SetContext(e, q) \/ FlightTransmit(e, q))
  /\ q.out_epoch = p.out_epoch /\ q.alt_epoch = p.alt_epoch
  /\ q.flight = p.flight \/ q.flight = <<>>
  /\ e = "server" => q.keep_current_message \in {p.keep_current_message, <<>>}
  /\ e = "server" \/ p.state # "SERVER_HELLO" => q.session = p.session
  /\ e = "client" /\ ClientHasFinished(conf, p.state) => ClientHasFinished(conf, q.state)
  /\ \A r \in q.future_record : r \in p.future_record \/ (r \in net /\ r.from # e)
  /\ Barred(e) => /\ q.state \in Passed(e) => p.state \in Passed(e)
                  /\ \A m \in q.hs : m.type # "Finished"

\* What is handled takes e on, if it is what e holds or may be given.
LEMMA TakesSteps ==
  ASSUME NEW e \in Endpoints, NEW p, NEW m, NEW q, Takes(e, p, m, q),
         Barred(e) => m.type # "Finished",
         p.state = ssl[e].state, p.session = ssl[e].session, p.flight = ssl[e].flight,
         p.out_epoch = ssl[e].out_epoch, p.alt_epoch = ssl[e].alt_epoch, p.hs = ssl[e].hs,
         p.future_record \subseteq ssl[e].future_record,
         p.keep_current_message \in {ssl[e].keep_current_message, <<>>}
  PROVE  StepsTo(e, ssl[e], q)
<1>1. Barred(e) => /\ q.state \in Passed(e) => ssl[e].state \in Passed(e)
                   /\ \A n \in q.hs : n.type # "Finished"
  <2> SUFFICES ASSUME Barred(e) PROVE /\ q.state \in Passed(e) => ssl[e].state \in Passed(e)
                                      /\ \A n \in q.hs : n.type # "Finished"
    OBVIOUS
  <2>1. m.type # "Finished" /\ \A n \in p.hs : n.type # "Finished"
    BY DEF Barred
  <2> QED
    BY <2>1 DEF Takes, Goes
<1>2. e = "client" /\ ClientHasFinished(conf, ssl[e].state) => ClientHasFinished(conf, q.state)
  BY DEF Takes, Goes
<1> QED
  BY <1>1, <1>2 DEF Takes, StepsTo

\* Reading, from the buffers or from the network, is such a step.
LEMMA ReadEffect ==
  ASSUME TypeOK, NEW e \in Endpoints,
         ReadKept(e) \/ ReadBufferedMessage(e) \/ ReadBufferedRecord(e) \/ ReadRecord(e)
           \/ BufferFutureRecord(e)
  PROVE  \E q : StepsTo(e, ssl[e], q)
<1> DEFINE p == ssl[e]
<1>1. p \in Contexts /\ conf \in Confs
  BY ContextOf DEF TypeOK
<1>2. p.state \in Reads[e] \cup {"HANDSHAKE_OVER"}
  BY DEF ReadKept, ReadBufferedMessage, ReadBufferedRecord, ReadRecord, BufferFutureRecord, Waiting,
         Over
<1>3. ApplicationData.type # "Finished" /\ ChangeCipherSpec.type # "Finished"
  BY PlainMessages
<1>4. CASE ReadKept(e)
  <2> DEFINE v == [p EXCEPT !.keep_current_message = <<>>]
             m == Head(p.keep_current_message)
             q == Parse(e, v, m)
  <2>1. /\ v \in Contexts /\ v.state = p.state /\ v.session = p.session /\ v.flight = p.flight
        /\ v.out_epoch = p.out_epoch /\ v.alt_epoch = p.alt_epoch /\ v.hs = p.hs
        /\ v.future_record = p.future_record /\ v.keep_current_message = <<>>
    BY <1>1, Empties DEF Contexts
  <2>2. p.state \in Reads[e] /\ SetContext(e, q) /\ p.keep_current_message # <<>>
    BY <1>4 DEF ReadKept, Waiting
  <2>3. m \in Messages
    BY <2>2, ContextOf
  <2>4. Barred(e) => m.type # "Finished"
    BY <2>2 DEF Barred
  <2> HIDE DEF v, m
  <2>5. /\ q \in Contexts /\ Mild(e, v, q) /\ Goes(e, m, v.state, q.state)
        /\ e = "server" \/ v.state # "SERVER_HELLO" => q.session = v.session
    BY <1>1, <2>1, <2>2, <2>3, ParseTakes, ParseTyping
  <2> HIDE DEF q
  <2>6. Takes(e, v, m, q)
    BY <2>2, <2>5 DEF Takes, Mild
  <2>7. StepsTo(e, ssl[e], q)
    BY <2>1, <2>4, <2>6, TakesSteps
  <2> QED
    BY <2>7
<1>5. CASE ReadBufferedMessage(e)
  <2>1. PICK m \in BufferedMessages(p) : HandleMessage(e, [p EXCEPT !.seen_ccs = @ /\ IsHandshake(m)], m)
    BY <1>5 DEF ReadBufferedMessage
  <2>2. m \in Messages /\ (Barred(e) => m.type # "Finished")
    BY <1>3, ContextOf, PlainMessages DEF BufferedMessages, Barred
  <2> DEFINE b == p.seen_ccs /\ IsHandshake(m)
             v == [p EXCEPT !.seen_ccs = b]
  <2>3. b \in BOOLEAN
    BY <1>1, Zenon DEF Contexts
  <2>4. HandleMessage(e, v, m)
    BY <2>1
  <2> HIDE DEF b
  <2>5. /\ v \in Contexts /\ v.state = p.state /\ v.session = p.session /\ v.flight = p.flight
        /\ v.out_epoch = p.out_epoch /\ v.alt_epoch = p.alt_epoch /\ v.hs = p.hs
        /\ v.future_record = p.future_record /\ v.keep_current_message = p.keep_current_message
    BY <1>1, <2>3 DEF Contexts
  <2> HIDE DEF v
  <2>6. PICK q : Takes(e, v, m, q)
    BY <1>2, <2>2, <2>4, <2>5, MessageTakes
  <2>7. StepsTo(e, ssl[e], q)
    BY <2>2, <2>5, <2>6, TakesSteps
  <2> QED
    BY <2>7
<1>6. CASE ReadBufferedRecord(e)
  <2> DEFINE v == [p EXCEPT !.future_record = {}]
  <2>1. PICK r \in BufferedRecords(p) : HandleRecord(e, v, r)
    BY <1>6 DEF ReadBufferedRecord
  <2>2. r \in Records /\ r \in p.future_record
    BY ContextOf DEF BufferedRecords
  <2>3. /\ v \in Contexts /\ v.state = p.state /\ v.session = p.session /\ v.flight = p.flight
        /\ v.out_epoch = p.out_epoch /\ v.alt_epoch = p.alt_epoch /\ v.hs = p.hs
        /\ v.future_record = {} /\ v.keep_current_message = p.keep_current_message
    BY <1>1 DEF Contexts
  <2> HIDE DEF v
  <2>4. PICK m, q : /\ Takes(e, v, m, q)
                    /\ m = ApplicationData \/ (m = r.msg /\ (r.epoch = 0 \/ r.key = v.session))
    BY <1>2, <2>1, <2>2, <2>3, RecordTakes
  <2>5. Barred(e) => m.type # "Finished"
    BY <1>3, <2>2, <2>3, <2>4 DEF Barred
  <2>6. StepsTo(e, ssl[e], q)
    BY <2>3, <2>4, <2>5, TakesSteps
  <2> QED
    BY <2>6
<1>7. CASE ReadRecord(e)
  <2>1. PICK r \in net : r.from # e /\ HandleRecord(e, p, r)
    BY <1>7 DEF ReadRecord
  <2>2. r \in Records
    BY DEF TypeOK
  <2>3. PICK m, q : /\ Takes(e, p, m, q)
                    /\ m = ApplicationData \/ (m = r.msg /\ (r.epoch = 0 \/ r.key = p.session))
    BY <1>1, <1>2, <2>1, <2>2, RecordTakes
  <2>4. Barred(e) => m.type # "Finished"
    BY <1>3, <2>1, <2>3 DEF Barred
  <2>5. StepsTo(e, ssl[e], q)
    BY <2>3, <2>4, TakesSteps
  <2> QED
    BY <2>5
<1>8. CASE BufferFutureRecord(e)
  <2>1. PICK r \in net : r.from # e /\ SetContext(e, [p EXCEPT !.future_record = {r}])
    BY <1>8 DEF BufferFutureRecord
  <2> DEFINE q == [p EXCEPT !.future_record = {r}]
  <2>2. r \in Records
    BY DEF TypeOK
  <2>3. /\ q \in Contexts /\ q.state = p.state /\ q.session = p.session /\ q.flight = p.flight
        /\ q.out_epoch = p.out_epoch /\ q.alt_epoch = p.alt_epoch /\ q.hs = p.hs
        /\ q.future_record = {r} /\ q.keep_current_message = p.keep_current_message
    BY <1>1, <2>2 DEF Contexts
  <2>4. SetContext(e, q)
    BY <2>1
  <2> HIDE DEF q
  <2>5. Barred(e) => \A m \in q.hs : m.type # "Finished"
    BY <2>3 DEF Barred
  <2>6. StepsTo(e, ssl[e], q)
    BY <2>1, <2>3, <2>4, <2>5 DEF StepsTo
  <2> QED
    BY <2>6
<1> QED
  BY <1>4, <1>5, <1>6, <1>7, <1>8

\* Timeouts and the end of the handshake are such steps, too.
LEMMA TimeEffect ==
  ASSUME TypeOK, NEW e \in Endpoints, TimeIsOver(e)
  PROVE  \E q : StepsTo(e, ssl[e], q)
<1> DEFINE p == ssl[e]
           doubled == IF conf.patient THEN p.retransmit_timeout ELSE p.retransmit_timeout + 1
           t == [p EXCEPT !.timer = FALSE, !.ret = "timeout"]
           r == [p EXCEPT !.retransmit_timeout = doubled]
<1>1. p \in Contexts
  BY DEF TypeOK
<1>2. SetContext(e, t) \/ FlightTransmit(e, r)
  BY DEF TimeIsOver
<1>3. doubled \in Nat
  <2>1. p.retransmit_timeout \in Nat /\ p.retransmit_timeout + 1 \in Nat
    BY <1>1 DEF Contexts
  <2> QED
    BY <2>1
<1> HIDE DEF doubled
<1> DEFINE Same(q) ==
      /\ q \in Contexts /\ q.state = p.state /\ q.session = p.session /\ q.flight = p.flight
      /\ q.out_epoch = p.out_epoch /\ q.alt_epoch = p.alt_epoch /\ q.hs = p.hs
      /\ q.future_record = p.future_record /\ q.keep_current_message = p.keep_current_message
<1>4. Same(t) /\ Same(r)
  <2>1. Same(t)
    BY <1>1 DEF Contexts, Returns
  <2>2. Same(r)
    BY <1>1, <1>3 DEF Contexts
  <2> QED
    BY <2>1, <2>2
<1> HIDE DEF t, r
<1>5. PICK q : Same(q) /\ (SetContext(e, q) \/ FlightTransmit(e, q))
  BY <1>2, <1>4
<1>6. Barred(e) => \A m \in q.hs : m.type # "Finished"
  BY <1>5 DEF Barred
<1>7. StepsTo(e, ssl[e], q)
  BY <1>5, <1>6 DEF StepsTo
<1> QED
  BY <1>7

\* mbedtls_ssl_handshake_wrapup
LEMMA WrapupEffect ==
  ASSUME TypeOK, NEW e \in Endpoints, Wrapup(e)
  PROVE  \E q : StepsTo(e, ssl[e], q)
<1> DEFINE p == ssl[e]
           g == Goto(p, "HANDSHAKE_OVER")
           t == [g EXCEPT !.timer = FALSE]
<1>1. p \in Contexts /\ p.state = "HANDSHAKE_WRAPUP"
  BY DEF Wrapup, At, TypeOK
<1>2. SetContext(e, t) \/ SetContext(e, FreeHandshake(g))
  BY DEF Wrapup
<1>3. g \in Contexts /\ Mild(e, p, g) /\ g.state = "HANDSHAKE_OVER" /\ g.session = p.session
  <2>1. "HANDSHAKE_OVER" \in States
    BY DEF States
  <2> QED
    BY <1>1, <2>1, MildHelpers, GotoTyping, HelpersStay
<1> HIDE DEF g
<1>4. t \in Contexts /\ Mild(e, g, t) /\ t.state = "HANDSHAKE_OVER" /\ t.session = g.session
  BY <1>3 DEF Contexts, Mild
<1> HIDE DEF t
<1>5. /\ FreeHandshake(g) \in Contexts /\ Mild(e, g, FreeHandshake(g))
      /\ FreeHandshake(g).state = "HANDSHAKE_OVER" /\ FreeHandshake(g).session = g.session
  BY <1>3, MildHelpers, FreeTyping, HelpersStay
<1>6. PICK q \in Contexts : /\ SetContext(e, q) /\ Mild(e, g, q) /\ q.state = "HANDSHAKE_OVER"
                            /\ q.session = p.session
  BY <1>2, <1>3, <1>4, <1>5
<1>7. Mild(e, p, q)
  BY <1>3, <1>6, MildOn
<1>8. ClientHasFinished(conf, "HANDSHAKE_OVER") /\ p.state \in Passed(e)
  BY <1>1 DEF ClientHasFinished, Closed, Passed
<1>9. Barred(e) => \A m \in q.hs : m.type # "Finished"
  BY <1>7 DEF Barred, Mild
<1>10. StepsTo(e, ssl[e], q)
  BY <1>6, <1>7, <1>8, <1>9 DEF StepsTo, Mild
<1> QED
  BY <1>10

\* ssl_parse_client_hello
LEMMA HelloEffect ==
  ASSUME TypeOK, NEW cookie \in BOOLEAN, ParseClientHello(cookie)
  PROVE  \E q : StepsTo("server", ssl["server"], q)
<1> DEFINE p == ssl["server"]
<1>1. p \in Contexts /\ conf \in Confs /\ "server" \in Endpoints
  BY DEF TypeOK, Endpoints
<1>2. PICK r \in net : \/ SetContext("server", ClientHelloParsed(p, r.msg))
                       \/ SetContext("server", Fatal(p))
  BY DEF ParseClientHello
<1>3. r.msg \in Messages
  BY DEF TypeOK, Records
<1>4. CASE SetContext("server", ClientHelloParsed(p, r.msg))
  <2> DEFINE q == ClientHelloParsed(p, r.msg)
  <2>1. q \in Contexts /\ q.session = p.session
    BY <1>1, <1>3, ClientHelloTyping, HelpersStay
  <2>2. /\ q.state = "SERVER_HELLO" /\ q.flight = <<>> /\ q.hs = {} /\ q.future_record = {}
        /\ q.out_epoch = p.out_epoch /\ q.alt_epoch = p.alt_epoch
        /\ q.keep_current_message = p.keep_current_message
    BY <1>1 DEF ClientHelloParsed, RecvFlightCompleted, Contexts
  <2>3. SetContext("server", q)
    BY <1>4
  <2> HIDE DEF q
  <2>4. "SERVER_HELLO" \notin Passed("server")
    BY DEF Passed, Closed
  <2>5. StepsTo("server", ssl["server"], q)
    BY <2>1, <2>2, <2>3, <2>4 DEF StepsTo
  <2> QED
    BY <2>5
<1>5. CASE SetContext("server", Fatal(p))
  <2>1. Mild("server", p, Fatal(p)) /\ Fatal(p).state = p.state /\ Fatal(p).session = p.session
        /\ Fatal(p) \in Contexts
    BY <1>1, MildHelpers, FatalTyping, HelpersStay
  <2>2. Barred("server") => \A m \in Fatal(p).hs : m.type # "Finished"
    BY <2>1 DEF Barred, Mild
  <2>3. StepsTo("server", ssl["server"], Fatal(p))
    BY <1>5, <2>1, <2>2 DEF StepsTo, Mild
  <2> QED
    BY <2>3
<1> QED
  BY <1>2, <1>4, <1>5

--------------------------------------------------------------------------------
(* Within the first session.                                               *)

\* Before the other side has written Finished, none can be read.
LEMMA AnsweredBars ==
  ASSUME TypeOK, FirstSession, Answered, NEW e \in Endpoints, ssl[Peer(e)].out_epoch = 0
  PROVE  /\ Barred(e) /\ ssl[e].state \notin Passed(e)
         /\ \A r \in net : r.from # e => r.msg.type # "Finished"
         /\ \A r \in ssl[e].future_record : r.msg.type # "Finished"
<1> DEFINE f == Peer(e)
<1>1. f \in Endpoints /\ Peer(f) = e /\ \A g \in Endpoints : g # e => g = f
  BY Others
<1>2. \A r \in net : r.from # e => r.from = f
  BY <1>1 DEF TypeOK, Records
<1>3. /\ \A r \in net : r.from = f => r.msg.type # "Finished"
      /\ \A m \in ssl[e].hs : m.type # "Finished"
      /\ \A r \in ssl[e].future_record : r.msg.type # "Finished"
      /\ ssl[e].state \notin Passed(e)
  BY <1>1 DEF Answered
<1>4. ssl[e].keep_current_message # <<>> => Head(ssl[e].keep_current_message).type # "Finished"
  BY DEF FirstSession, EndpointInv, Early, Message
<1> HIDE DEF f
<1> QED
  BY <1>2, <1>3, <1>4 DEF Barred

\* The epoch tells whether Finished has been written.
LEMMA Epochs ==
  ASSUME FirstSession, NEW e \in Endpoints
  PROVE  /\ ssl[e].out_epoch = 0 \/ (ssl[e].out_epoch = 1 /\ HasWritten(conf, e, ssl[e].state))
         /\ HasWritten(conf, e, ssl[e].state) => ssl[e].out_epoch = 1
         /\ ssl[e].alt_epoch = 0
         /\ ssl[e].out_epoch = 1 => ssl[e].flight = <<>> \/ HasFinished(ssl[e])
BY DEF FirstSession, EndpointInv, Place, FlightInv, One

\* A step that reads, and the flight it may send.
LEMMA StepAnswered ==
  ASSUME TypeOK, FirstSession, FirstSession', Answered, NEW e \in Endpoints,
         NEW q, StepsTo(e, ssl[e], q)
  PROVE  Answered'
<1>1. q \in Contexts /\ (SetContext(e, q) \/ FlightTransmit(e, q))
  BY DEF StepsTo
<1>2. ssl[Peer(e)].out_epoch = 0 =>
        /\ \A m \in q.hs : m.type # "Finished"
        /\ \A r \in q.future_record : r.msg.type # "Finished"
        /\ q.state \notin Passed(e)
  BY AnsweredBars DEF StepsTo
<1>3. CASE SetContext(e, q)
  <2>1. ssl' = [ssl EXCEPT ![e] = q] /\ net' = net
    BY <1>3 DEF SetContext
  <2>2. q.out_epoch = 0 => ssl[e].out_epoch = 0
    BY DEF StepsTo
  <2> QED
    BY <1>2, <2>1, <2>2, AnsweredKept
<1>4. CASE FlightTransmit(e, q)
  <2>1. PICK t \in Contexts : Transmitted(e, q, t)
    BY <1>1, <1>4, TransmitEffect
  <2>2. ssl[e].out_epoch = 1 => q.flight = <<>> \/ HasFinished(q)
    BY Epochs DEF StepsTo, HasFinished
  <2>3. t.out_epoch = 0 => ssl[e].out_epoch = 0
    BY <2>1, <2>2, Epochs DEF Transmitted, StepsTo
  <2>4. /\ ssl' = [ssl EXCEPT ![e] = t] /\ t.hs = q.hs /\ t.future_record = q.future_record
        /\ t.state = q.state
        /\ \A r \in net' : r \in net \/ (r.from = e /\ r.msg \in ToSet(t.flight))
    BY <2>1 DEF Transmitted, Holds
  <2> QED
    BY <1>2, <2>3, <2>4, AnsweredKept
<1> QED
  BY <1>1, <1>3, <1>4

\* A step that writes: in its states Finished has not yet been written.
LEMMA WriteAnswered ==
  ASSUME TypeOK, FirstSession, FirstSession', Answered, NEW e \in Endpoints,
         NEW q, NEW state, Writes(e, q, state), state \in Passed(e) => ssl[e].state \in Passed(e),
         ssl[e].state \in Writing(e)
  PROVE  Answered'
<1>1. ssl[e].out_epoch = 0
  <2>1. ssl[e].state \in IF e = "client" THEN ClientStates(conf) ELSE ServerStates(conf)
    BY DEF FirstSession, EndpointInv, Place, Endpoints
  <2>2. ~HasWritten(conf, e, ssl[e].state)
    BY <2>1 DEF HasWritten, ClientHasFinished, ServerHasFinished, Writing, Closed, Hello, ServerStates
  <2> QED
    BY <2>2, Epochs
<1>2. ssl[Peer(e)].out_epoch = 0 =>
        /\ \A m \in q.hs : m.type # "Finished"
        /\ \A r \in q.future_record : r.msg.type # "Finished"
        /\ q.state \notin Passed(e)
  BY AnsweredBars DEF Writes, Barred
<1>3. /\ ssl' = [ssl EXCEPT ![e] = q]
      /\ \A r \in net' : r \in net \/ (r.from = e /\ r.msg \in ToSet(q.flight))
  BY DEF Writes
<1> QED
  BY <1>1, <1>2, <1>3, AnsweredKept

\* What is sent beside a flight is no Finished.
LEMMA SendAnswered ==
  ASSUME TypeOK, FirstSession, FirstSession', Answered, NEW e \in Endpoints, ssl' = ssl,
         \A r \in net' : r \in net \/ (r.from = e /\ r.msg.type # "Finished")
  PROVE  Answered'
<1> DEFINE q == ssl[e]
<1>1. ssl' = [ssl EXCEPT ![e] = q]
  BY DEF TypeOK
<1>2. ssl[Peer(e)].out_epoch = 0 =>
        /\ \A m \in q.hs : m.type # "Finished"
        /\ \A r \in q.future_record : r.msg.type # "Finished"
        /\ q.state \notin Passed(e)
  BY AnsweredBars DEF Barred
<1> QED
  BY <1>1, <1>2, AnsweredKept

\* A HelloVerifyRequest, which is all the flight holds.
LEMMA VerifyAnswered ==
  ASSUME TypeOK, FirstSession, FirstSession', Answered, WriteHelloVerifyRequest
  PROVE  Answered'
<1> DEFINE p == ssl["server"]
           w == WriteMessage(p, "HelloVerifyRequest")
           q == Reset(w.session)
<1>1. "server" \in Endpoints /\ p \in Contexts
  BY DEF TypeOK, Endpoints
<1>2. /\ p.state = "SERVER_HELLO" /\ net' = net \cup FlightRecords("server", w)
      /\ ssl' = [ssl EXCEPT !["server"] = q]
  BY <1>1, HelpersStay DEF WriteHelloVerifyRequest, At
<1>3. p.flight = <<>>
  BY <1>2 DEF FirstSession, EarlyInv, Hello
<1>4. \A i \in DOMAIN w.flight : w.flight[i].type = "HelloVerifyRequest"
  BY <1>1, <1>3, WrittenFlight DEF Types
<1>5. q.hs = {} /\ q.future_record = {} /\ q.state \notin Passed("server")
  BY DEF Reset, Passed, Closed
<1>6. ssl["server"].out_epoch = 0
  <2>1. ~HasWritten(conf, "server", p.state)
    BY <1>2 DEF HasWritten, ServerHasFinished, Closed, Hello
  <2> QED
    BY <1>1, <2>1, Epochs
<1> HIDE DEF w, q
<1>7. \A r \in FlightRecords("server", w) : r.from = "server" /\ r.msg.type # "Finished"
  BY <1>4 DEF FlightRecords, Record, ToSet
<1> QED
  BY <1>1, <1>2, <1>5, <1>6, <1>7, AnsweredKept

--------------------------------------------------------------------------------
(* A later session.                                                        *)

\* A ClientHello with a cookie is answered only where the handshake was over, and
\* then the client had written its Finished.
LEMMA LateStarts ==
  ASSUME TypeOK, FirstSession, Answered, Reconnect, OneSession, ~OneSession'
  PROVE  Late'
<1> DEFINE c == ssl["client"]
           s == ssl["server"]
<1>1. "client" \in Endpoints /\ "server" \in Endpoints /\ Peer("client") = "server"
  BY DEF Endpoints, Peer
<1>2. c \in Contexts /\ conf \in Confs
  BY <1>1 DEF TypeOK
<1>3. PICK r \in net : SetContext("server", ClientHelloParsed(Reset(s.session + 1), r.msg))
  <2>1. ASSUME UNCHANGED <<conf, ssl>> PROVE FALSE
    BY <2>1 DEF OneSession
  <2> QED
    BY <2>1 DEF Reconnect
<1> DEFINE q == ClientHelloParsed(Reset(s.session + 1), r.msg)
<1>4. q.state = "SERVER_HELLO" /\ q.keep_current_message = <<>> /\ q.hs = {} /\ q.future_record = {}
  BY DEF ClientHelloParsed, RecvFlightCompleted, Reset
<1>5. ssl' = [ssl EXCEPT !["server"] = q] /\ net' = net /\ conf' = conf
  BY <1>3 DEF SetContext
<1> HIDE DEF q
<1>6. ssl'["client"] = c /\ ssl'["server"] = q
  BY <1>1, <1>5 DEF TypeOK
<1>7. c.out_epoch = 1 /\ c.alt_epoch = 0 /\ HasWritten(conf, "client", c.state)
  <2>1. s.state \in Passed("server")
    BY DEF Reconnect, Over, Passed, Closed
  <2>2. c.out_epoch # 0
    BY <1>1, <2>1 DEF Answered
  <2> QED
    BY <1>1, <2>2, Epochs
<1>8. c.flight = <<>> \/ HasFinished(c)
  BY <1>1, <1>7, Epochs
<1>9. ClientHasFinished(conf, c.state) /\ c.session = 1
  <2>1. ClientHasFinished(conf, c.state)
    BY <1>7 DEF HasWritten
  <2>2. c.state \notin Hello
    BY <2>1 DEF ClientHasFinished, Closed, Hello
  <2>3. c.session = One(c.state \notin Hello)
    BY <1>1 DEF FirstSession, EndpointInv, Place
  <2> QED
    BY <2>1, <2>2, <2>3 DEF One
<1>10. \A x \in net : x.from = "client" => Foreign(x)
  <2> SUFFICES ASSUME NEW x \in net, x.from = "client" PROVE Foreign(x)
    OBVIOUS
  <2>1. Sends(conf, "client", x)
    BY DEF FirstSession, Sends
  <2> QED
    BY <2>1, PlainMessages DEF Sends, Foreign
<1>11. q.state \notin Passed("server")
  BY <1>4 DEF Passed, Closed
<1> HIDE DEF c
<1>12. Late'
  BY <1>4, <1>5, <1>6, <1>7, <1>8, <1>9, <1>10, <1>11 DEF Late, HasFinished
<1> QED
  BY <1>12

\* What the client may still send.
LEMMA LateFlight ==
  ASSUME NEW p \in Contexts, p.session = 1, p.out_epoch = 1, p.alt_epoch = 0,
         NEW r \in FlightRecords("client", p)
  PROVE  Foreign(r)
<1> DEFINE u == SwapEpochs(p)
           v == SwapEpochs(u)
<1>1. u.out_epoch = 0 /\ u.alt_epoch = 1 /\ u.session = 1 /\ u \in Contexts
  BY SwapTyping DEF SwapEpochs, Contexts
<1>2. PICK m : r = Record("client", IF m.type = "Finished" THEN v ELSE u, m)
  BY DEF FlightRecords
<1> HIDE DEF u
<1>3. v.out_epoch = 1 /\ v.session = 1
  BY <1>1 DEF SwapEpochs, Contexts
<1> HIDE DEF v
<1> QED
  BY <1>1, <1>2, <1>3 DEF Record, Foreign

\* In a later session nothing lets the server read a Finished.
LEMMA LateBars ==
  ASSUME TypeOK, Late, ~OneSession
  PROVE  Barred("server")
<1>1. \A r \in net : r.from # "server" => r.from = "client"
  BY DEF TypeOK, Records, Endpoints
<1> QED
  BY <1>1 DEF Late, Barred, Foreign, OneSession

\* The client sends only what it sent before, and the server reads no Finished.
LEMMA StepLate ==
  ASSUME TypeOK, Late, ~OneSession, NEW e \in Endpoints, NEW q, StepsTo(e, ssl[e], q)
  PROVE  Late'
<1> DEFINE c == ssl["client"]
           s == ssl["server"]
<1>1. q \in Contexts /\ (SetContext(e, q) \/ FlightTransmit(e, q))
  BY DEF StepsTo
<1>2. CASE e = "client"
  <2>1. /\ ClientHasFinished(conf, q.state) /\ q.session = 1 /\ q.out_epoch = 1 /\ q.alt_epoch = 0
        /\ q.flight = <<>> \/ HasFinished(q)
    <3>1. c.state # "SERVER_HELLO"
      BY DEF Late, ClientHasFinished, Closed
    <3> QED
      BY <1>2, <3>1 DEF Late, StepsTo, HasFinished
  <2>2. PICK t \in Contexts :
          /\ ssl' = [ssl EXCEPT !["client"] = t] /\ conf' = conf /\ Holds(q, t) /\ t.flight = q.flight
          /\ t.out_epoch = q.out_epoch /\ t.alt_epoch = q.alt_epoch
          /\ \A r \in net' : r \in net \/ r \in FlightRecords("client", q)
    <3>1. CASE SetContext(e, q)
      BY <1>1, <1>2, <3>1 DEF SetContext, Holds
    <3>2. CASE FlightTransmit(e, q)
      BY <1>1, <1>2, <2>1, <3>2, TransmitEffect DEF Transmitted
    <3> QED
      BY <1>1, <3>1, <3>2
  <2>3. ssl'["client"] = t /\ ssl'["server"] = s
    BY <2>2 DEF TypeOK, Endpoints
  <2>4. \A r \in net' : r.from = "client" => Foreign(r)
    BY <1>1, <2>1, <2>2, LateFlight DEF Late
  <2>5. /\ ClientHasFinished(conf, t.state) /\ t.session = 1 /\ t.out_epoch = 1 /\ t.alt_epoch = 0
        /\ t.flight = <<>> \/ HasFinished(t)
    BY <2>1, <2>2 DEF Holds, HasFinished
  <2> HIDE DEF c, s
  <2> QED
    BY <2>2, <2>3, <2>4, <2>5 DEF Late, HasFinished, s
<1>3. CASE e = "server"
  <2>1. /\ q.state \notin Passed("server") /\ q.keep_current_message = <<>>
        /\ \A m \in q.hs : m.type # "Finished"
        /\ \A r \in q.future_record : Foreign(r)
    <3>1. \A r \in net : r.from # "server" => r.from = "client"
      BY DEF TypeOK, Records, Endpoints
    <3> QED
      BY <1>3, <3>1, LateBars DEF Late, StepsTo
  <2>2. PICK t \in Contexts :
          /\ ssl' = [ssl EXCEPT !["server"] = t] /\ conf' = conf /\ Holds(q, t)
          /\ \A r \in net' : r \in net \/ r.from = "server"
    <3>1. CASE SetContext(e, q)
      BY <1>1, <1>3, <3>1 DEF SetContext, Holds
    <3>2. CASE FlightTransmit(e, q)
      BY <1>1, <1>3, <3>2, TransmitEffect DEF Transmitted
    <3> QED
      BY <1>1, <3>1, <3>2
  <2>3. ssl'["server"] = t /\ ssl'["client"] = c
    BY <2>2 DEF TypeOK, Endpoints
  <2>4. \A r \in net' : r.from = "client" => Foreign(r)
    BY <2>2 DEF Late
  <2>5. /\ t.state \notin Passed("server") /\ t.keep_current_message = <<>>
        /\ \A m \in t.hs : m.type # "Finished"
        /\ \A r \in t.future_record : Foreign(r)
    BY <2>1, <2>2 DEF Holds
  <2> HIDE DEF c, s
  <2> QED
    BY <2>2, <2>3, <2>4, <2>5 DEF Late, HasFinished, c
<1> QED
  BY <1>2, <1>3 DEF Endpoints

\* The client has nothing left to write, and the server does not come to its Finished.
LEMMA WriteLate ==
  ASSUME TypeOK, Late, NEW e \in Endpoints, NEW q, NEW state, Writes(e, q, state),
         state \in Passed(e) => ssl[e].state \in Passed(e), ssl[e].state \in Writing(e)
  PROVE  Late'
<1> DEFINE c == ssl["client"]
<1>1. e = "server"
  BY DEF Late, Writing, ClientHasFinished, Closed, Endpoints
<1>2. ssl'["server"] = q /\ ssl'["client"] = c /\ conf' = conf
  BY <1>1 DEF Writes, TypeOK, Endpoints
<1>3. \A r \in net' : r.from = "client" => Foreign(r)
  BY <1>1 DEF Writes, Late
<1>4. /\ q.state \notin Passed("server") /\ q.keep_current_message = <<>>
      /\ \A m \in q.hs : m.type # "Finished"
      /\ \A r \in q.future_record : Foreign(r)
  BY <1>1 DEF Writes, Late
<1> HIDE DEF c
<1> QED
  BY <1>2, <1>3, <1>4 DEF Late, HasFinished, c

\* What is sent beside a flight.
LEMMA SendLate ==
  ASSUME Late, UNCHANGED <<conf, ssl>>,
         \A r \in net' : r \in net \/ (r.from = "client" => Foreign(r))
  PROVE  Late'
BY DEF Late, HasFinished

\* The server asks for a cookie in a later session, too.
LEMMA VerifyLate ==
  ASSUME TypeOK, Late, WriteHelloVerifyRequest
  PROVE  Late'
<1> DEFINE p == ssl["server"]
           c == ssl["client"]
           w == WriteMessage(p, "HelloVerifyRequest")
           q == Reset(p.session)
<1>1. /\ net' = net \cup FlightRecords("server", w) /\ conf' = conf
      /\ ssl' = [ssl EXCEPT !["server"] = Reset(w.session)]
  BY DEF WriteHelloVerifyRequest
<1>2. ssl'["server"] = Reset(w.session) /\ ssl'["client"] = c
  BY <1>1 DEF TypeOK, Endpoints
<1>3. \A r \in FlightRecords("server", w) : r.from = "server"
  BY DEF FlightRecords, Record
<1> HIDE DEF w
<1>4. LET t == Reset(w.session) IN
      t.hs = {} /\ t.future_record = {} /\ t.state \notin Passed("server")
      /\ t.keep_current_message = <<>>
  BY DEF Reset, Passed, Closed
<1> HIDE DEF c
<1>5. \A r \in net' : r.from = "client" => Foreign(r)
  BY <1>1, <1>3 DEF Late
<1> QED
  BY <1>1, <1>2, <1>4, <1>5 DEF Late, HasFinished, c

\* Only Reconnect starts another session.
LEMMA SessionStays ==
  ASSUME TypeOK
  PROVE  /\ \A e \in Endpoints : \A q : StepsTo(e, ssl[e], q) => (OneSession' <=> OneSession)
         /\ \A e \in Endpoints : \A q, state : Writes(e, q, state) => (OneSession' <=> OneSession)
         /\ WriteHelloVerifyRequest => (OneSession' <=> OneSession)
<1> "server" \in Endpoints /\ ssl["server"] \in Contexts
  BY DEF TypeOK, Endpoints
<1>1. ASSUME NEW e \in Endpoints, NEW q, ssl' = [ssl EXCEPT ![e] = q],
             e = "server" => q.session = ssl[e].session
      PROVE  OneSession' <=> OneSession
  BY <1>1 DEF OneSession, TypeOK
<1>2. ASSUME NEW e \in Endpoints, NEW q, StepsTo(e, ssl[e], q)
      PROVE  OneSession' <=> OneSession
  <2>1. q \in Contexts /\ (SetContext(e, q) \/ FlightTransmit(e, q))
    BY <1>2 DEF StepsTo
  <2>2. PICK t \in Contexts : ssl' = [ssl EXCEPT ![e] = t] /\ t.session = q.session
    <3>1. CASE SetContext(e, q)
      BY <2>1, <3>1 DEF SetContext
    <3>2. CASE FlightTransmit(e, q)
      BY <2>1, <3>2, TransmitEffect DEF Transmitted, Holds
    <3> QED
      BY <2>1, <3>1, <3>2
  <2>3. e = "server" => t.session = ssl[e].session
    BY <1>2, <2>2 DEF StepsTo
  <2> QED
    BY <1>1, <2>2, <2>3
<1>3. ASSUME NEW e \in Endpoints, NEW q, NEW state, Writes(e, q, state)
      PROVE  OneSession' <=> OneSession
  BY <1>1, <1>3 DEF Writes
<1>4. ASSUME WriteHelloVerifyRequest PROVE OneSession' <=> OneSession
  <2> DEFINE w == WriteMessage(ssl["server"], "HelloVerifyRequest")
             q == Reset(w.session)
  <2>1. ssl' = [ssl EXCEPT !["server"] = q]
    BY <1>4 DEF WriteHelloVerifyRequest
  <2>2. Holds(ssl["server"], w)
    BY WritingHolds DEF Types
  <2> HIDE DEF w
  <2>3. q.session = ssl["server"].session
    BY <2>2 DEF Reset, Holds
  <2> HIDE DEF q
  <2> QED
    BY <1>1, <2>1, <2>3
<1> QED
  BY <1>2, <1>3, <1>4

\* Every step keeps the invariant, in the first session and after it.
LEMMA OneNext ==
  ASSUME HandshakeInv, HandshakeInv', OneInv, [Next]_vars
  PROVE  OneInv'
<1>1. /\ TypeOK /\ (OneSession => FirstSession /\ Answered) /\ (OneSession' => FirstSession')
      /\ ~OneSession => Late
  BY DEF HandshakeInv, OneInv
<1>2. ASSUME NEW e \in Endpoints, NEW q, StepsTo(e, ssl[e], q) PROVE OneInv'
  <2>1. OneSession' <=> OneSession
    BY <1>1, <1>2, SessionStays
  <2> QED
    BY <1>1, <1>2, <2>1, StepAnswered, StepLate DEF OneInv
<1>3. ASSUME NEW e \in Endpoints,
             \/ WriteFinished(e)
             \/ e = "client" /\ (WriteClientHello \/ WriteClientKeyExchange)
             \/ e = "server" /\ WriteServerHello
      PROVE  OneInv'
  <2>1. PICK q, state : /\ Writes(e, q, state) /\ ssl[e].state \in Writing(e)
                        /\ state \in Passed(e) => ssl[e].state \in Passed(e)
    BY <1>1, <1>3, WriteEffect
  <2>2. OneSession' <=> OneSession
    BY <1>1, <2>1, SessionStays
  <2> QED
    BY <1>1, <2>1, <2>2, WriteAnswered, WriteLate DEF OneInv
<1>4. CASE WriteHelloVerifyRequest
  <2>1. OneSession' <=> OneSession
    BY <1>1, <1>4, SessionStays
  <2> QED
    BY <1>1, <1>4, <2>1, VerifyAnswered, VerifyLate DEF OneInv
<1>5. ASSUME NEW e \in Endpoints, UNCHANGED <<conf, ssl>>,
             \A r \in net' : \/ r \in net
                             \/ /\ r.from = e /\ r.msg.type # "Finished"
                                /\ r.from = "client" => r.epoch = 0 \/ r.key = ssl["client"].session
      PROVE  OneInv'
  <2>1. OneSession' <=> OneSession
    BY <1>5 DEF OneSession
  <2>2. Late => \A r \in net' : r \in net \/ (r.from = "client" => Foreign(r))
    BY <1>5 DEF Late, Foreign
  <2> QED
    BY <1>1, <1>5, <2>1, <2>2, SendAnswered, SendLate DEF OneInv
<1>6. ASSUME NEW e \in Endpoints, Write(e) PROVE OneInv'
  <2>1. UNCHANGED <<conf, ssl>> /\ net' = net \cup {Record(e, ssl[e], ApplicationData)}
    BY <1>6 DEF Write
  <2>2. LET r == Record(e, ssl[e], ApplicationData) IN
        /\ r.from = e /\ r.msg.type # "Finished"
        /\ r.from = "client" => r.epoch = 0 \/ r.key = ssl["client"].session
    BY PlainMessages DEF Record
  <2> QED
    BY <1>5, <2>1, <2>2
<1>7. CASE Reconnect
  <2> DEFINE s == ssl["server"]
             n == s.session + 1
  <2>1. ssl["server"].state \in Passed("server")
    BY <1>7 DEF Reconnect, Over, Passed, Closed
  <2>2. OneSession
    BY <1>1, <2>1 DEF Late
  <2>3. PICK r \in net :
          \/ SetContext("server", ClientHelloParsed(Reset(n), r.msg))
          \/ /\ net' = net \cup {[from |-> "server", epoch |-> 0, key |-> 0,
                                  msg |-> Message("HelloVerifyRequest", r.msg.seq, s.session,
                                                  FALSE, <<>>)]}
             /\ UNCHANGED <<conf, ssl>>
    BY <1>7 DEF Reconnect
  <2>4. CASE SetContext("server", ClientHelloParsed(Reset(n), r.msg))
    <3> DEFINE q == ClientHelloParsed(Reset(n), r.msg)
    <3>1. n = 2
      BY <2>2 DEF OneSession
    <3>2. Reset(n) \in Contexts /\ Reset(n).session = n
      BY <3>1, ResetTyping DEF Reset
    <3>3. q.session = n
      BY <3>2, HelpersStay
    <3> HIDE DEF q, n
    <3>4. ssl'["server"] = q
      BY <1>1, <2>4 DEF SetContext, TypeOK, Endpoints, q, n
    <3>5. ~OneSession'
      BY <3>1, <3>3, <3>4 DEF OneSession
    <3> QED
      BY <1>1, <1>7, <2>2, <3>5, LateStarts DEF OneInv
  <2>5. CASE /\ net' = net \cup {[from |-> "server", epoch |-> 0, key |-> 0,
                                  msg |-> Message("HelloVerifyRequest", r.msg.seq, s.session,
                                                  FALSE, <<>>)]}
             /\ UNCHANGED <<conf, ssl>>
    <3>1. "server" \in Endpoints
      BY DEF Endpoints
    <3>2. \A x \in net' : \/ x \in net
                          \/ /\ x.from = "server" /\ x.msg.type # "Finished"
                             /\ x.from = "client" => x.epoch = 0 \/ x.key = ssl["client"].session
      BY <2>5 DEF Message
    <3> QED
      BY <1>5, <2>5, <3>1, <3>2
  <2> QED
    BY <2>3, <2>4, <2>5
<1>8. CASE Lose
  <2>1. "server" \in Endpoints /\ UNCHANGED <<conf, ssl>> /\ net' = {}
    BY <1>8 DEF Lose, Endpoints
  <2> QED
    BY <1>5, <2>1
<1>9. CASE UNCHANGED vars
  <2>1. "server" \in Endpoints /\ UNCHANGED <<conf, ssl>> /\ net' = net
    BY <1>9 DEF vars, Endpoints
  <2> QED
    BY <1>5, <2>1
<1>10. ASSUME NEW e \in Endpoints, Local(e) PROVE OneInv'
  <2>1. CASE ReadKept(e) \/ ReadBufferedMessage(e) \/ ReadBufferedRecord(e)
    BY <1>1, <1>2, <2>1, ReadEffect
  <2>2. CASE Wrapup(e)
    BY <1>1, <1>2, <2>2, WrapupEffect
  <2> QED
    BY <1>3, <1>4, <1>10, <2>1, <2>2 DEF Local
<1>11. ASSUME NEW e \in Endpoints, Receive(e) PROVE OneInv'
  BY <1>1, <1>2, <1>11, ReadEffect DEF Receive
<1>12. ASSUME NEW e \in Endpoints, TimerExpires(e) \/ ReceivesNothing(e) PROVE OneInv'
  BY <1>1, <1>2, <1>12, TimeEffect DEF TimerExpires, ReceivesNothing
<1>13. ASSUME NEW cookie \in BOOLEAN, ParseClientHello(cookie) PROVE OneInv'
  <2>1. "server" \in Endpoints
    BY DEF Endpoints
  <2> QED
    BY <1>1, <1>2, <1>13, <2>1, HelloEffect
<1> QED
  BY <1>6, <1>7, <1>8, <1>9, <1>10, <1>11, <1>12, <1>13 DEF Next

\* At first nothing is written.
LEMMA OneInit == Init => OneInv
<1> SUFFICES ASSUME Init PROVE OneInv
  OBVIOUS
<1>1. ssl["client"] = Reset(0) /\ ssl["server"] = Reset(1) /\ net = {}
  BY DEF Init, Endpoints
<1>2. /\ \A n : Reset(n).state = "CLIENT_HELLO" /\ Reset(n).session = n /\ Reset(n).hs = {}
                /\ Reset(n).future_record = {}
      /\ \A e : "CLIENT_HELLO" \notin Passed(e)
  BY DEF Reset, Passed, Closed
<1> QED
  BY <1>1, <1>2 DEF OneInv, OneSession, Answered, Endpoints, Peer

\* Of two hashes of one transcript the shorter is how the longer began.
LEMMA HashPrefix ==
  ASSUME NEW c \in Confs, NEW k \in {0, 1}, NEW m \in Int, NEW n \in Int
  PROVE  IsPrefix(Hash(c, k, m), Hash(c, k, n)) \/ IsPrefix(Hash(c, k, n), Hash(c, k, m))
<1>1. ASSUME NEW i \in Nat, NEW j \in Nat, i <= j
      PROVE  IsPrefix(Hash(c, k, i), Hash(c, k, j))
  <2> DEFINE s == Hash(c, k, i)
             t == Hash(c, k, j)
  <2>1. s \in Seq(Digests) /\ Len(s) = i /\ t \in Seq(Digests) /\ Len(t) = j
    BY HashTyping
  <2>2. \A l \in 1 .. i : t[l] = s[l]
    BY <1>1 DEF Hash
  <2> HIDE DEF s, t
  <2>3. SubSeq(s, 1, i) = s /\ SubSeq(t, 1, i) = s
    BY <1>1, <2>1, <2>2
  <2> QED
    BY <1>1, <2>1, <2>3 DEF IsPrefix, s, t
<1>2. ASSUME NEW i \in Int PROVE \E j \in Nat : Hash(c, k, i) = Hash(c, k, j)
  <2>1. CASE i \in Nat
    BY <2>1
  <2>2. CASE i \notin Nat
    <3>1. 1 .. i = 1 .. 0
      BY <2>2
    <3> QED
      BY <3>1 DEF Hash
  <2> QED
    BY <2>1, <2>2
<1>3. PICK i \in Nat : Hash(c, k, m) = Hash(c, k, i)
  BY <1>2
<1>4. PICK j \in Nat : Hash(c, k, n) = Hash(c, k, j)
  BY <1>2
<1>5. i <= j \/ j <= i
  OBVIOUS
<1> QED
  BY <1>1, <1>3, <1>4, <1>5

\* The invariant says what OneHandshake promises.
LEMMA OneIs == HandshakeInv /\ OneInv => OneHandshake
<1> SUFFICES ASSUME HandshakeInv, OneInv PROVE OneHandshake
  OBVIOUS
<1> DEFINE c == ssl["client"]
           s == ssl["server"]
<1>1. /\ "client" \in Endpoints /\ "server" \in Endpoints
      /\ Peer("client") = "server" /\ Peer("server") = "client" /\ TypeOK
  BY DEF Endpoints, Peer, HandshakeInv
<1>2. CASE OneSession
  <2>1. FirstSession /\ Answered
    BY <1>2 DEF HandshakeInv, OneInv
  <2>2. ASSUME conf.cookies => c.cookie /\ s.cookie
        PROVE  IsPrefix(c.checksum, s.checksum) \/ IsPrefix(s.checksum, c.checksum)
    <3> DEFINE k == First(conf)
               m == c.in_msg_seq + c.out_msg_seq - 2 * k
               n == s.in_msg_seq + s.out_msg_seq - 2 * k
    <3>1. conf \in Confs /\ k \in {0, 1}
      BY <1>1, Numbers DEF TypeOK
    <3>2. One(c.cookie) = k /\ One(s.cookie) = k
      BY <1>1, <2>1, <2>2 DEF FirstSession, EndpointInv, Place, First, One
    <3>3. c.checksum = Hash(conf, k, m) /\ s.checksum = Hash(conf, k, n)
      BY <1>1, <2>1, <3>2 DEF FirstSession, EndpointInv, Place
    <3>4. m \in Int /\ n \in Int
      <4>1. c \in Contexts /\ s \in Contexts
        BY <1>1, ContextOf
      <4>2. c.in_msg_seq \in Nat /\ c.out_msg_seq \in Nat /\ s.in_msg_seq \in Nat /\ s.out_msg_seq \in Nat
        BY <4>1 DEF Contexts
      <4> HIDE DEF c, s, k
      <4> QED
        BY <3>1, <4>2
    <3> HIDE DEF k, m, n
    <3> QED
      BY <3>1, <3>3, <3>4, HashPrefix
  <2>3. ASSUME Over("server") PROVE c.session = s.session /\ c.out_epoch = 1
    <3>1. s.state \in Passed("server")
      BY <2>3 DEF Over, Passed, Closed
    <3>2. c.out_epoch = 1 /\ HasWritten(conf, "client", c.state)
      BY <1>1, <2>1, <3>1, Epochs DEF Answered
    <3>3. c.state \notin Hello
      BY <3>2 DEF HasWritten, ClientHasFinished, Closed, Hello
    <3>4. c.session = 1
      BY <1>1, <2>1, <3>3 DEF FirstSession, EndpointInv, Place, One
    <3> QED
      BY <1>2, <3>2, <3>4 DEF OneSession
  <2>4. ASSUME Over("client") PROVE s.out_epoch = 1
    <3>1. c.state \in Passed("client")
      BY <2>4 DEF Over, Passed, Closed
    <3> QED
      BY <1>1, <2>1, <3>1, Epochs DEF Answered
  <2> HIDE DEF c, s
  <2> QED
    BY <2>2, <2>3, <2>4 DEF OneHandshake, c, s
<1>3. CASE ~OneSession
  <2>1. Late
    BY <1>3 DEF OneInv
  <2>2. ~Over("server")
    BY <2>1 DEF Late, Over, Passed, Closed
  <2>3. c.session # s.session
    BY <1>3, <2>1 DEF Late, OneSession
  <2> QED
    BY <1>3, <2>2, <2>3 DEF OneHandshake
<1> QED
  BY <1>2, <1>3

\* Both sides hash one and the same handshake, and a side for which it is over has
\* been answered by the other from its end: of a delayed ClientHello with a cookie,
\* which starts another session, no handshake comes (in_msg_seq, the buffer of early
\* messages, mbedtls_ssl_write_finished, ssl_handle_possible_reconnect).
THEOREM HandshakeIsOne == Spec => []OneHandshake
<1>1. HandshakeInv /\ OneInv /\ [Next]_vars => (HandshakeInv /\ OneInv)'
  BY HandshakeNext, OneNext
<1> QED
  BY <1>1, HandshakeInit, OneInit, OneIs, PTL DEF Spec

--------------------------------------------------------------------------------
(* Nothing is forgotten: what a flight holds, and for how long.            *)

\* The number that the flight of a state begins with.
FlightStart(c, e, state, k) ==
  IF e = "client" THEN IF ClientHasFinished(c, state) THEN k + 1 ELSE k
  ELSE IF ~c.resume /\ state \in Closed THEN k + 3 + Auth(c) ELSE k

\* A flight that is kept has all its messages, and so is kept what repeats it.
Covers(p, n) ==
  \A j \in n .. p.out_msg_seq - 1 : \E m \in ToSet(p.flight) : IsHandshake(m) /\ m.seq = j
Whole(c, e, p) ==
  p.flight # <<>> =>
    /\ p.handshake /\ Covers(p, FlightStart(c, e, p.state, One(p.cookie)))
    /\ HasFinished(p) => ChangeCipherSpec \in ToSet(p.flight)

\* Whoever waits has a timer, which is set.
Timed(e, p) == p.state \in Reads[e] /\ p.ret = "ok" => p.timer /\ p.retransmit_timeout # 0

\* The side whose flight is the last; the message before its flight asks for it again.
WritesLast(c, e) == IF c.resume THEN e = "client" ELSE e = "server"
Asked(c, e, p) == WritesLast(c, e) /\ p.state \in Passed(e) => p.in_flight_start_seq = p.in_msg_seq

Ready(c, e, p) ==
  /\ Whole(c, e, p) /\ Timed(e, p) /\ Asked(c, e, p)
  /\ p.state # "HANDSHAKE_OVER" => p.handshake

\* The last flight is given up only when the handshake is over on the other side,
\* which is what application data tells.
Needed ==
  \A e \in Endpoints :
    LET q == ssl[Peer(e)] IN
    /\ WritesLast(conf, e) /\ ssl[e].state \in Closed /\ ssl[e].flight = <<>> =>
         q.state = "HANDSHAKE_OVER"
    /\ ssl[e].state # "HANDSHAKE_OVER" =>
         /\ \A r \in net : r.from = e => r.msg.type # "ApplicationData"
         /\ \A r \in q.future_record : r.msg.type # "ApplicationData"

\* The server has a cookie only from the client.
Cookies ==
  ~ssl["client"].cookie =>
    /\ ~ssl["server"].cookie
    /\ \A r \in net : r.from = "client" => ~r.msg.cookie
    /\ \A m \in ToSet(ssl["client"].flight) : ~m.cookie

Kept == (\A e \in Endpoints : Ready(conf, e, ssl[e])) /\ Needed /\ Cookies
KeptInv == OneSession => Kept

\* Once the server has answered, both sides have the cookie if there is one.
LEMMA CookiesAgree ==
  ASSUME TypeOK, FirstSession, Cookies, ssl["server"].state \notin Hello
  PROVE  /\ ssl["server"].cookie = conf.cookies /\ ssl["client"].cookie = conf.cookies
         /\ One(ssl["server"].cookie) = First(conf) /\ One(ssl["client"].cookie) = First(conf)
<1>1. /\ Place(conf, "client", ssl["client"]) /\ Place(conf, "server", ssl["server"])
      /\ ssl["client"] \in Contexts /\ conf \in Confs
  BY DEF FirstSession, EndpointInv, Endpoints, TypeOK
<1>2. ssl["client"].cookie \in BOOLEAN /\ conf.cookies \in BOOLEAN
  BY <1>1, ConfTyping DEF Contexts
<1>3. ssl["server"].cookie = conf.cookies /\ (ssl["client"].cookie => conf.cookies)
  BY <1>1 DEF Place
<1>4. ssl["client"].cookie = conf.cookies
  BY <1>2, <1>3, Zenon DEF Cookies
<1> QED
  BY <1>3, <1>4 DEF First

\* A side that has written Finished keeps it for as long as the other one reads.
LEMMA FlightStands ==
  ASSUME TypeOK, FirstSession, Answered, Kept, NEW e \in Endpoints, ssl[e].out_epoch = 1,
         ssl[Peer(e)].state \in Reads[Peer(e)]
  PROVE  ssl[e].flight # <<>> /\ ChangeCipherSpec \in ToSet(ssl[e].flight)
<1> DEFINE p == ssl[e]
           q == ssl[Peer(e)]
<1>1. /\ Peer(e) \in Endpoints /\ Peer(Peer(e)) = e
      /\ Place(conf, e, p) /\ FlightInv(conf, e, p)
      /\ Place(conf, Peer(e), q) /\ q.alt_epoch = 0
  BY Others DEF FirstSession, EndpointInv, Place
<1>2. HasWritten(conf, e, p.state) /\ (q.out_epoch # 0 => HasWritten(conf, Peer(e), q.state))
  BY <1>1 DEF Place, One
<1>3. p.flight # <<>>
  <2> SUFFICES ASSUME p.flight = <<>> PROVE FALSE
    OBVIOUS
  <2>1. p.state \notin Reads[e]
    BY <1>1 DEF FlightInv
  <2>2. p.state \in Closed
    BY <1>1, <1>2, <2>1 DEF HasWritten, ClientHasFinished, ServerHasFinished, Reads, Closed, Place,
       ServerStates, Hello, Endpoints
  <2>3. q.state \notin Closed
    BY <1>1 DEF Closed, Reads, Endpoints
  <2>4. CASE WritesLast(conf, e)
    <3>1. q.state = "HANDSHAKE_OVER"
      BY <2>2, <2>4 DEF Kept, Needed
    <3> QED
      BY <2>3, <3>1 DEF Closed
  <2>5. CASE ~WritesLast(conf, e)
    <3>1. p.state \in Passed(e)
      BY <2>2 DEF Passed
    <3>2. HasWritten(conf, Peer(e), q.state)
      BY <1>1, <1>2, <3>1 DEF Answered
    <3> QED
      BY <2>3, <2>5, <3>2 DEF WritesLast, HasWritten, ClientHasFinished, ServerHasFinished, Peer, Endpoints
  <2> QED
    BY <2>4, <2>5
<1>4. HasFinished(p)
  BY <1>1, <1>3 DEF FlightInv
<1> QED
  BY <1>3, <1>4 DEF Kept, Ready, Whole

\* The next message for the client is in the server's flight once it is written.
LEMMA ServerKeeps ==
  ASSUME TypeOK, FirstSession, Answered, Kept,
         ssl["client"].state \in Reads["client"] \ CcsStates,
         ssl["server"].out_msg_seq > ssl["client"].in_msg_seq
  PROVE  /\ ssl["server"].flight # <<>>
         /\ FlightStart(conf, "server", ssl["server"].state, One(ssl["server"].cookie))
              <= ssl["client"].in_msg_seq
<1> DEFINE c == ssl["client"]
           s == ssl["server"]
           k == First(conf)
<1>1. /\ conf \in Confs /\ "client" \in Endpoints /\ "server" \in Endpoints
      /\ Peer("client") = "server" /\ Peer("server") = "client"
  BY DEF TypeOK, Endpoints, Peer
<1>2. /\ Place(conf, "client", c) /\ Place(conf, "server", s) /\ FlightInv(conf, "server", s)
      /\ c \in Contexts /\ s \in Contexts
  BY <1>1 DEF FirstSession, EndpointInv, TypeOK
<1>3. c.in_msg_seq = ClientIn(conf, c.state, One(c.cookie))
      /\ s.out_msg_seq = ServerOut(conf, s.state, One(s.cookie))
      /\ c.state \in ClientStates(conf) /\ s.state \in ServerStates(conf)
  BY <1>2 DEF Place
<1>4. /\ k \in {0, 1} /\ Auth(conf) \in {0, 1} /\ Tick(conf) \in {0, 1}
      /\ One(c.cookie) \in {0, 1} /\ One(s.cookie) \in {0, 1}
      /\ c.in_msg_seq \in Nat /\ s.out_msg_seq \in Nat
  BY <1>1, <1>2, Numbers DEF One, Contexts
<1>5. ~c.cookie => ~s.cookie
  BY DEF Kept, Cookies
<1>6. One(s.cookie) <= One(c.cookie)
  BY <1>5 DEF One
<1>7. s.state \notin Hello
  <2> SUFFICES ASSUME s.state \in Hello PROVE FALSE
    OBVIOUS
  <2>1. s.out_msg_seq = One(s.cookie)
    BY <1>3 DEF ServerOut
  <2>2. c.in_msg_seq >= One(c.cookie)
    BY <1>3, <1>4, SMTT(40) DEF ClientIn
  <2> HIDE DEF c, s
  <2> QED
    BY <1>4, <1>6, <2>1, <2>2 DEF c, s
<1>8. One(c.cookie) = k /\ One(s.cookie) = k
  BY <1>7, CookiesAgree DEF Kept
<1>9. ClientHasFinished(conf, c.state) \/ s.state \notin Passed("server")
  <2>1. c.out_epoch = 0 \/ HasWritten(conf, "client", c.state)
    BY <1>2 DEF Place, One
  <2>2. c.out_epoch = 0 => s.state \notin Passed("server")
    BY <1>1 DEF Answered
  <2> QED
    BY <2>1, <2>2 DEF HasWritten
<1>10. s.state \notin Passed("server") \/ (~conf.resume /\ s.state \in Closed
                                          /\ c.state \in {"NEW_SESSION_TICKET", "SERVER_FINISHED"})
  <2> SUFFICES ASSUME s.state \in Passed("server")
               PROVE  ~conf.resume /\ s.state \in Closed
                      /\ c.state \in {"NEW_SESSION_TICKET", "SERVER_FINISHED"}
    OBVIOUS
  <2>1. ~conf.resume /\ c.state \in {"NEW_SESSION_TICKET", "SERVER_FINISHED"}
    BY <1>9 DEF ClientHasFinished, Reads, Closed, CcsStates
  <2>2. s.state \in Closed
    <3> SUFFICES ASSUME s.state = "SERVER_CHANGE_CIPHER_SPEC" PROVE FALSE
      BY DEF Passed
    <3>1. s.out_msg_seq = k + 3 + Auth(conf)
      BY <1>3, <1>8, <2>1 DEF ServerOut, Hello, Closed
    <3>2. c.in_msg_seq >= k + 3 + Auth(conf)
      BY <1>3, <1>4, <1>8, <2>1 DEF ClientIn, Hello
    <3> HIDE DEF c, s, k
    <3> QED
      BY <1>4, <3>1, <3>2 DEF c, s
  <2> QED
    BY <2>1, <2>2
<1>11. s.flight # <<>>
  <2>1. CASE s.state \notin Passed("server")
    <3>1. s.state \in Reads["server"]
      BY <1>3, <1>7, <2>1 DEF ServerStates, Passed, Reads, Hello
    <3> QED
      BY <1>2, <3>1 DEF FlightInv
  <2>2. CASE ~conf.resume /\ s.state \in Closed
    <3>1. s.out_epoch = 1
      BY <1>2, <2>2 DEF Place, HasWritten, ServerHasFinished, One
    <3> QED
      BY <1>1, <3>1, FlightStands
  <2> QED
    BY <1>10, <2>1, <2>2
<1>12. FlightStart(conf, "server", s.state, k) <= c.in_msg_seq
  <2>1. CASE s.state \notin Passed("server")
    <3>1. FlightStart(conf, "server", s.state, k) = k
      BY <2>1 DEF FlightStart, Passed
    <3>2. c.in_msg_seq >= k
      BY <1>3, <1>4, <1>8, SMTT(40) DEF ClientIn
    <3> HIDE DEF c, s, k
    <3> QED
      BY <1>4, <3>1, <3>2
  <2>2. CASE ~conf.resume /\ s.state \in Closed
             /\ c.state \in {"NEW_SESSION_TICKET", "SERVER_FINISHED"}
    <3>1. FlightStart(conf, "server", s.state, k) = k + 3 + Auth(conf)
      BY <2>2 DEF FlightStart
    <3>2. c.in_msg_seq >= k + 3 + Auth(conf)
      BY <1>3, <1>4, <1>8, <2>2 DEF ClientIn, Hello
    <3> HIDE DEF c, s, k
    <3> QED
      BY <1>4, <3>1, <3>2
  <2> QED
    BY <1>10, <2>1, <2>2
<1> QED
  BY <1>8, <1>11, <1>12

\* So is the next message for the server in the client's flight.
LEMMA ClientKeeps ==
  ASSUME TypeOK, FirstSession, Answered, Kept,
         ssl["server"].state \in Reads["server"] \ CcsStates,
         ssl["client"].out_msg_seq > ssl["server"].in_msg_seq
  PROVE  /\ ssl["client"].flight # <<>>
         /\ FlightStart(conf, "client", ssl["client"].state, One(ssl["client"].cookie))
              <= ssl["server"].in_msg_seq
<1> DEFINE c == ssl["client"]
           s == ssl["server"]
           k == First(conf)
<1>1. /\ conf \in Confs /\ "client" \in Endpoints /\ "server" \in Endpoints
      /\ Peer("client") = "server" /\ Peer("server") = "client"
  BY DEF TypeOK, Endpoints, Peer
<1>2. /\ Place(conf, "client", c) /\ Place(conf, "server", s)
      /\ c \in Contexts /\ s \in Contexts
  BY <1>1 DEF FirstSession, EndpointInv, TypeOK
<1>3. s.in_msg_seq = ServerIn(conf, s.state, One(s.cookie))
      /\ c.out_msg_seq = ClientOut(conf, c.state, One(c.cookie))
      /\ s.state \notin Hello \cup Closed /\ s.state # "SERVER_CHANGE_CIPHER_SPEC"
  BY <1>2 DEF Place, Reads, Hello, Closed
<1>4. /\ k \in {0, 1} /\ Auth(conf) \in {0, 1} /\ Tick(conf) \in {0, 1}
      /\ s.in_msg_seq \in Nat /\ c.out_msg_seq \in Nat
  BY <1>1, <1>2, Numbers DEF Contexts
<1>5. One(c.cookie) = k /\ One(s.cookie) = k
  BY <1>3, CookiesAgree DEF Kept
<1>6. s.in_msg_seq >= k + 1
  BY <1>3, <1>4, <1>5, SMTT(40) DEF ServerIn, Hello
<1>7. ClientHasFinished(conf, c.state)
  <2> SUFFICES ASSUME ~ClientHasFinished(conf, c.state) PROVE FALSE
    OBVIOUS
  <2>1. c.out_msg_seq \in {k, k + 1}
    BY <1>3, <1>5 DEF ClientOut
  <2> HIDE DEF c, s, k
  <2> QED
    BY <1>4, <1>6, <2>1 DEF c, s
<1>8. c.out_epoch = 1
  BY <1>2, <1>7 DEF Place, HasWritten, One
<1>9. c.flight # <<>>
  BY <1>1, <1>8, FlightStands
<1>10. FlightStart(conf, "client", c.state, k) = k + 1
  BY <1>7 DEF FlightStart
<1> QED
  BY <1>5, <1>6, <1>9, <1>10

\* The flight of a side that waits is asked for again by the last one.
LEMMA FlightPrompts ==
  ASSUME TypeOK, FirstSession, Answered, Kept, NEW e \in Endpoints,
         ssl[e].state \in Reads[e], ssl[Peer(e)].state = "HANDSHAKE_OVER"
  PROVE  Prompts(ssl[e], ssl[Peer(e)])
<1> DEFINE p == ssl[e]
           q == ssl[Peer(e)]
           k == First(conf)
           n == q.in_flight_start_seq - 1
<1>1. /\ Peer(e) \in Endpoints /\ Peer(Peer(e)) = e /\ conf \in Confs
      /\ Place(conf, e, p) /\ FlightInv(conf, e, p) /\ Place(conf, Peer(e), q)
      /\ Ready(conf, e, p) /\ Ready(conf, Peer(e), q)
  BY Others DEF FirstSession, EndpointInv, Kept, TypeOK
<1>2. k \in {0, 1} /\ Auth(conf) \in {0, 1} /\ Tick(conf) \in {0, 1}
  BY <1>1, Numbers
<1>3. q.out_epoch = 1 /\ q.state \in Passed(Peer(e))
  BY <1>1 DEF Place, HasWritten, ClientHasFinished, ServerHasFinished, Hello, Closed, Passed, One
<1>4. q.flight # <<>> /\ q.handshake
  BY <1>1, <1>3, FlightStands DEF Ready, Whole
<1>5. HasWritten(conf, e, p.state)
  BY <1>1, <1>3 DEF Answered, Place, One
<1>6. WritesLast(conf, Peer(e)) /\ e = IF conf.resume THEN "server" ELSE "client"
  BY <1>5 DEF HasWritten, ClientHasFinished, ServerHasFinished, WritesLast, Reads, Closed, Peer,
     Endpoints
<1>7. q.in_flight_start_seq = q.in_msg_seq
  BY <1>1, <1>3, <1>6 DEF Ready, Asked
<1>8. ssl["server"].state \notin Hello
  BY <1>6 DEF Reads, Hello, Endpoints, Peer
<1>9. One(p.cookie) = k /\ One(q.cookie) = k
  BY <1>8, CookiesAgree DEF Kept, Endpoints, Peer
<1>10. p.flight # <<>>
  BY <1>1 DEF FlightInv
<1>11. n \in FlightStart(conf, e, p.state, k) .. p.out_msg_seq - 1
  <2>1. CASE conf.resume
    <3>1. e = "server" /\ Peer(e) = "client"
      BY <1>6, <2>1 DEF Peer
    <3>2. q.in_msg_seq = k + 2 + Tick(conf)
      BY <1>1, <1>2, <1>9, <2>1, <3>1 DEF Place, ClientIn, Hello
    <3>3. p.out_msg_seq = k + 2 + Tick(conf)
      BY <1>1, <1>8, <1>9, <2>1, <3>1 DEF Place, ServerOut
    <3>4. FlightStart(conf, e, p.state, k) = k
      BY <2>1, <3>1 DEF FlightStart
    <3> HIDE DEF p, q, k
    <3> QED
      BY <1>2, <1>7, <3>2, <3>3, <3>4
  <2>2. CASE ~conf.resume
    <3>1. e = "client" /\ Peer(e) = "server"
      BY <1>6, <2>2 DEF Peer
    <3>2. q.in_msg_seq = k + 3 + 2 * Auth(conf)
      BY <1>1, <1>2, <1>9, <2>2, <3>1 DEF Place, ServerIn, Hello
    <3>3. ClientHasFinished(conf, p.state) /\ p.state # "CLIENT_HELLO"
      BY <1>5, <3>1 DEF HasWritten, Reads
    <3>4. p.out_msg_seq = k + 3 + 2 * Auth(conf)
      BY <1>1, <1>9, <2>2, <3>1, <3>3 DEF Place, ClientOut
    <3>5. FlightStart(conf, e, p.state, k) = k + 1
      BY <3>1, <3>3 DEF FlightStart
    <3> HIDE DEF p, q, k
    <3> QED
      BY <1>2, <1>7, <3>2, <3>4, <3>5
  <2> QED
    BY <2>1, <2>2
<1>12. PICK m \in ToSet(p.flight) : IsHandshake(m) /\ m.seq = n
  BY <1>1, <1>9, <1>10, <1>11 DEF Ready, Whole, Covers
<1> QED
  BY <1>4, <1>12 DEF Prompts, ToSet

\* What the peer may have written has been read when the handshake is over.
LEMMA AllIsRead ==
  ASSUME TypeOK, FirstSession, Cookies, NEW e \in Endpoints, ssl[e].state = "HANDSHAKE_OVER"
  PROVE  BufferedMessages(ssl[e]) = {}
<1> DEFINE p == ssl[e]
           k == First(conf)
<1>1. conf \in Confs /\ Place(conf, e, p) /\ Early(conf, e, p)
  BY DEF FirstSession, EndpointInv, TypeOK
<1>2. k \in {0, 1} /\ Auth(conf) \in {0, 1} /\ Tick(conf) \in {0, 1}
      /\ (conf.auth => Auth(conf) = 1)
  BY <1>1, Numbers
<1>3. One(p.cookie) = k
  BY <1>1 DEF Place, Hello, First
<1>4. SUFFICES ASSUME NEW m \in p.hs, m.seq = p.in_msg_seq PROVE FALSE
  BY DEF BufferedMessages, CcsStates
<1>5. Says(conf, Peer(e), m)
  BY <1>1 DEF Early
<1>6. CASE e = "client"
  <2>1. ServerSays(conf, m)
    BY <1>5, <1>6 DEF Says, Peer
  <2>2. p.in_msg_seq = (IF conf.resume THEN k + 1 ELSE k + 3 + Auth(conf)) + (Tick(conf) + 1)
    BY <1>1, <1>3, <1>6 DEF Place, ClientIn, Hello
  <2>3. conf.ticket => Tick(conf) = 1
    BY <1>1, Numbers
  <2>4. m.seq < p.in_msg_seq
    <3> HIDE DEF k
    <3> QED
      BY <1>2, <2>1, <2>2, <2>3 DEF ServerSays, Message, k
  <2> QED
    BY <1>2, <1>4, <2>2, <2>4
<1>7. CASE e = "server"
  <2>1. ClientSays(conf, m)
    BY <1>5, <1>7 DEF Says, Peer
  <2>2. p.in_msg_seq = (IF conf.resume THEN k + 1 ELSE k + 2 + 2 * Auth(conf)) + 1
    BY <1>1, <1>3, <1>7 DEF Place, ServerIn, Hello
  <2>3. conf.cookies => k = 1
    BY <1>1, Numbers
  <2>4. m.seq < p.in_msg_seq
    BY <1>2, <2>1, <2>2, <2>3 DEF ClientSays, Message
  <2> QED
    BY <1>2, <1>4, <2>2, <2>4
<1> QED
  BY <1>6, <1>7 DEF Endpoints

\* The invariant says what NothingForgotten promises.
LEMMA KeptIs == HandshakeInv /\ OneInv /\ KeptInv => NothingForgotten
<1> SUFFICES ASSUME HandshakeInv, OneInv, KeptInv, OneSession, NEW e \in Endpoints
             PROVE  LET p == ssl[e]
                        q == ssl[Peer(e)]
                    IN /\ Waiting(e) =>
                            /\ p.timer
                            /\ Written(p, q) /\ ~AtHand(p) /\ q.ret = "ok" =>
                                 Keeps(q, p) /\ (q.timer \/ ~Over(Peer(e)) \/ Prompts(p, q))
                       /\ Over(e) => BufferedMessages(p) = {}
  BY DEF NothingForgotten
<1> DEFINE p == ssl[e]
           q == ssl[Peer(e)]
<1>1. /\ TypeOK /\ FirstSession /\ Answered /\ Kept
      /\ Peer(e) \in Endpoints /\ Peer(Peer(e)) = e
  BY Others DEF HandshakeInv, OneInv, KeptInv
<1>2. Over(e) => BufferedMessages(p) = {}
  BY <1>1, AllIsRead DEF Over, Kept
<1>3. ASSUME Waiting(e) PROVE p.timer
  BY <1>1, <1>3 DEF Kept, Ready, Timed, Waiting
<1>4. ASSUME Waiting(e), Over(Peer(e)) PROVE Prompts(p, q)
  BY <1>1, <1>4, FlightPrompts DEF Waiting, Over
<1>5. ASSUME Waiting(e), Written(p, q) PROVE Keeps(q, p)
  <2>1. p.state \in Reads[e]
    BY <1>5 DEF Waiting
  <2>2. CASE p.state \in CcsStates
    <3>1. q.out_epoch + q.alt_epoch = 1 /\ q.alt_epoch = 0 /\ q.out_epoch \in Nat
      BY <1>1, <1>5, <2>2 DEF Written, FirstSession, EndpointInv, Place, TypeOK, Contexts
    <3>2. q.out_epoch = 1
      BY <3>1
    <3>3. ChangeCipherSpec \in ToSet(q.flight)
      BY <1>1, <2>1, <3>2, FlightStands
    <3> QED
      BY <2>2, <3>3, PlainMessages DEF Keeps, Awaits, ToSet
  <2>3. CASE p.state \notin CcsStates
    <3>1. q.out_msg_seq > p.in_msg_seq
      BY <1>5, <2>3 DEF Written
    <3>2. q.flight # <<>> /\ FlightStart(conf, Peer(e), q.state, One(q.cookie)) <= p.in_msg_seq
      <4>1. CASE e = "client"
        BY <1>1, <2>1, <2>3, <3>1, <4>1, ServerKeeps DEF Peer
      <4>2. CASE e = "server"
        BY <1>1, <2>1, <2>3, <3>1, <4>2, ClientKeeps DEF Peer
      <4> QED
        BY <4>1, <4>2 DEF Endpoints
    <3>3. Covers(q, FlightStart(conf, Peer(e), q.state, One(q.cookie)))
      BY <1>1, <3>2 DEF Kept, Ready, Whole
    <3>4. p.in_msg_seq \in Nat /\ q.out_msg_seq \in Nat
      BY <1>1 DEF TypeOK, Contexts
    <3>5. FlightStart(conf, Peer(e), q.state, One(q.cookie)) \in Nat
      BY <1>1, Numbers DEF FlightStart, One, TypeOK
    <3>6. p.in_msg_seq \in FlightStart(conf, Peer(e), q.state, One(q.cookie)) .. q.out_msg_seq - 1
      <4> DEFINE a == p.in_msg_seq
                 b == q.out_msg_seq
                 f == FlightStart(conf, Peer(e), q.state, One(q.cookie))
      <4>1. a \in Nat /\ b \in Nat /\ f \in Nat /\ f <= a /\ b > a
        BY <3>1, <3>2, <3>4, <3>5
      <4> HIDE DEF a, b, f
      <4>2. a \in f .. b - 1
        BY <4>1
      <4> QED
        BY <4>2 DEF a, b, f
    <3>7. PICK m \in ToSet(q.flight) : IsHandshake(m) /\ m.seq = p.in_msg_seq
      BY <3>3, <3>6 DEF Covers
    <3> QED
      BY <2>3, <3>7 DEF Keeps, Awaits, ToSet
  <2> QED
    BY <2>2, <2>3
<1> QED
  BY <1>2, <1>3, <1>4, <1>5

--------------------------------------------------------------------------------
(* Contexts that may be the next one of a side.                            *)

\* q may be the next context of e.
Fit(e, q) ==
  /\ q \in Contexts /\ Ready(conf, e, q)
  /\ WritesLast(conf, e) /\ q.state \in Closed /\ q.flight = <<>> =>
       ssl[Peer(e)].state = "HANDSHAKE_OVER"
  /\ ssl[e].state = "HANDSHAKE_OVER" => q.state = "HANDSHAKE_OVER"
  /\ \A r \in q.future_record : r \in ssl[e].future_record \/ (r \in net /\ r.from # e)
  /\ e = "client" /\ ~q.cookie => ~ssl[e].cookie /\ \A m \in ToSet(q.flight) : ~m.cookie
  /\ e = "server" /\ q.cookie => ssl["client"].cookie

\* Records that e may send with such a context.
Sendable(e, q, r) ==
  /\ r.from = e
  /\ r.msg.type = "ApplicationData" => q.state = "HANDSHAKE_OVER"
  /\ e = "client" /\ ~q.cookie => ~r.msg.cookie

\* One context steps to such a one, and no record comes but from it.
LEMMA FitKept ==
  ASSUME TypeOK, Kept, NEW e \in Endpoints, NEW q, Fit(e, q),
         ssl' = [ssl EXCEPT ![e] = q], conf' = conf,
         \A r \in net' : r \in net \/ Sendable(e, q, r)
  PROVE  Kept'
<1> DEFINE f == Peer(e)
<1>1. /\ f \in Endpoints /\ f # e /\ Peer(f) = e /\ \A g \in Endpoints : g = e \/ g = f
  BY Others
<1>2. ssl'[e] = q /\ ssl'[f] = ssl[f]
  BY <1>1 DEF TypeOK
<1>3. \A g \in Endpoints : Ready(conf', g, ssl'[g])
  BY <1>1, <1>2 DEF Fit, Kept
<1>4. Needed'
  <2>1. ASSUME WritesLast(conf, e), q.state \in Closed, q.flight = <<>>
        PROVE  ssl[f].state = "HANDSHAKE_OVER"
    BY <2>1 DEF Fit
  <2>2. ASSUME WritesLast(conf, f), ssl[f].state \in Closed, ssl[f].flight = <<>>
        PROVE  q.state = "HANDSHAKE_OVER"
    BY <1>1, <2>2 DEF Fit, Kept, Needed
  <2>3. ASSUME q.state # "HANDSHAKE_OVER"
        PROVE  /\ \A r \in net' : r.from = e => r.msg.type # "ApplicationData"
               /\ \A r \in ssl[f].future_record : r.msg.type # "ApplicationData"
    BY <1>1, <2>3 DEF Fit, Kept, Needed, Sendable
  <2>4. ASSUME ssl[f].state # "HANDSHAKE_OVER"
        PROVE  /\ \A r \in net' : r.from = f => r.msg.type # "ApplicationData"
               /\ \A r \in q.future_record : r.msg.type # "ApplicationData"
    <3>1. /\ \A r \in net : r.from = f => r.msg.type # "ApplicationData"
          /\ \A r \in ssl[e].future_record : r.msg.type # "ApplicationData"
      BY <1>1, <2>4 DEF Kept, Needed
    <3>2. \A r \in net : r.from # e => r.from = f
      BY <1>1 DEF TypeOK, Records
    <3> QED
      BY <1>1, <3>1, <3>2 DEF Fit, Sendable
  <2> HIDE DEF f
  <2>5. ASSUME NEW g \in Endpoints
        PROVE  LET h == ssl'[Peer(g)] IN
               /\ WritesLast(conf', g) /\ ssl'[g].state \in Closed /\ ssl'[g].flight = <<>> =>
                    h.state = "HANDSHAKE_OVER"
               /\ ssl'[g].state # "HANDSHAKE_OVER" =>
                    /\ \A r \in net' : r.from = g => r.msg.type # "ApplicationData"
                    /\ \A r \in h.future_record : r.msg.type # "ApplicationData"
    <3>1. CASE g = e
      BY <1>2, <2>1, <2>3, <3>1 DEF f
    <3>2. CASE g = f
      BY <1>1, <1>2, <2>2, <2>4, <3>2
    <3> QED
      BY <1>1, <3>1, <3>2
  <2> QED
    BY <2>5 DEF Needed
<1>5. Cookies'
  <2>1. CASE e = "client"
    <3>1. ssl'["client"] = q /\ ssl'["server"] = ssl["server"]
      BY <1>2, <2>1 DEF Peer
    <3>2. ASSUME ~q.cookie
          PROVE  /\ ~ssl["server"].cookie
                 /\ \A r \in net' : r.from = "client" => ~r.msg.cookie
                 /\ \A m \in ToSet(q.flight) : ~m.cookie
      BY <2>1, <3>2 DEF Fit, Kept, Cookies, Sendable
    <3> QED
      BY <3>1, <3>2 DEF Cookies
  <2>2. CASE e = "server"
    <3>1. ssl'["server"] = q /\ ssl'["client"] = ssl["client"]
      BY <1>2, <2>2 DEF Peer
    <3>2. ASSUME ~ssl["client"].cookie
          PROVE  /\ ~q.cookie
                 /\ \A r \in net' : r.from = "client" => ~r.msg.cookie
                 /\ \A m \in ToSet(ssl["client"].flight) : ~m.cookie
      BY <2>2, <3>2 DEF Fit, Kept, Cookies, Sendable
    <3> QED
      BY <3>1, <3>2 DEF Cookies
  <2> QED
    BY <2>1, <2>2 DEF Endpoints
<1> QED
  BY <1>3, <1>4, <1>5 DEF Kept

\* A context is fit to stay.
LEMMA FitNow ==
  ASSUME TypeOK, Kept, NEW e \in Endpoints PROVE Fit(e, ssl[e])
<1>1. e = "client" /\ ~ssl[e].cookie => \A m \in ToSet(ssl[e].flight) : ~m.cookie
  BY DEF Kept, Cookies
<1>2. e = "server" /\ ssl[e].cookie => ssl["client"].cookie
  BY DEF Kept, Cookies
<1>3. WritesLast(conf, e) /\ ssl[e].state \in Closed /\ ssl[e].flight = <<>> =>
        ssl[Peer(e)].state = "HANDSHAKE_OVER"
  BY DEF Kept, Needed
<1> QED
  BY <1>1, <1>2, <1>3 DEF Fit, Kept, TypeOK

\* Two contexts that differ in nothing that matters to this but the timer.
Like(p, q) ==
  /\ q.state = p.state /\ q.flight = p.flight /\ q.cookie = p.cookie
  /\ q.handshake = p.handshake /\ q.out_msg_seq = p.out_msg_seq
  /\ q.in_msg_seq = p.in_msg_seq /\ q.in_flight_start_seq = p.in_flight_start_seq
  /\ q.ret = p.ret /\ q.retransmit_timeout = p.retransmit_timeout
  /\ q.future_record = p.future_record

\* A flight is sent by a context that is fit, and is so afterwards.
LEMMA TransmittedFit ==
  ASSUME TypeOK, NEW e \in Endpoints, NEW q, Fit(e, q)
  PROVE  LET t == FlightTransmitted(q) IN Fit(e, t) /\ t.flight = q.flight /\ t.state = q.state
                                          /\ t.cookie = q.cookie
<1> DEFINE w == SwapEpochs(q)
           s == IF HasFinished(q) THEN q ELSE w
           b == IF q.state = "HANDSHAKE_OVER" THEN s.timer ELSE q.retransmit_timeout # 0
           t == FlightTransmitted(q)
<1>1. q \in Contexts /\ t \in Contexts /\ w \in Contexts
  BY SwapTyping, FlightTransmittedTyping DEF Fit
<1>2. Like(q, w) /\ w.timer = q.timer
  BY <1>1 DEF SwapEpochs, Contexts, Like
<1>3. t = [s EXCEPT !.timer = b]
  BY DEF FlightTransmitted
<1> HIDE DEF w
<1>4. s \in Contexts /\ Like(q, s) /\ s.timer = q.timer
  BY <1>1, <1>2 DEF Like
<1> HIDE DEF s, b
<1>5. Like(s, t) /\ t.timer = b
  BY <1>3, <1>4 DEF Contexts, Like
<1> HIDE DEF t
<1>6. Timed(e, t)
  <2>1. Timed(e, q)
    BY DEF Fit, Ready
  <2> QED
    BY <1>4, <1>5, <2>1 DEF Timed, Like, b
<1>7. Ready(conf, e, t)
  <2>1. Whole(conf, e, q) /\ Asked(conf, e, q) /\ (q.state # "HANDSHAKE_OVER" => q.handshake)
    BY DEF Fit, Ready
  <2>2. Whole(conf, e, t)
    BY <1>4, <1>5, <2>1 DEF Whole, Covers, HasFinished, Like
  <2>3. Asked(conf, e, t)
    BY <1>4, <1>5, <2>1 DEF Asked, Like
  <2> QED
    BY <1>4, <1>5, <1>6, <2>1, <2>2, <2>3 DEF Ready, Like
<1>8. Fit(e, t)
  BY <1>1, <1>4, <1>5, <1>7 DEF Fit, Like
<1> QED
  BY <1>4, <1>5, <1>8 DEF t, Like

\* A step to a context that is fit, with or without its flight.
LEMMA StepKept ==
  ASSUME TypeOK, FirstSession', Kept, NEW e \in Endpoints, NEW q, Fit(e, q),
         SetContext(e, q) \/ FlightTransmit(e, q)
  PROVE  Kept'
<1>1. CASE SetContext(e, q)
  BY <1>1, FitKept DEF SetContext
<1>2. CASE FlightTransmit(e, q)
  <2> DEFINE t == FlightTransmitted(q)
             n == [q EXCEPT !.ret = "null flight"]
  <2>1. q \in Contexts
    BY DEF Fit
  <2>2. q.flight # <<>>
    <3> SUFFICES ASSUME q.flight = <<>> PROVE FALSE
      OBVIOUS
    <3>1. ssl' = [ssl EXCEPT ![e] = n]
      BY <1>2 DEF FlightTransmit
    <3>2. ssl'[e].ret = "null flight"
      BY <2>1, <3>1 DEF TypeOK, Contexts
    <3> QED
      BY <3>2 DEF FirstSession, EndpointInv
  <2>3. ssl' = [ssl EXCEPT ![e] = t] /\ net' = net \cup FlightRecords(e, q) /\ conf' = conf
    BY <1>2, <2>2 DEF FlightTransmit
  <2>4. Fit(e, t) /\ t.flight = q.flight /\ t.state = q.state /\ t.cookie = q.cookie
    BY TransmittedFit
  <2> HIDE DEF t
  <2>5. ssl'[e] = t
    BY <2>3 DEF TypeOK
  <2>6. \A m \in ToSet(q.flight) : m.type # "ApplicationData"
    <3>1. \A i \in DOMAIN t.flight : t.flight[i] = ChangeCipherSpec \/ Says(conf, e, t.flight[i])
      BY <2>3, <2>5 DEF FirstSession, EndpointInv, FlightInv
    <3>2. \A m : Says(conf, e, m) => m.type # "ApplicationData"
      BY SaidIsHandshake DEF IsHandshake, TypeOK
    <3> QED
      BY <2>4, <3>1, <3>2, PlainMessages DEF ToSet
  <2>7. \A r \in FlightRecords(e, q) : r.from = e /\ r.msg \in ToSet(q.flight)
    BY DEF FlightRecords, Record
  <2>8. e = "client" /\ ~t.cookie => \A m \in ToSet(q.flight) : ~m.cookie
    BY <2>4 DEF Fit
  <2>9. \A r \in net' : r \in net \/ Sendable(e, t, r)
    BY <2>3, <2>6, <2>7, <2>8 DEF Sendable
  <2> QED
    BY <2>3, <2>4, <2>9, FitKept
<1> QED
  BY <1>1, <1>2

\* What a read leaves alone that goes on, and what it makes of a context whose
\* flight it ends.
Carried(e, p, q) ==
  /\ q.flight = p.flight /\ q.handshake = p.handshake /\ q.cookie = p.cookie
  /\ q.in_flight_start_seq = p.in_flight_start_seq /\ q.out_msg_seq = p.out_msg_seq
  /\ Timed(e, p) => Timed(e, q)
  /\ \/ q.state = p.state /\ q.in_msg_seq = p.in_msg_seq
     \/ /\ p.state \in Reads[e] /\ q.state \in Reads[e]
        /\ e = "client" => (ClientHasFinished(conf, p.state) <=> ClientHasFinished(conf, q.state))
Ended(e, p, q) ==
  /\ q.flight = <<>> /\ q.handshake = p.handshake /\ q.in_flight_start_seq = q.in_msg_seq
  /\ p.state # "HANDSHAKE_OVER" /\ q.state \notin Reads[e] \cup {"HANDSHAKE_OVER"}
  /\ ~(WritesLast(conf, e) /\ q.state \in Closed)
  /\ q.cookie = p.cookie \/ (IF e = "client" THEN q.cookie ELSE q.cookie => ssl["client"].cookie)

\* One read after another.
LEMMA CarriedOn ==
  ASSUME NEW e \in Endpoints, NEW p, NEW q, NEW r, Carried(e, p, q)
  PROVE  /\ Carried(e, q, r) => Carried(e, p, r)
         /\ Ended(e, q, r) => Ended(e, p, r)
<1>1. ASSUME Carried(e, q, r) PROVE Carried(e, p, r)
  BY <1>1 DEF Carried
<1>2. ASSUME Ended(e, q, r) PROVE Ended(e, p, r)
  <2>1. "HANDSHAKE_OVER" \notin Reads[e]
    BY DEF Reads, Endpoints
  <2>2. p.state # "HANDSHAKE_OVER"
    BY <1>2, <2>1 DEF Carried, Ended
  <2> QED
    BY <1>2, <2>2 DEF Carried, Ended
<1> QED
  BY <1>1, <1>2

\* A context that goes on is fit.
LEMMA CarriedFit ==
  ASSUME TypeOK, Kept, NEW e \in Endpoints, NEW q \in Contexts, Carried(e, ssl[e], q),
         \A r \in q.future_record : r \in ssl[e].future_record \/ (r \in net /\ r.from # e)
  PROVE  Fit(e, q)
<1> DEFINE p == ssl[e]
<1>1. /\ Whole(conf, e, p) /\ Timed(e, p) /\ Asked(conf, e, p)
      /\ p.state # "HANDSHAKE_OVER" => p.handshake
  BY DEF Kept, Ready
<1>2. Fit(e, p)
  BY FitNow
<1>3. /\ q.flight = p.flight /\ q.handshake = p.handshake /\ q.cookie = p.cookie
      /\ q.in_flight_start_seq = p.in_flight_start_seq /\ q.out_msg_seq = p.out_msg_seq
      /\ Timed(e, q)
  BY <1>1 DEF Carried
<1>4. CASE q.state = p.state /\ q.in_msg_seq = p.in_msg_seq
  <2>1. Whole(conf, e, q) /\ Asked(conf, e, q)
    BY <1>1, <1>3, <1>4 DEF Whole, Covers, HasFinished, Asked
  <2>2. Ready(conf, e, q)
    BY <1>1, <1>3, <1>4, <2>1 DEF Ready
  <2> HIDE DEF p
  <2> QED
    BY <1>2, <1>3, <1>4, <2>2 DEF Fit, p
<1>5. CASE /\ p.state \in Reads[e] /\ q.state \in Reads[e]
           /\ e = "client" => (ClientHasFinished(conf, p.state) <=> ClientHasFinished(conf, q.state))
  <2>1. /\ q.state \notin Passed(e) /\ q.state \notin Closed /\ p.state \notin Closed
        /\ p.state # "HANDSHAKE_OVER"
    BY <1>5 DEF Reads, Passed, Closed, Endpoints
  <2>2. FlightStart(conf, e, q.state, One(q.cookie)) = FlightStart(conf, e, p.state, One(p.cookie))
    BY <1>3, <1>5, <2>1 DEF FlightStart
  <2>3. Whole(conf, e, q) /\ Asked(conf, e, q)
    BY <1>1, <1>3, <2>1, <2>2 DEF Whole, Covers, HasFinished, Asked
  <2>4. Ready(conf, e, q)
    BY <1>1, <1>3, <2>1, <2>3 DEF Ready
  <2> HIDE DEF p
  <2> QED
    BY <1>2, <1>3, <2>1, <2>4 DEF Fit, p
<1> QED
  BY <1>4, <1>5 DEF Carried

\* So is a context whose flight has ended.
LEMMA EndedFit ==
  ASSUME TypeOK, Kept, NEW e \in Endpoints, NEW q \in Contexts, Ended(e, ssl[e], q),
         q.future_record = {}
  PROVE  Fit(e, q)
<1> DEFINE p == ssl[e]
<1>1. p.state # "HANDSHAKE_OVER" => p.handshake
  BY DEF Kept, Ready
<1>2. Fit(e, p)
  BY FitNow
<1>3. Ready(conf, e, q)
  BY <1>1 DEF Ended, Ready, Whole, Timed, Asked
<1>4. ToSet(q.flight) = {}
  <2>1. q.flight = <<>>
    BY DEF Ended
  <2>2. \A m : m \notin ToSet(<<>>)
    BY DEF ToSet
  <2> QED
    BY <2>1, <2>2
<1>5. e = "client" /\ ~q.cookie => ~p.cookie
  BY DEF Ended
<1>6. e = "server" /\ q.cookie => ssl["client"].cookie
  BY <1>2 DEF Ended, Fit
<1> QED
  BY <1>3, <1>4, <1>5, <1>6 DEF Ended, Fit

\* The helpers of reading carry a context on, or end its flight.
LEMMA CarryHelpers ==
  ASSUME NEW e \in Endpoints, NEW p \in Contexts
  PROVE  /\ Carried(e, p, Fatal(p)) /\ Fatal(p).future_record = p.future_record
         /\ \A m : p.state \in Reads[e] =>
              /\ Carried(e, p, UpdateHandshakeStatus(p, m))
              /\ UpdateHandshakeStatus(p, m).future_record = p.future_record
         /\ \A state \in States : LET g == Goto(p, state) IN
              /\ g \in Contexts /\ g.state = state /\ g.flight = p.flight /\ g.handshake = p.handshake
              /\ g.cookie = p.cookie /\ g.in_flight_start_seq = p.in_flight_start_seq
              /\ g.out_msg_seq = p.out_msg_seq /\ g.in_msg_seq = p.in_msg_seq /\ g.ret = p.ret
              /\ g.timer = p.timer /\ g.retransmit_timeout = p.retransmit_timeout
              /\ g.future_record = p.future_record
         /\ LET d == RecvFlightCompleted(p) IN
              /\ d.state = p.state /\ d.flight = <<>> /\ d.handshake = p.handshake
              /\ d.cookie = p.cookie /\ d.in_flight_start_seq = d.in_msg_seq
              /\ d.future_record = {}
<1>1. Carried(e, p, Fatal(p)) /\ Fatal(p).future_record = p.future_record
  <2>1. /\ Fatal(p).state = p.state /\ Fatal(p).flight = p.flight /\ Fatal(p).handshake = p.handshake
        /\ Fatal(p).cookie = p.cookie /\ Fatal(p).in_flight_start_seq = p.in_flight_start_seq
        /\ Fatal(p).out_msg_seq = p.out_msg_seq /\ Fatal(p).in_msg_seq = p.in_msg_seq
        /\ Fatal(p).ret = "fatal" /\ Fatal(p).future_record = p.future_record
    BY DEF Fatal, Contexts
  <2> QED
    BY <2>1 DEF Carried, Timed
<1>2. ASSUME NEW m, p.state \in Reads[e]
      PROVE  /\ Carried(e, p, UpdateHandshakeStatus(p, m))
             /\ UpdateHandshakeStatus(p, m).future_record = p.future_record
  <2> DEFINE u == UpdateHandshakeStatus(p, m)
  <2>1. /\ u.state = p.state /\ u.flight = p.flight /\ u.handshake = p.handshake
        /\ u.cookie = p.cookie /\ u.in_flight_start_seq = p.in_flight_start_seq
        /\ u.out_msg_seq = p.out_msg_seq /\ u.ret = p.ret /\ u.timer = p.timer
        /\ u.retransmit_timeout = p.retransmit_timeout /\ u.future_record = p.future_record
    BY DEF UpdateHandshakeStatus, Contexts
  <2> HIDE DEF u
  <2> QED
    BY <1>2, <2>1 DEF Carried, Timed, u
<1>3. ASSUME NEW state \in States
      PROVE  LET g == Goto(p, state) IN
             /\ g \in Contexts /\ g.state = state /\ g.flight = p.flight /\ g.handshake = p.handshake
             /\ g.cookie = p.cookie /\ g.in_flight_start_seq = p.in_flight_start_seq
             /\ g.out_msg_seq = p.out_msg_seq /\ g.in_msg_seq = p.in_msg_seq /\ g.ret = p.ret
             /\ g.timer = p.timer /\ g.retransmit_timeout = p.retransmit_timeout
             /\ g.future_record = p.future_record
  BY GotoTyping DEF Goto, Contexts
<1>4. LET d == RecvFlightCompleted(p) IN
      /\ d.state = p.state /\ d.flight = <<>> /\ d.handshake = p.handshake
      /\ d.cookie = p.cookie /\ d.in_flight_start_seq = d.in_msg_seq
      /\ d.future_record = {}
  BY DEF RecvFlightCompleted, Contexts
<1> QED
  BY <1>1, <1>2, <1>3, <1>4

\* Where a message that is parsed leads.
Leads(e, p, q) ==
  \/ Carried(e, p, q) /\ q.future_record \subseteq p.future_record
  \/ Ended(e, p, q) /\ q.future_record = {}

\* What a message that is parsed makes of a context.
LEMMA ParseLeads ==
  ASSUME conf \in Confs, NEW e \in Endpoints, NEW p \in Contexts, p.state \in Reads[e],
         NEW m \in Messages
  PROVE  Leads(e, p, Parse(e, p, m))
<1> DEFINE q == Parse(e, p, m)
           Same(g) == /\ g.flight = p.flight /\ g.handshake = p.handshake /\ g.cookie = p.cookie
                      /\ g.in_flight_start_seq = p.in_flight_start_seq
                      /\ g.out_msg_seq = p.out_msg_seq /\ g.ret = p.ret /\ g.timer = p.timer
                      /\ g.retransmit_timeout = p.retransmit_timeout
                      /\ g.future_record = p.future_record
<1>1. Leads(e, p, Fatal(p))
  BY CarryHelpers DEF Leads
<1>2. ASSUME NEW type, NEW r, Leads(e, p, r) PROVE Leads(e, p, Expect(p, m, type, r))
  BY <1>1, <1>2 DEF Expect
<1>3. ASSUME NEW g, Same(g), g.state \in Reads[e],
             e = "client" => (ClientHasFinished(conf, p.state) <=> ClientHasFinished(conf, g.state))
      PROVE  Leads(e, p, g)
  BY <1>3 DEF Leads, Carried, Timed
<1>4. ASSUME NEW g \in Contexts, g.handshake = p.handshake,
             g.cookie = p.cookie \/ (e = "client" /\ g.cookie),
             g.state \notin Reads[e] \cup {"HANDSHAKE_OVER"},
             ~(WritesLast(conf, e) /\ g.state \in Closed)
      PROVE  Leads(e, p, RecvFlightCompleted(g))
  <2> DEFINE d == RecvFlightCompleted(g)
  <2>1. /\ d.state = g.state /\ d.flight = <<>> /\ d.handshake = g.handshake
        /\ d.cookie = g.cookie /\ d.in_flight_start_seq = d.in_msg_seq /\ d.future_record = {}
    BY CarryHelpers
  <2> HIDE DEF d
  <2>2. p.state # "HANDSHAKE_OVER"
    BY DEF Reads, Endpoints
  <2>3. Ended(e, p, d)
    BY <1>4, <2>1, <2>2 DEF Ended
  <2> QED
    BY <2>1, <2>3 DEF Leads, d
<1>5. CASE p.state = "SERVER_HELLO"
  <2> DEFINE h == [p EXCEPT !.state = "CLIENT_HELLO", !.checksum = <<>>, !.cookie = TRUE]
             s == IF ~conf.resume THEN "SERVER_CERTIFICATE"
                  ELSE IF conf.ticket THEN "NEW_SESSION_TICKET" ELSE "SERVER_CHANGE_CIPHER_SPEC"
             r == [p EXCEPT !.session = m.session, !.new_session_ticket = conf.ticket, !.state = s]
  <2>1. e = "client"
    BY <1>5 DEF Reads, Endpoints
  <2>2. q = IF m.type = "HelloVerifyRequest" THEN RecvFlightCompleted(h)
            ELSE Expect(p, m, "ServerHello", r)
    <3>1. q = ParseServerHello(p, m)
      BY <1>5, ParseCases
    <3> QED
      BY <3>1 DEF ParseServerHello, ParseHelloVerifyRequest
  <2>3. /\ h \in Contexts /\ h.handshake = p.handshake /\ h.cookie = TRUE
        /\ h.state = "CLIENT_HELLO"
    BY Empties DEF Contexts, States
  <2>4. s \in Reads[e] /\ ~ClientHasFinished(conf, p.state) /\ ~ClientHasFinished(conf, s)
    BY <1>5, <2>1 DEF Reads, ClientHasFinished, Closed
  <2> HIDE DEF h, s, Same
  <2>5. Same(r) /\ r.state = s
    BY DEF Same, Contexts
  <2> HIDE DEF r, q
  <2>6. Leads(e, p, r)
    BY <1>3, <2>4, <2>5
  <2>7. "CLIENT_HELLO" \notin Reads[e] \cup {"HANDSHAKE_OVER"} \cup Closed
    BY <2>1 DEF Reads, Closed
  <2>8. Leads(e, p, RecvFlightCompleted(h))
    BY <1>4, <2>1, <2>3, <2>7
  <2>9. Leads(e, p, q)
    BY <1>2, <2>2, <2>6, <2>8
  <2> QED
    BY <2>9 DEF q
<1>6. ASSUME NEW type,
             NEW state \in {"CERTIFICATE_REQUEST", "CLIENT_KEY_EXCHANGE",
                            "CERTIFICATE_VERIFY", "CLIENT_CHANGE_CIPHER_SPEC"},
             state \in Reads[e], ~ClientHasFinished(conf, p.state), q = Expect(p, m, type, Goto(p, state))
      PROVE  Leads(e, p, q)
  <2>1. state \in States /\ ~ClientHasFinished(conf, state)
    BY <1>6 DEF States, ClientHasFinished, Closed
  <2>2. Same(Goto(p, state)) /\ Goto(p, state).state = state
    BY <2>1, CarryHelpers
  <2> HIDE DEF Same, q
  <2> QED
    BY <1>2, <1>3, <1>6, <2>1, <2>2
<1>7. CASE p.state \in {"SERVER_CERTIFICATE", "CLIENT_CERTIFICATE"}
  <2> DEFINE state == IF e = "client" THEN "CERTIFICATE_REQUEST" ELSE "CLIENT_KEY_EXCHANGE"
  <2>1. q = Expect(p, m, "Certificate", Goto(p, state))
    BY <1>7, ParseCases DEF ParseCertificate
  <2>2. /\ state \in {"CERTIFICATE_REQUEST", "CLIENT_KEY_EXCHANGE"} /\ state \in Reads[e]
        /\ ~ClientHasFinished(conf, p.state)
    BY <1>7 DEF Reads, Endpoints, ClientHasFinished, Closed
  <2> HIDE DEF q, state
  <2>3. Leads(e, p, q)
    BY <1>6, <2>1, <2>2
  <2> QED
    BY <2>3 DEF q
<1>8. CASE p.state = "CLIENT_KEY_EXCHANGE"
  <2> DEFINE state == IF conf.auth THEN "CERTIFICATE_VERIFY" ELSE "CLIENT_CHANGE_CIPHER_SPEC"
  <2>1. q = Expect(p, m, "ClientKeyExchange", Goto(p, state))
    BY <1>8, ParseCases DEF ParseClientKeyExchange
  <2>2. /\ state \in {"CERTIFICATE_VERIFY", "CLIENT_CHANGE_CIPHER_SPEC"} /\ state \in Reads[e]
        /\ ~ClientHasFinished(conf, p.state)
    BY <1>8 DEF Reads, Endpoints, ClientHasFinished, Closed
  <2> HIDE DEF q, state
  <2>3. Leads(e, p, q)
    BY <1>6, <2>1, <2>2
  <2> QED
    BY <2>3 DEF q
<1>9. CASE p.state = "CERTIFICATE_VERIFY"
  <2>1. q = Expect(p, m, "CertificateVerify", Goto(p, "CLIENT_CHANGE_CIPHER_SPEC"))
    BY <1>9, ParseCases DEF ParseCertificateVerify
  <2>2. "CLIENT_CHANGE_CIPHER_SPEC" \in Reads[e] /\ ~ClientHasFinished(conf, p.state)
    BY <1>9 DEF Reads, Endpoints, ClientHasFinished, Closed
  <2> HIDE DEF q
  <2>3. Leads(e, p, q)
    BY <1>6, <2>1, <2>2
  <2> QED
    BY <2>3 DEF q
<1>10. CASE p.state = "SERVER_HELLO_DONE"
  <2> DEFINE g == Goto(p, "CLIENT_CERTIFICATE")
  <2>1. q = Expect(p, m, "ServerHelloDone", RecvFlightCompleted(g))
    BY <1>10, ParseCases DEF ParseServerHelloDone
  <2>2. e = "client" /\ "CLIENT_CERTIFICATE" \in States
    BY <1>10 DEF Reads, Endpoints, States
  <2>3. /\ g \in Contexts /\ g.state = "CLIENT_CERTIFICATE" /\ g.handshake = p.handshake
        /\ g.cookie = p.cookie
    BY <2>2, CarryHelpers
  <2>4. "CLIENT_CERTIFICATE" \notin Reads[e] \cup {"HANDSHAKE_OVER"} \cup Closed
    BY <2>2 DEF Reads, Closed
  <2> HIDE DEF q, g
  <2>5. Leads(e, p, q)
    BY <1>2, <1>4, <2>1, <2>3, <2>4
  <2> QED
    BY <2>5 DEF q
<1>11. CASE p.state = "CERTIFICATE_REQUEST"
  <2> DEFINE r == IF m.type = "CertificateRequest" THEN [p EXCEPT !.client_auth = TRUE]
                  ELSE [p EXCEPT !.keep_current_message = <<m>>]
             s == [r EXCEPT !.state = "SERVER_HELLO_DONE"]
  <2>1. /\ e = "client" /\ ~ClientHasFinished(conf, p.state)
        /\ ~ClientHasFinished(conf, "SERVER_HELLO_DONE") /\ "SERVER_HELLO_DONE" \in Reads[e]
    BY <1>11 DEF Reads, Endpoints, ClientHasFinished, Closed
  <2>2. q = s
    BY <1>11, ParseCases DEF ParseCertificateRequest
  <2>3. <<m>> \in Seq(Messages)
    OBVIOUS
  <2>4. r \in Contexts /\ Same(r)
    BY <2>3 DEF Contexts
  <2> HIDE DEF r, Same
  <2>5. Same(s) /\ s.state = "SERVER_HELLO_DONE"
    BY <2>4 DEF Same, Contexts
  <2> HIDE DEF s, q
  <2>6. Leads(e, p, q)
    BY <1>3, <2>1, <2>2, <2>5
  <2> QED
    BY <2>6 DEF q
<1>12. CASE p.state = "NEW_SESSION_TICKET"
  <2> DEFINE r == [p EXCEPT !.new_session_ticket = FALSE, !.state = "SERVER_CHANGE_CIPHER_SPEC"]
  <2>1. /\ "SERVER_CHANGE_CIPHER_SPEC" \in Reads[e]
        /\ ClientHasFinished(conf, p.state) <=> ClientHasFinished(conf, "SERVER_CHANGE_CIPHER_SPEC")
    BY <1>12 DEF Reads, Endpoints, ClientHasFinished, Closed
  <2>2. q = Expect(p, m, "NewSessionTicket", r)
    <3>1. q = ParseNewSessionTicket(p, m)
      BY <1>12, ParseCases
    <3> QED
      BY <3>1 DEF ParseNewSessionTicket
  <2> HIDE DEF Same
  <2>3. Same(r) /\ r.state = "SERVER_CHANGE_CIPHER_SPEC"
    BY DEF Same, Contexts
  <2> HIDE DEF r, q
  <2>4. Leads(e, p, q)
    BY <1>2, <1>3, <2>1, <2>2, <2>3
  <2> QED
    BY <2>4 DEF q
<1>13. CASE p.state \in CcsStates
  <2> DEFINE t == IF e = "client" THEN "SERVER_FINISHED" ELSE "CLIENT_FINISHED"
             r == [p EXCEPT !.in_epoch = @ + 1, !.state = t]
  <2>1. t \in Reads[e]
    BY DEF Reads, Endpoints
  <2>2. e = "client" => (ClientHasFinished(conf, p.state) <=> ClientHasFinished(conf, t))
    BY <1>13 DEF ClientHasFinished, Closed, CcsStates, Reads
  <2>3. q = Expect(p, m, "ChangeCipherSpec", r)
    <3>1. q = ParseChangeCipherSpec(e, p, m)
      BY <1>13, ParseCases
    <3> QED
      BY <3>1 DEF ParseChangeCipherSpec
  <2> HIDE DEF t, Same
  <2>4. Same(r) /\ r.state = t
    BY DEF Same, Contexts
  <2> HIDE DEF r, q
  <2>5. Leads(e, p, q)
    BY <1>2, <1>3, <2>1, <2>2, <2>3, <2>4
  <2> QED
    BY <2>5 DEF q
<1>14. CASE p.state \in FinishedStates
  <2> DEFINE t == IF e = "client"
                  THEN IF conf.resume THEN "CLIENT_CHANGE_CIPHER_SPEC" ELSE "HANDSHAKE_WRAPUP"
                  ELSE IF conf.resume THEN "HANDSHAKE_WRAPUP" ELSE "SERVER_CHANGE_CIPHER_SPEC"
             g == Goto(p, t)
  <2>1. t \in States
    BY DEF States
  <2>2. q = Fatal(p) \/ q = RecvFlightCompleted(g)
    BY <1>14, ParseCases DEF ParseFinished
  <2>3. /\ t \notin Reads[e] \cup {"HANDSHAKE_OVER"}
        /\ ~(WritesLast(conf, e) /\ t \in Closed)
    BY DEF Reads, WritesLast, Closed, Endpoints
  <2> HIDE DEF t
  <2>4. g \in Contexts /\ g.state = t /\ g.handshake = p.handshake /\ g.cookie = p.cookie
    BY <2>1, CarryHelpers
  <2> HIDE DEF g, q
  <2>5. Leads(e, p, q)
    BY <1>1, <1>4, <2>2, <2>3, <2>4
  <2> QED
    BY <2>5 DEF q
<1> QED
  BY <1>5, <1>7, <1>8, <1>9, <1>10, <1>11, <1>12, <1>13, <1>14, ReadingStates

\* The handshake is freed when the other side needs it no longer.
LEMMA FreeFit ==
  ASSUME TypeOK, Kept, NEW e \in Endpoints, NEW v \in Contexts, v.state = "HANDSHAKE_OVER",
         ssl[e].state \in Closed, v.cookie = ssl[e].cookie, v.in_msg_seq = ssl[e].in_msg_seq,
         v.in_flight_start_seq = ssl[e].in_flight_start_seq,
         WritesLast(conf, e) => ssl[Peer(e)].state = "HANDSHAKE_OVER"
  PROVE  Fit(e, FreeHandshake(v))
<1> DEFINE q == FreeHandshake(v)
           p == ssl[e]
<1>1. /\ q \in Contexts /\ q.state = "HANDSHAKE_OVER" /\ q.flight = <<>> /\ q.future_record = {}
      /\ q.cookie = v.cookie /\ q.in_msg_seq = v.in_msg_seq
      /\ q.in_flight_start_seq = v.in_flight_start_seq
  BY FreeTyping DEF FreeHandshake, Contexts
<1> HIDE DEF q
<1>2. Asked(conf, e, p) /\ Fit(e, p)
  BY FitNow DEF Kept, Ready
<1>3. q.state \notin Reads[e] /\ p.state \in Passed(e)
  BY <1>1 DEF Reads, Endpoints, Passed
<1>4. Ready(conf, e, q)
  BY <1>1, <1>2, <1>3 DEF Ready, Whole, Timed, Asked
<1>5. ToSet(q.flight) = {}
  <2>1. \A m : m \notin ToSet(<<>>)
    BY DEF ToSet
  <2> QED
    BY <1>1, <2>1
<1>6. Fit(e, q)
  BY <1>1, <1>2, <1>4, <1>5 DEF Fit
<1> QED
  BY <1>6 DEF q

\* A step of e that sends nothing but its flight.
Steps(e) == \E q : Fit(e, q) /\ (SetContext(e, q) \/ FlightTransmit(e, q))

\* v is ssl[e] but for what the read that comes before has changed.
LEMMA MessageFits ==
  ASSUME TypeOK, Kept, NEW e \in Endpoints, NEW v \in Contexts, Carried(e, ssl[e], v),
         v.state = ssl[e].state, v.in_msg_seq = ssl[e].in_msg_seq,
         v.future_record \subseteq ssl[e].future_record,
         v.state \in Reads[e] \cup {"HANDSHAKE_OVER"},
         NEW m \in Messages, HandleMessage(e, v, m),
         m.type = "ApplicationData" => ssl[Peer(e)].state = "HANDSHAKE_OVER"
  PROVE  Steps(e)
<1>1. ASSUME NEW q \in Contexts, Carried(e, ssl[e], q),
             q.future_record \subseteq ssl[e].future_record,
             SetContext(e, q) \/ FlightTransmit(e, q)
      PROVE  Steps(e)
  <2>1. Fit(e, q)
    BY <1>1, CarriedFit
  <2> QED
    BY <1>1, <2>1 DEF Steps
<1>2. CASE Passes(v, m) /\ SetContext(e, Parse(e, UpdateHandshakeStatus(v, m), m))
  <2> DEFINE u == UpdateHandshakeStatus(v, m)
             q == Parse(e, u, m)
  <2>1. v.state # "HANDSHAKE_OVER" /\ v.state \in Reads[e]
    BY <1>2 DEF Passes, CcsStates
  <2>2. u \in Contexts /\ u.state = v.state /\ conf \in Confs
    BY UpdateTyping, MildHelpers DEF TypeOK
  <2>3. Carried(e, v, u) /\ u.future_record = v.future_record
    BY <2>1, CarryHelpers
  <2>4. SetContext(e, q)
    BY <1>2
  <2> HIDE DEF u
  <2>5. Leads(e, u, q) /\ q \in Contexts
    BY <2>1, <2>2, ParseLeads, ParseTyping
  <2> HIDE DEF q
  <2>6. Carried(e, ssl[e], u)
    BY <2>3, CarriedOn
  <2>7. CASE Carried(e, u, q) /\ q.future_record \subseteq u.future_record
    <3>1. Carried(e, ssl[e], q)
      BY <2>6, <2>7, CarriedOn
    <3> QED
      BY <1>1, <2>3, <2>4, <2>5, <2>7, <3>1
  <2>8. CASE Ended(e, u, q) /\ q.future_record = {}
    <3>1. Fit(e, q)
      BY <2>5, <2>6, <2>8, CarriedOn, EndedFit
    <3> QED
      BY <2>4, <3>1 DEF Steps
  <2> QED
    BY <2>5, <2>7, <2>8 DEF Leads
<1>3. CASE ComesEarly(v, m) /\ SetContext(e, BufferMessage(v, m))
  <2> DEFINE q == BufferMessage(v, m)
  <2>1. q \in Contexts
    BY BufferTyping
  <2>2. /\ q.flight = v.flight /\ q.handshake = v.handshake /\ q.cookie = v.cookie
        /\ q.in_flight_start_seq = v.in_flight_start_seq /\ q.out_msg_seq = v.out_msg_seq
        /\ q.state = v.state /\ q.in_msg_seq = v.in_msg_seq
        /\ q.ret = v.ret /\ q.timer = v.timer /\ q.retransmit_timeout = v.retransmit_timeout
        /\ q.future_record = v.future_record
    BY DEF BufferMessage, Contexts
  <2>3. SetContext(e, q)
    BY <1>3
  <2> HIDE DEF q
  <2>4. Carried(e, v, q)
    BY <2>2 DEF Carried, Timed
  <2>5. Carried(e, ssl[e], q)
    BY <2>4, CarriedOn
  <2> QED
    BY <1>1, <2>1, <2>2, <2>3, <2>5
<1>4. CASE AsksAgain(v, m) /\ FlightTransmit(e, v)
  BY <1>1, <1>4
<1>5. CASE /\ m.type = "ApplicationData" /\ v.state = "HANDSHAKE_OVER"
           /\ SetContext(e, FreeHandshake(v))
  <2>1. /\ ssl[e].state \in Closed /\ v.cookie = ssl[e].cookie
        /\ v.in_flight_start_seq = ssl[e].in_flight_start_seq
    BY <1>5 DEF Closed, Carried
  <2>2. Fit(e, FreeHandshake(v))
    BY <1>5, <2>1, FreeFit
  <2> QED
    BY <1>5, <2>2 DEF Steps
<1> QED
  BY <1>2, <1>3, <1>4, <1>5 DEF HandleMessage

\* A record that cannot be decrypted leaves everything but the result.
LEMMA RecordFits ==
  ASSUME TypeOK, Kept, NEW e \in Endpoints, NEW v \in Contexts, Carried(e, ssl[e], v),
         v.state = ssl[e].state, v.in_msg_seq = ssl[e].in_msg_seq,
         v.future_record \subseteq ssl[e].future_record,
         v.state \in Reads[e] \cup {"HANDSHAKE_OVER"},
         NEW r \in Records, HandleRecord(e, v, r),
         r.msg.type = "ApplicationData" => ssl[Peer(e)].state = "HANDSHAKE_OVER"
  PROVE  Steps(e)
<1>1. r.msg \in Messages
  BY DEF Records
<1>2. CASE HandleMessage(e, v, r.msg)
  BY <1>1, <1>2, MessageFits
<1>3. CASE SetContext(e, Fatal(v))
  <2>1. Carried(e, v, Fatal(v)) /\ Fatal(v).future_record = v.future_record /\ Fatal(v) \in Contexts
    BY CarryHelpers, FatalTyping
  <2>2. Carried(e, ssl[e], Fatal(v))
    BY <2>1, CarriedOn
  <2>3. Fit(e, Fatal(v))
    BY <2>1, <2>2, CarriedFit
  <2> QED
    BY <1>3, <2>3 DEF Steps
<1> QED
  BY <1>2, <1>3 DEF HandleRecord

\* Application data comes from a side whose handshake is over.
LEMMA DataTells ==
  ASSUME TypeOK, Kept, NEW e \in Endpoints, NEW r, r \in ssl[e].future_record \/ (r \in net /\ r.from # e),
         r.msg.type = "ApplicationData"
  PROVE  ssl[Peer(e)].state = "HANDSHAKE_OVER"
<1>1. Peer(e) \in Endpoints /\ Peer(Peer(e)) = e
  BY Others
<1>2. r \in net => r.from \in Endpoints
  BY DEF TypeOK, Records
<1>3. r \in net /\ r.from # e => r.from = Peer(e)
  BY <1>2, Others
<1> QED
  BY <1>1, <1>3 DEF Kept, Needed

\* Reading, from the buffers or from the network.
LEMMA ReadFits ==
  ASSUME TypeOK, FirstSession, Kept, NEW e \in Endpoints,
         ReadKept(e) \/ ReadBufferedMessage(e) \/ ReadBufferedRecord(e) \/ ReadRecord(e)
           \/ BufferFutureRecord(e)
  PROVE  Steps(e)
<1> DEFINE p == ssl[e]
           Same(v) == /\ v \in Contexts /\ v.flight = p.flight /\ v.handshake = p.handshake
                      /\ v.cookie = p.cookie /\ v.in_flight_start_seq = p.in_flight_start_seq
                      /\ v.out_msg_seq = p.out_msg_seq /\ v.state = p.state
                      /\ v.in_msg_seq = p.in_msg_seq /\ v.ret = p.ret /\ v.timer = p.timer
                      /\ v.retransmit_timeout = p.retransmit_timeout
<1>1. p \in Contexts /\ conf \in Confs
  BY ContextOf DEF TypeOK
<1>2. p.state \in Reads[e] \cup {"HANDSHAKE_OVER"}
  BY DEF ReadKept, ReadBufferedMessage, ReadBufferedRecord, ReadRecord, BufferFutureRecord, Waiting,
         Over
<1>3. ASSUME NEW v, Same(v) PROVE Carried(e, p, v)
  BY <1>3 DEF Carried, Timed
<1>4. CASE ReadKept(e)
  <2> DEFINE v == [p EXCEPT !.keep_current_message = <<>>]
             m == Head(p.keep_current_message)
             q == Parse(e, v, m)
  <2>1. Same(v) /\ v.future_record = p.future_record
    BY <1>1, Empties DEF Contexts
  <2>2. p.state \in Reads[e] /\ SetContext(e, q) /\ p.keep_current_message # <<>>
    BY <1>4 DEF ReadKept, Waiting
  <2>3. m \in Messages
    BY <2>2, ContextOf
  <2> HIDE DEF v, m
  <2>4. Leads(e, v, q) /\ q \in Contexts
    BY <1>1, <2>1, <2>2, <2>3, ParseLeads, ParseTyping
  <2> HIDE DEF q
  <2>5. Carried(e, p, v)
    BY <1>3, <2>1
  <2>6. CASE Carried(e, v, q) /\ q.future_record \subseteq v.future_record
    <3>1. Carried(e, p, q)
      BY <2>5, <2>6, CarriedOn
    <3>2. Fit(e, q)
      BY <2>1, <2>4, <2>6, <3>1, CarriedFit
    <3> QED
      BY <2>2, <3>2 DEF Steps
  <2>7. CASE Ended(e, v, q) /\ q.future_record = {}
    <3>1. Fit(e, q)
      BY <2>4, <2>5, <2>7, CarriedOn, EndedFit
    <3> QED
      BY <2>2, <3>1 DEF Steps
  <2> QED
    BY <2>4, <2>6, <2>7 DEF Leads
<1>5. CASE ReadBufferedMessage(e)
  <2>1. PICK m \in BufferedMessages(p) : HandleMessage(e, [p EXCEPT !.seen_ccs = @ /\ IsHandshake(m)], m)
    BY <1>5 DEF ReadBufferedMessage
  <2>2. m \in Messages
    BY ContextOf, PlainMessages DEF BufferedMessages
  <2> DEFINE b == p.seen_ccs /\ IsHandshake(m)
             v == [p EXCEPT !.seen_ccs = b]
  <2>3. b \in BOOLEAN
    BY <1>1, Zenon DEF Contexts
  <2>4. HandleMessage(e, v, m)
    BY <2>1
  <2>5. m.type # "ApplicationData"
    <3>1. m = ChangeCipherSpec \/ m \in p.hs
      BY DEF BufferedMessages
    <3>2. \A n \in p.hs : Says(conf, Peer(e), n)
      BY DEF FirstSession, EndpointInv, Early
    <3>3. m \in p.hs => IsHandshake(m)
      BY <1>1, <3>2, Others, SaidIsHandshake
    <3> QED
      BY <3>1, <3>3, PlainMessages DEF IsHandshake
  <2> HIDE DEF b
  <2>6. Same(v) /\ v.future_record = p.future_record
    BY <1>1, <2>3 DEF Contexts
  <2> HIDE DEF v
  <2>7. Carried(e, p, v)
    BY <1>3, <2>6
  <2> QED
    BY <1>2, <2>2, <2>4, <2>5, <2>6, <2>7, MessageFits
<1>6. CASE ReadBufferedRecord(e)
  <2> DEFINE v == [p EXCEPT !.future_record = {}]
  <2>1. PICK r \in BufferedRecords(p) : HandleRecord(e, v, r)
    BY <1>6 DEF ReadBufferedRecord
  <2>2. r \in Records /\ r \in p.future_record
    BY ContextOf DEF BufferedRecords
  <2>3. r.msg.type = "ApplicationData" => ssl[Peer(e)].state = "HANDSHAKE_OVER"
    BY <2>2, DataTells
  <2>4. Same(v) /\ v.future_record = {}
    BY <1>1 DEF Contexts
  <2> HIDE DEF v
  <2>5. Carried(e, p, v)
    BY <1>3, <2>4
  <2> QED
    BY <1>2, <2>1, <2>2, <2>3, <2>4, <2>5, RecordFits
<1>7. CASE ReadRecord(e)
  <2>1. PICK r \in net : r.from # e /\ HandleRecord(e, p, r)
    BY <1>7 DEF ReadRecord
  <2>2. r \in Records
    BY DEF TypeOK
  <2>3. r.msg.type = "ApplicationData" => ssl[Peer(e)].state = "HANDSHAKE_OVER"
    BY <2>1, DataTells
  <2>4. Carried(e, p, p)
    BY <1>1, <1>3
  <2> QED
    BY <1>1, <1>2, <2>1, <2>2, <2>3, <2>4, RecordFits
<1>8. CASE BufferFutureRecord(e)
  <2>1. PICK r \in net : r.from # e /\ SetContext(e, [p EXCEPT !.future_record = {r}])
    BY <1>8 DEF BufferFutureRecord
  <2> DEFINE q == [p EXCEPT !.future_record = {r}]
  <2>2. r \in Records
    BY DEF TypeOK
  <2>3. Same(q) /\ q.future_record = {r}
    BY <1>1, <2>2 DEF Contexts
  <2>4. SetContext(e, q)
    BY <2>1
  <2> HIDE DEF q
  <2>5. Carried(e, p, q)
    BY <1>3, <2>3
  <2>6. Fit(e, q)
    BY <2>1, <2>3, <2>5, CarriedFit
  <2> QED
    BY <2>4, <2>6 DEF Steps
<1> QED
  BY <1>4, <1>5, <1>6, <1>7, <1>8

\* A timeout leaves the timer running, or nobody waits.
LEMMA TimeFits ==
  ASSUME TypeOK, Kept, NEW e \in Endpoints, Waiting(e), TimeIsOver(e)
  PROVE  Steps(e)
<1> DEFINE p == ssl[e]
           doubled == IF conf.patient THEN p.retransmit_timeout ELSE p.retransmit_timeout + 1
           t == [p EXCEPT !.timer = FALSE, !.ret = "timeout"]
           r == [p EXCEPT !.retransmit_timeout = doubled]
           Same(q) == /\ q \in Contexts /\ q.flight = p.flight /\ q.handshake = p.handshake
                      /\ q.cookie = p.cookie /\ q.in_flight_start_seq = p.in_flight_start_seq
                      /\ q.out_msg_seq = p.out_msg_seq /\ q.state = p.state
                      /\ q.in_msg_seq = p.in_msg_seq /\ q.future_record = p.future_record
<1>1. p \in Contexts
  BY DEF TypeOK
<1>2. SetContext(e, t) \/ FlightTransmit(e, r)
  BY DEF TimeIsOver
<1>3. p.timer /\ p.retransmit_timeout # 0 /\ p.retransmit_timeout \in Nat
  BY <1>1 DEF Kept, Ready, Timed, Waiting, Contexts
<1>4. doubled \in Nat /\ doubled # 0
  <2> HIDE DEF p
  <2> QED
    BY <1>3
<1> HIDE DEF doubled
<1>5. Same(t) /\ t.ret = "timeout"
  BY <1>1 DEF Contexts, Returns
<1>6. Same(r) /\ r.timer = p.timer /\ r.retransmit_timeout = doubled
  BY <1>1, <1>4 DEF Contexts
<1> HIDE DEF t, r
<1>7. Carried(e, p, t)
  BY <1>5 DEF Carried, Timed
<1>8. Carried(e, p, r)
  BY <1>3, <1>4, <1>6 DEF Carried, Timed
<1>9. Fit(e, t) /\ Fit(e, r)
  BY <1>5, <1>6, <1>7, <1>8, CarriedFit
<1> QED
  BY <1>2, <1>9 DEF Steps

\* The end of the handshake keeps the flight that has been kept.
LEMMA WrapupFits ==
  ASSUME TypeOK, Kept, NEW e \in Endpoints, Wrapup(e)
  PROVE  Steps(e)
<1> DEFINE p == ssl[e]
           g == Goto(p, "HANDSHAKE_OVER")
           q == [g EXCEPT !.timer = FALSE]
<1>1. p \in Contexts /\ p.state = "HANDSHAKE_WRAPUP"
  BY DEF Wrapup, At, TypeOK
<1>2. SetContext(e, IF g.flight # <<>> THEN q ELSE FreeHandshake(g))
  BY DEF Wrapup
<1>3. /\ g \in Contexts /\ g.state = "HANDSHAKE_OVER" /\ g.flight = p.flight
      /\ g.handshake = p.handshake /\ g.cookie = p.cookie
      /\ g.in_flight_start_seq = p.in_flight_start_seq /\ g.out_msg_seq = p.out_msg_seq
      /\ g.in_msg_seq = p.in_msg_seq /\ g.future_record = p.future_record
  <2>1. "HANDSHAKE_OVER" \in States
    BY DEF States
  <2> QED
    BY <1>1, <2>1, CarryHelpers
<1> HIDE DEF g
<1>4. /\ q \in Contexts /\ q.state = "HANDSHAKE_OVER" /\ q.flight = p.flight
      /\ q.handshake = p.handshake /\ q.cookie = p.cookie
      /\ q.in_flight_start_seq = p.in_flight_start_seq /\ q.out_msg_seq = p.out_msg_seq
      /\ q.in_msg_seq = p.in_msg_seq /\ q.future_record = p.future_record
  BY <1>3 DEF Contexts
<1> HIDE DEF q
<1>5. /\ Whole(conf, e, p) /\ Asked(conf, e, p) /\ Fit(e, p)
      /\ WritesLast(conf, e) /\ p.flight = <<>> => ssl[Peer(e)].state = "HANDSHAKE_OVER"
  BY <1>1, FitNow DEF Kept, Ready, Needed, Closed
<1>6. CASE g.flight # <<>>
  <2>1. FlightStart(conf, e, q.state, One(q.cookie)) = FlightStart(conf, e, p.state, One(p.cookie))
    BY <1>1, <1>4 DEF FlightStart, ClientHasFinished, Closed
  <2>2. Whole(conf, e, q)
    BY <1>4, <1>5, <2>1 DEF Whole, Covers, HasFinished
  <2>3. {p.state, q.state} \subseteq Passed(e) /\ q.state \notin Reads[e]
    BY <1>1, <1>4 DEF Passed, Closed, Reads, Endpoints
  <2>4. Asked(conf, e, q) /\ Timed(e, q)
    BY <1>4, <1>5, <2>3 DEF Asked, Timed
  <2>5. Ready(conf, e, q)
    BY <1>4, <2>2, <2>4 DEF Ready
  <2>6. Fit(e, q)
    BY <1>3, <1>4, <1>5, <1>6, <2>5 DEF Fit
  <2> QED
    BY <1>2, <1>6, <2>6 DEF Steps
<1>7. CASE g.flight = <<>>
  <2>1. Fit(e, FreeHandshake(g))
    BY <1>1, <1>3, <1>5, <1>7, FreeFit DEF Closed
  <2> QED
    BY <1>2, <1>7, <2>1 DEF Steps
<1> QED
  BY <1>6, <1>7

\* ssl_parse_client_hello
LEMMA HelloFits ==
  ASSUME TypeOK, Kept, NEW cookie \in BOOLEAN, ParseClientHello(cookie)
  PROVE  Steps("server")
<1> DEFINE p == ssl["server"]
<1>1. p \in Contexts /\ "server" \in Endpoints /\ conf \in Confs
  BY DEF TypeOK, Endpoints
<1>2. PICK r \in net : /\ r.from = "client"
                       /\ \/ SetContext("server", ClientHelloParsed(p, r.msg))
                          \/ SetContext("server", Fatal(p))
  BY DEF ParseClientHello
<1>3. r.msg \in Messages /\ p.state = "CLIENT_HELLO"
  BY DEF TypeOK, Records, ParseClientHello
<1>4. CASE SetContext("server", ClientHelloParsed(p, r.msg))
  <2> DEFINE m == r.msg
             w == [p EXCEPT !.out_msg_seq = m.seq, !.in_msg_seq = m.seq + 1, !.checksum = <<Digest(m)>>,
                            !.cookie = m.cookie, !.new_session_ticket = conf.ticket,
                            !.state = "SERVER_HELLO"]
             q == ClientHelloParsed(p, m)
  <2>1. q \in Contexts
    BY <1>1, <1>3, ClientHelloTyping
  <2>2. /\ q.state = "SERVER_HELLO" /\ q.flight = <<>> /\ q.future_record = {}
        /\ q.handshake = p.handshake /\ q.cookie = m.cookie
        /\ q.in_flight_start_seq = q.in_msg_seq
    <3> HIDE DEF m
    <3>1. /\ w.state = "SERVER_HELLO" /\ w.handshake = p.handshake /\ w.cookie = m.cookie
          /\ DOMAIN w = DOMAIN p
      BY <1>1 DEF Contexts
    <3>2. q = RecvFlightCompleted(w)
      BY DEF ClientHelloParsed
    <3> HIDE DEF w, q
    <3> QED
      BY <1>1, <3>1, <3>2 DEF RecvFlightCompleted, Contexts
  <2>3. SetContext("server", q)
    BY <1>4
  <2> HIDE DEF q
  <2>4. q.cookie => ssl["client"].cookie
    BY <1>2, <2>2 DEF Kept, Cookies
  <2>5. Ended("server", p, q)
    BY <1>3, <2>2, <2>4 DEF Ended, Reads, Closed
  <2>6. Fit("server", q)
    BY <1>1, <2>1, <2>2, <2>5, EndedFit
  <2> QED
    BY <2>3, <2>6 DEF Steps
<1>5. CASE SetContext("server", Fatal(p))
  <2>1. Carried("server", p, Fatal(p)) /\ Fatal(p).future_record = p.future_record
        /\ Fatal(p) \in Contexts
    BY <1>1, CarryHelpers, FatalTyping
  <2>2. Fit("server", Fatal(p))
    BY <1>1, <2>1, CarriedFit
  <2> QED
    BY <1>5, <2>2 DEF Steps
<1> QED
  BY <1>2, <1>4, <1>5

\* The server answers a hello without cookie, and forgets it.
LEMMA VerifyKept ==
  ASSUME TypeOK, FirstSession, Kept, WriteHelloVerifyRequest
  PROVE  Kept'
<1> DEFINE p == ssl["server"]
           w == WriteMessage(p, "HelloVerifyRequest")
           q == Reset(w.session)
<1>1. "server" \in Endpoints /\ p \in Contexts
  BY DEF TypeOK, Endpoints
<1>2. /\ p.state = "SERVER_HELLO" /\ net' = net \cup FlightRecords("server", w) /\ conf' = conf
      /\ ssl' = [ssl EXCEPT !["server"] = q]
  BY <1>1, HelpersStay DEF WriteHelloVerifyRequest, At
<1>3. p.flight = <<>>
  BY <1>2 DEF FirstSession, EarlyInv, Hello
<1>4. \A i \in DOMAIN w.flight : w.flight[i].type = "HelloVerifyRequest"
  BY <1>1, <1>3, WrittenFlight DEF Types
<1>5. q \in Contexts
  <2>1. w.session = p.session
    BY <1>1, WritingHolds DEF Holds, Types
  <2>2. p.session \in Nat
    BY <1>1 DEF Contexts
  <2> QED
    BY <2>1, <2>2, ResetTyping
<1>6. p.handshake = TRUE
  BY <1>1, <1>2 DEF Kept, Ready, Contexts
<1>7. /\ q.state = "CLIENT_HELLO" /\ q.flight = <<>> /\ q.handshake = TRUE /\ q.cookie = FALSE
      /\ q.in_flight_start_seq = 0 /\ q.in_msg_seq = 0 /\ q.future_record = {}
  BY DEF Reset
<1> HIDE DEF w, q
<1>8. \A r \in FlightRecords("server", w) : r.from = "server" /\ r.msg.type # "ApplicationData"
  BY <1>4 DEF FlightRecords, Record, ToSet
<1>9. Ended("server", p, q)
  BY <1>2, <1>6, <1>7 DEF Ended, Reads, Closed
<1>10. Fit("server", q)
  BY <1>1, <1>5, <1>7, <1>9, EndedFit
<1>11. \A r \in net' : r \in net \/ Sendable("server", q, r)
  BY <1>2, <1>8 DEF Sendable
<1> QED
  BY <1>1, <1>2, <1>10, <1>11, FitKept

\* What is sent beside a flight, and what is lost.
LEMMA SendKept ==
  ASSUME TypeOK, Kept, NEW e \in Endpoints, ssl' = ssl, conf' = conf,
         \A r \in net' : r \in net \/ Sendable(e, ssl[e], r)
  PROVE  Kept'
<1>1. ssl' = [ssl EXCEPT ![e] = ssl[e]]
  BY DEF TypeOK
<1>2. Fit(e, ssl[e])
  BY FitNow
<1> QED
  BY <1>1, <1>2, FitKept

--------------------------------------------------------------------------------
(* Steps that write keep all they write.                                   *)

\* A context in which messages have been written: its flight has all of them.
Grows(p, w) ==
  /\ w \in Contexts /\ w.handshake = p.handshake /\ w.cookie = p.cookie /\ w.state = p.state
  /\ w.in_flight_start_seq = p.in_flight_start_seq /\ w.in_msg_seq = p.in_msg_seq
  /\ w.future_record = p.future_record /\ p.out_msg_seq <= w.out_msg_seq
  /\ ToSet(p.flight) \subseteq ToSet(w.flight) /\ Covers(w, p.out_msg_seq)
  /\ ~p.cookie /\ (\A m \in ToSet(p.flight) : ~m.cookie) => \A m \in ToSet(w.flight) : ~m.cookie
  /\ HasFinished(w) => HasFinished(p) \/ ChangeCipherSpec \in ToSet(w.flight)

\* One writes after another.
LEMMA GrowsOn ==
  ASSUME NEW p \in Contexts, NEW v, NEW w, Grows(p, v), Grows(v, w)
  PROVE  Grows(p, w)
<1>1. /\ p.out_msg_seq \in Nat /\ v.out_msg_seq \in Nat /\ w.out_msg_seq \in Nat
      /\ p.out_msg_seq <= v.out_msg_seq /\ v.out_msg_seq <= w.out_msg_seq
      /\ ToSet(p.flight) \subseteq ToSet(v.flight) /\ ToSet(v.flight) \subseteq ToSet(w.flight)
      /\ Covers(v, p.out_msg_seq) /\ Covers(w, v.out_msg_seq)
  BY DEF Grows, Contexts
<1>2. Covers(w, p.out_msg_seq)
  <2>1. ASSUME NEW j \in p.out_msg_seq .. w.out_msg_seq - 1
        PROVE  \E m \in ToSet(w.flight) : IsHandshake(m) /\ m.seq = j
    <3>1. j \in p.out_msg_seq .. v.out_msg_seq - 1 \/ j \in v.out_msg_seq .. w.out_msg_seq - 1
      BY <1>1
    <3> QED
      BY <1>1, <3>1 DEF Covers
  <2> QED
    BY <2>1 DEF Covers
<1>3. p.out_msg_seq <= w.out_msg_seq
  BY <1>1
<1> QED
  BY <1>1, <1>2, <1>3 DEF Grows

\* A message is one more in the flight.
LEMMA MessageGrows ==
  ASSUME NEW p \in Contexts, NEW type \in Types \ {"ApplicationData"},
         type = "Finished" => ChangeCipherSpec \in ToSet(p.flight)
  PROVE  LET w == WriteMessage(p, type) IN
         /\ Grows(p, w) /\ w.flight # <<>>
         /\ type = "ChangeCipherSpec" => ChangeCipherSpec \in ToSet(w.flight)
<1> DEFINE w == WriteMessage(p, type)
           Same(q) == /\ q.handshake = p.handshake /\ q.cookie = p.cookie /\ q.state = p.state
                      /\ q.in_flight_start_seq = p.in_flight_start_seq
                      /\ q.in_msg_seq = p.in_msg_seq /\ q.future_record = p.future_record
<1>1. w \in Contexts /\ p.flight \in Seq(Messages) /\ p.out_msg_seq \in Nat
  BY WriteMessageTyping DEF Contexts
<1>2. ASSUME NEW m \in Messages, w.flight = Append(p.flight, m), Same(w)
      PROVE  /\ w.flight # <<>> /\ ToSet(w.flight) = ToSet(p.flight) \cup {m}
             /\ HasFinished(w) => HasFinished(p) \/ m.type = "Finished"
  <2> HIDE DEF w
  <2> QED
    BY <1>1, <1>2, Appended DEF ToSet, HasFinished
<1>3. CASE type = "ChangeCipherSpec"
  <2> DEFINE q == [p EXCEPT !.flight = Append(@, ChangeCipherSpec)]
  <2>1. w = q /\ ChangeCipherSpec \in Messages /\ ChangeCipherSpec.type = "ChangeCipherSpec"
        /\ ~ChangeCipherSpec.cookie
    BY <1>3, PlainMessages DEF WriteMessage, ChangeCipherSpec, Message
  <2>2. Same(q) /\ q.flight = Append(p.flight, ChangeCipherSpec) /\ q.out_msg_seq = p.out_msg_seq
    BY DEF Contexts
  <2> HIDE DEF q, w
  <2>3. /\ w.flight # <<>> /\ ToSet(w.flight) = ToSet(p.flight) \cup {ChangeCipherSpec}
        /\ HasFinished(w) => HasFinished(p)
    BY <1>2, <2>1, <2>2
  <2>4. Covers(w, p.out_msg_seq)
    <3>1. p.out_msg_seq .. w.out_msg_seq - 1 = {}
      BY <1>1, <2>1, <2>2
    <3> QED
      BY <3>1 DEF Covers
  <2>5. p.out_msg_seq <= w.out_msg_seq
    BY <1>1, <2>1, <2>2
  <2>6. Grows(p, w)
    BY <1>1, <2>1, <2>2, <2>3, <2>4, <2>5 DEF Grows
  <2> QED
    BY <2>3, <2>6 DEF w
<1>4. CASE type # "ChangeCipherSpec"
  <2> DEFINE m == Message(type, p.out_msg_seq, p.session, type = "ClientHello" /\ p.cookie,
                          IF type = "Finished" THEN p.checksum ELSE <<>>)
             q == [p EXCEPT !.flight = Append(@, m), !.out_msg_seq = @ + 1,
                            !.checksum = Append(@, Digest(m))]
             v == [q EXCEPT !.alt_epoch = p.out_epoch, !.out_epoch = p.out_epoch + 1]
  <2>1. /\ m \in Messages /\ w.flight = Append(p.flight, m) /\ w.out_msg_seq = p.out_msg_seq + 1
    BY <1>4, MessageWritten
  <2>2. m.type = type /\ m.seq = p.out_msg_seq /\ (m.cookie => p.cookie) /\ IsHandshake(m)
    BY <1>4 DEF Message, IsHandshake
  <2>3. w = IF type = "Finished" THEN v ELSE q
    BY <1>4 DEF WriteMessage
  <2> HIDE DEF m
  <2>4. Same(q) /\ Same(v)
    BY DEF Contexts
  <2>5. Same(w)
    <3> HIDE DEF q, v, w
    <3> QED
      BY <2>3, <2>4
  <2> HIDE DEF q, v, w
  <2>6. /\ w.flight # <<>> /\ ToSet(w.flight) = ToSet(p.flight) \cup {m}
        /\ HasFinished(w) => HasFinished(p) \/ type = "Finished"
    BY <1>2, <2>1, <2>2, <2>5
  <2>7. Covers(w, p.out_msg_seq)
    <3>1. p.out_msg_seq .. w.out_msg_seq - 1 = {p.out_msg_seq}
      BY <1>1, <2>1
    <3> QED
      BY <2>2, <2>6, <3>1 DEF Covers
  <2>8. p.out_msg_seq <= w.out_msg_seq
    BY <1>1, <2>1
  <2>9. ~p.cookie /\ (\A n \in ToSet(p.flight) : ~n.cookie) => \A n \in ToSet(w.flight) : ~n.cookie
    BY <2>2, <2>6
  <2>10. Grows(p, w)
    BY <1>1, <2>5, <2>6, <2>7, <2>8, <2>9 DEF Grows
  <2> QED
    BY <1>4, <2>6, <2>10 DEF w
<1> QED
  BY <1>3, <1>4

\* So is one that is written on a condition.
LEMMA WhenGrows ==
  ASSUME NEW p \in Contexts, NEW b, NEW type \in Types \ {"ApplicationData", "Finished"}
  PROVE  Grows(p, WriteWhen(b, p, type))
<1>1. Grows(p, p)
  <2>1. p.out_msg_seq \in Nat
    BY DEF Contexts
  <2>2. p.out_msg_seq .. p.out_msg_seq - 1 = {} /\ p.out_msg_seq <= p.out_msg_seq
    BY <2>1
  <2> QED
    BY <2>2 DEF Grows, Covers
<1>2. Grows(p, WriteMessage(p, type))
  BY MessageGrows
<1> QED
  BY <1>1, <1>2 DEF WriteWhen

\* ChangeCipherSpec comes before Finished.
LEMMA ClosingGrows ==
  ASSUME NEW p \in Contexts
  PROVE  Grows(p, WriteClosing(p)) /\ WriteClosing(p).flight # <<>>
<1> DEFINE v == WriteMessage(p, "ChangeCipherSpec")
           w == WriteMessage(v, "Finished")
<1>1. {"ChangeCipherSpec", "Finished"} \subseteq Types \ {"ApplicationData"}
      /\ "ChangeCipherSpec" # "Finished"
  BY DEF Types
<1>2. Grows(p, v) /\ ChangeCipherSpec \in ToSet(v.flight) /\ v \in Contexts
  BY <1>1, MessageGrows DEF Grows
<1> HIDE DEF v
<1>3. Grows(v, w) /\ w.flight # <<>>
  BY <1>1, <1>2, MessageGrows
<1> HIDE DEF w
<1>4. Grows(p, w)
  BY <1>2, <1>3, GrowsOn
<1> QED
  BY <1>3, <1>4 DEF WriteClosing, v, w

\* A flight that is written from its first number on is whole.
LEMMA WriteFits ==
  ASSUME TypeOK, FirstSession, Kept, NEW e \in Endpoints, NEW w, Grows(ssl[e], w), w.flight # <<>>,
         NEW state \in States, state # "HANDSHAKE_OVER", ssl[e].state # "HANDSHAKE_OVER",
         ssl[e].out_epoch = 0,
         FlightStart(conf, e, state, One(ssl[e].cookie)) = ssl[e].out_msg_seq,
         state \in Passed(e) => ssl[e].state \in Passed(e),
         WriteFlight(e, w, state)
  PROVE  Steps(e)
<1> DEFINE p == ssl[e]
           u == SendFlightCompleted(w)
           v == [u EXCEPT !.state = state]
<1>1. FlightTransmit(e, v)
  BY DEF WriteFlight
<1>2. p \in Contexts /\ w \in Contexts /\ Fit(e, p) /\ Ready(conf, e, p)
  BY FitNow DEF Fit, TypeOK, Grows
<1>3. /\ u \in Contexts /\ u.flight = w.flight /\ u.handshake = w.handshake /\ u.cookie = w.cookie
      /\ u.in_flight_start_seq = w.in_flight_start_seq /\ u.out_msg_seq = w.out_msg_seq
      /\ u.in_msg_seq = w.in_msg_seq /\ u.future_record = w.future_record
      /\ u.timer = TRUE /\ u.retransmit_timeout = 1
  BY <1>2, SendFlightCompletedTyping DEF SendFlightCompleted, Contexts
<1> HIDE DEF u
<1>4. /\ v \in Contexts /\ v.flight = w.flight /\ v.handshake = w.handshake /\ v.cookie = w.cookie
      /\ v.in_flight_start_seq = w.in_flight_start_seq /\ v.out_msg_seq = w.out_msg_seq
      /\ v.in_msg_seq = w.in_msg_seq /\ v.future_record = w.future_record
      /\ v.timer = TRUE /\ v.retransmit_timeout = 1 /\ v.state = state
  BY <1>3 DEF Contexts
<1> HIDE DEF v
<1>5. ~HasFinished(p)
  BY DEF FirstSession, EndpointInv, FlightInv
<1>6. p.handshake
  BY <1>2 DEF Ready
<1>7. Whole(conf, e, v)
  <2>1. FlightStart(conf, e, v.state, One(v.cookie)) = p.out_msg_seq
    BY <1>4 DEF Grows
  <2>2. Covers(v, p.out_msg_seq)
    BY <1>4 DEF Covers, Grows
  <2>3. HasFinished(v) => ChangeCipherSpec \in ToSet(v.flight)
    BY <1>4, <1>5 DEF HasFinished, Grows
  <2>4. v.handshake
    BY <1>4, <1>6 DEF Grows
  <2> QED
    BY <2>1, <2>2, <2>3, <2>4 DEF Whole
<1>8. Timed(e, v) /\ Asked(conf, e, v)
  <2>1. Timed(e, v)
    BY <1>4 DEF Timed
  <2>2. Asked(conf, e, p)
    BY <1>2 DEF Ready
  <2> QED
    BY <1>4, <2>1, <2>2 DEF Asked, Grows
<1>9. Ready(conf, e, v)
  BY <1>4, <1>6, <1>7, <1>8 DEF Ready, Grows
<1>10. e = "client" /\ ~v.cookie => ~p.cookie /\ \A m \in ToSet(v.flight) : ~m.cookie
  BY <1>2, <1>4 DEF Fit, Grows
<1>11. e = "server" /\ v.cookie => ssl["client"].cookie
  BY <1>2, <1>4 DEF Fit, Grows
<1>12. Fit(e, v)
  BY <1>4, <1>9, <1>10, <1>11 DEF Fit, Grows
<1> QED
  BY <1>1, <1>12 DEF Steps

\* Where each flight begins.
LEMMA FlightBegins ==
  ASSUME TypeOK, FirstSession
  PROVE  /\ LET p == ssl["client"] IN
            /\ p.state = "CLIENT_HELLO" =>
                 p.out_epoch = 0 /\ FlightStart(conf, "client", "SERVER_HELLO", One(p.cookie)) = p.out_msg_seq
            /\ p.state = "CLIENT_CERTIFICATE" =>
                 /\ p.out_epoch = 0
                 /\ \A t \in {"NEW_SESSION_TICKET", "SERVER_CHANGE_CIPHER_SPEC"} :
                      FlightStart(conf, "client", t, One(p.cookie)) = p.out_msg_seq
            /\ p.state = "CLIENT_CHANGE_CIPHER_SPEC" =>
                 p.out_epoch = 0 /\ FlightStart(conf, "client", "HANDSHAKE_WRAPUP", One(p.cookie)) = p.out_msg_seq
         /\ LET p == ssl["server"] IN
            /\ p.state = "SERVER_HELLO" =>
                 /\ p.out_epoch = 0
                 /\ \A t \in {"CLIENT_CHANGE_CIPHER_SPEC", "CLIENT_CERTIFICATE", "CLIENT_KEY_EXCHANGE"} :
                      FlightStart(conf, "server", t, One(p.cookie)) = p.out_msg_seq
            /\ p.state = "SERVER_CHANGE_CIPHER_SPEC" =>
                 p.out_epoch = 0 /\ FlightStart(conf, "server", "HANDSHAKE_WRAPUP", One(p.cookie)) = p.out_msg_seq
<1>1. Place(conf, "client", ssl["client"]) /\ Place(conf, "server", ssl["server"])
  BY DEF FirstSession, EndpointInv, Endpoints
<1>2. ASSUME NEW p, Place(conf, "client", p)
      PROVE  /\ p.state = "CLIENT_HELLO" =>
                 p.out_epoch = 0 /\ FlightStart(conf, "client", "SERVER_HELLO", One(p.cookie)) = p.out_msg_seq
             /\ p.state = "CLIENT_CERTIFICATE" =>
                 /\ p.out_epoch = 0
                 /\ \A t \in {"NEW_SESSION_TICKET", "SERVER_CHANGE_CIPHER_SPEC"} :
                      FlightStart(conf, "client", t, One(p.cookie)) = p.out_msg_seq
             /\ p.state = "CLIENT_CHANGE_CIPHER_SPEC" =>
                 p.out_epoch = 0 /\ FlightStart(conf, "client", "HANDSHAKE_WRAPUP", One(p.cookie)) = p.out_msg_seq
  <2> DEFINE k == One(p.cookie)
  <2>1. /\ p.state \in ClientStates(conf) /\ p.out_msg_seq = ClientOut(conf, p.state, k)
        /\ p.out_epoch = One(ClientHasFinished(conf, p.state))
    BY <1>2 DEF Place, HasWritten
  <2> HIDE DEF k
  <2>2. CASE p.state = "CLIENT_HELLO"
    BY <2>1, <2>2 DEF ClientOut, ClientHasFinished, FlightStart, Closed, One, k
  <2>3. CASE p.state = "CLIENT_CERTIFICATE"
    <3>1. ~conf.resume
      BY <2>1, <2>3 DEF ClientStates, Hello, Closed
    <3> QED
      BY <2>1, <2>3, <3>1 DEF ClientOut, ClientHasFinished, FlightStart, Closed, One, k
  <2>4. CASE p.state = "CLIENT_CHANGE_CIPHER_SPEC"
    <3>1. conf.resume
      BY <2>1, <2>4 DEF ClientStates, Hello, Closed
    <3> QED
      BY <2>1, <2>4, <3>1 DEF ClientOut, ClientHasFinished, FlightStart, Closed, One, k
  <2> QED
    BY <2>2, <2>3, <2>4
<1>3. ASSUME NEW p, Place(conf, "server", p)
      PROVE  /\ p.state = "SERVER_HELLO" =>
                 /\ p.out_epoch = 0
                 /\ \A t \in {"CLIENT_CHANGE_CIPHER_SPEC", "CLIENT_CERTIFICATE", "CLIENT_KEY_EXCHANGE"} :
                      FlightStart(conf, "server", t, One(p.cookie)) = p.out_msg_seq
             /\ p.state = "SERVER_CHANGE_CIPHER_SPEC" =>
                 p.out_epoch = 0 /\ FlightStart(conf, "server", "HANDSHAKE_WRAPUP", One(p.cookie)) = p.out_msg_seq
  <2> DEFINE k == One(p.cookie)
  <2>1. /\ p.state \in ServerStates(conf) /\ p.out_msg_seq = ServerOut(conf, p.state, k)
        /\ p.out_epoch = One(ServerHasFinished(conf, p.state))
    BY <1>3 DEF Place, HasWritten
  <2> HIDE DEF k
  <2>2. CASE p.state = "SERVER_HELLO"
    BY <2>1, <2>2 DEF ServerOut, ServerHasFinished, FlightStart, Hello, Closed, One, k
  <2>3. CASE p.state = "SERVER_CHANGE_CIPHER_SPEC"
    <3>1. ~conf.resume
      BY <2>1, <2>3 DEF ServerStates, Hello, Closed
    <3> QED
      BY <2>1, <2>3, <3>1 DEF ServerOut, ServerHasFinished, FlightStart, Hello, Closed, One, k
  <2> QED
    BY <2>2, <2>3
<1> QED
  BY <1>1, <1>2, <1>3

\* Every step that writes a flight.
LEMMA WritesFit ==
  ASSUME TypeOK, FirstSession, Kept, NEW e \in Endpoints,
         \/ WriteFinished(e)
         \/ e = "client" /\ (WriteClientHello \/ WriteClientKeyExchange)
         \/ e = "server" /\ WriteServerHello
  PROVE  Steps(e)
<1> DEFINE p == ssl[e]
<1>1. p \in Contexts
  BY DEF TypeOK
<1>2. {"ClientHello", "Certificate", "ClientKeyExchange", "CertificateVerify", "ServerHello",
       "CertificateRequest", "ServerHelloDone", "NewSessionTicket"}
        \subseteq Types \ {"ApplicationData", "Finished"}
  BY DEF Types
<1>3. {"HANDSHAKE_WRAPUP", "SERVER_HELLO", "NEW_SESSION_TICKET", "SERVER_CHANGE_CIPHER_SPEC",
       "CLIENT_CHANGE_CIPHER_SPEC", "CLIENT_CERTIFICATE", "CLIENT_KEY_EXCHANGE"}
        \subseteq States \ {"HANDSHAKE_OVER"}
  BY DEF States
<1>4. ASSUME NEW v \in Contexts, NEW type \in Types \ {"ApplicationData", "Finished"}
      PROVE  LET w == WriteMessage(v, type) IN w \in Contexts /\ Grows(v, w) /\ w.flight # <<>>
  BY <1>4, MessageGrows DEF Grows
<1>5. ASSUME NEW b, NEW v \in Contexts, NEW type \in Types \ {"ApplicationData", "Finished"}
      PROVE  WriteWhen(b, v, type) \in Contexts /\ Grows(v, WriteWhen(b, v, type))
  BY <1>5, WhenGrows DEF Grows
<1>6. ASSUME NEW v \in Contexts
      PROVE  LET w == WriteClosing(v) IN w \in Contexts /\ Grows(v, w) /\ w.flight # <<>>
  BY <1>6, ClosingGrows DEF Grows
<1>7. CASE WriteFinished(e)
  <2> DEFINE v == WriteWhen(e = "server" /\ conf.ticket, p, "NewSessionTicket")
             w == WriteClosing(v)
  <2>1. /\ p.state = IF e = "client" THEN "CLIENT_CHANGE_CIPHER_SPEC" ELSE "SERVER_CHANGE_CIPHER_SPEC"
        /\ WriteFlight(e, w, "HANDSHAKE_WRAPUP")
    BY <1>7 DEF WriteFinished, At
  <2>2. v \in Contexts /\ Grows(p, v)
    BY <1>1, <1>2, <1>5
  <2> HIDE DEF v
  <2>3. w \in Contexts /\ Grows(v, w) /\ w.flight # <<>>
    BY <1>6, <2>2
  <2> HIDE DEF w
  <2>4. Grows(p, w)
    BY <1>1, <2>2, <2>3, GrowsOn
  <2>5. /\ p.out_epoch = 0
        /\ FlightStart(conf, e, "HANDSHAKE_WRAPUP", One(p.cookie)) = p.out_msg_seq
        /\ p.state \in Passed(e) /\ p.state # "HANDSHAKE_OVER"
    BY <2>1, FlightBegins DEF Passed, Endpoints
  <2> QED
    BY <1>3, <2>1, <2>3, <2>4, <2>5, WriteFits
<1>8. CASE e = "client" /\ WriteClientHello
  <2> DEFINE w == WriteMessage(p, "ClientHello")
  <2>1. p.state = "CLIENT_HELLO" /\ WriteFlight(e, w, "SERVER_HELLO")
    BY <1>8 DEF WriteClientHello, At
  <2>2. w \in Contexts /\ Grows(p, w) /\ w.flight # <<>>
    BY <1>1, <1>2, <1>4
  <2> HIDE DEF w
  <2>3. /\ p.out_epoch = 0 /\ FlightStart(conf, e, "SERVER_HELLO", One(p.cookie)) = p.out_msg_seq
        /\ "SERVER_HELLO" \notin Passed(e) /\ p.state # "HANDSHAKE_OVER"
    BY <1>8, <2>1, FlightBegins DEF Passed, Closed
  <2> QED
    BY <1>3, <2>1, <2>2, <2>3, WriteFits
<1>9. CASE e = "client" /\ WriteClientKeyExchange
  <2> DEFINE u == WriteWhen(p.client_auth, p, "Certificate")
             v == WriteMessage(u, "ClientKeyExchange")
             w == WriteWhen(p.client_auth, v, "CertificateVerify")
             x == WriteClosing(w)
             t == IF p.new_session_ticket THEN "NEW_SESSION_TICKET" ELSE "SERVER_CHANGE_CIPHER_SPEC"
  <2>1. p.state = "CLIENT_CERTIFICATE" /\ WriteFlight(e, x, t)
    BY <1>9 DEF WriteClientKeyExchange, At
  <2>2. u \in Contexts /\ Grows(p, u)
    BY <1>1, <1>2, <1>5
  <2> HIDE DEF u
  <2>3. v \in Contexts /\ Grows(u, v)
    BY <1>2, <1>4, <2>2
  <2> HIDE DEF v
  <2>4. w \in Contexts /\ Grows(v, w)
    BY <1>2, <1>5, <2>3
  <2> HIDE DEF w
  <2>5. x \in Contexts /\ Grows(w, x) /\ x.flight # <<>>
    BY <1>6, <2>4
  <2> HIDE DEF x
  <2>6. Grows(p, x)
    <3>1. Grows(p, v)
      BY <1>1, <2>2, <2>3, GrowsOn
    <3>2. Grows(p, w)
      BY <1>1, <2>4, <3>1, GrowsOn
    <3> QED
      BY <1>1, <2>5, <3>2, GrowsOn
  <2>7. t \in {"NEW_SESSION_TICKET", "SERVER_CHANGE_CIPHER_SPEC"}
    OBVIOUS
  <2> HIDE DEF t
  <2>8. /\ p.out_epoch = 0 /\ FlightStart(conf, e, t, One(p.cookie)) = p.out_msg_seq
        /\ t \notin Passed(e) /\ p.state # "HANDSHAKE_OVER"
        /\ t \in States /\ t # "HANDSHAKE_OVER"
    BY <1>3, <1>9, <2>1, <2>7, FlightBegins DEF Passed, Closed
  <2> QED
    BY <2>1, <2>5, <2>6, <2>8, WriteFits
<1>10. CASE e = "server" /\ WriteServerHello
  <2> DEFINE u == WriteMessage(p, "ServerHello")
             v == WriteWhen(conf.ticket, u, "NewSessionTicket")
             w == WriteClosing(v)
             x == WriteMessage(u, "Certificate")
             y == WriteWhen(conf.auth, x, "CertificateRequest")
             z == WriteMessage(y, "ServerHelloDone")
             t == IF conf.auth THEN "CLIENT_CERTIFICATE" ELSE "CLIENT_KEY_EXCHANGE"
  <2>1. /\ p.state = "SERVER_HELLO"
        /\ IF conf.resume THEN WriteFlight(e, w, "CLIENT_CHANGE_CIPHER_SPEC")
           ELSE WriteFlight(e, z, t)
    BY <1>10 DEF WriteServerHello, At
  <2>2. u \in Contexts /\ Grows(p, u)
    BY <1>1, <1>2, <1>4
  <2> HIDE DEF u
  <2>3. v \in Contexts /\ Grows(u, v)
    BY <1>2, <1>5, <2>2
  <2> HIDE DEF v
  <2>4. w \in Contexts /\ Grows(v, w) /\ w.flight # <<>>
    BY <1>6, <2>3
  <2> HIDE DEF w
  <2>5. x \in Contexts /\ Grows(u, x)
    BY <1>2, <1>4, <2>2
  <2> HIDE DEF x
  <2>6. y \in Contexts /\ Grows(x, y)
    BY <1>2, <1>5, <2>5
  <2> HIDE DEF y
  <2>7. z \in Contexts /\ Grows(y, z) /\ z.flight # <<>>
    BY <1>2, <1>4, <2>6
  <2> HIDE DEF z
  <2>8. Grows(p, w) /\ Grows(p, z)
    <3>1. Grows(p, v) /\ Grows(p, x)
      BY <1>1, <2>2, <2>3, <2>5, GrowsOn
    <3>2. Grows(p, w) /\ Grows(p, y)
      BY <1>1, <2>4, <2>6, <3>1, GrowsOn
    <3> QED
      BY <1>1, <2>7, <3>2, GrowsOn
  <2>9. t \in {"CLIENT_CERTIFICATE", "CLIENT_KEY_EXCHANGE"}
    OBVIOUS
  <2> HIDE DEF t
  <2>10. ASSUME NEW f, NEW g \in {"CLIENT_CHANGE_CIPHER_SPEC", "CLIENT_CERTIFICATE",
                                   "CLIENT_KEY_EXCHANGE"},
                WriteFlight(e, f, g), Grows(p, f), f.flight # <<>>
         PROVE  Steps(e)
    <3>1. /\ p.out_epoch = 0 /\ FlightStart(conf, e, g, One(p.cookie)) = p.out_msg_seq
          /\ g \notin Passed(e) /\ p.state # "HANDSHAKE_OVER"
          /\ g \in States /\ g # "HANDSHAKE_OVER"
      BY <1>3, <1>10, <2>1, <2>10, FlightBegins DEF Passed, Closed
    <3> QED
      BY <2>10, <3>1, WriteFits
  <2> QED
    BY <2>1, <2>4, <2>7, <2>8, <2>9, <2>10
<1> QED
  BY <1>7, <1>8, <1>9, <1>10

\* Every step of the first session keeps the invariant.
LEMMA KeptNext ==
  ASSUME HandshakeInv, HandshakeInv', KeptInv, [Next]_vars
  PROVE  KeptInv'
<1> SUFFICES ASSUME OneSession' PROVE Kept'
  BY DEF KeptInv
<1>1. OneSession
  <2>1. Onward
    BY NextOnward DEF HandshakeInv
  <2>2. ssl["server"].session \in Nat /\ ssl["server"].session >= 1 /\ ssl'["server"].session = 1
    BY DEF HandshakeInv, TypeOK, Endpoints, Contexts, OneSession
  <2> QED
    BY <2>1, <2>2 DEF Onward, OneSession
<1>2. TypeOK /\ FirstSession /\ FirstSession' /\ Kept
  BY <1>1 DEF HandshakeInv, KeptInv
<1>3. ASSUME NEW e \in Endpoints, Steps(e) PROVE Kept'
  BY <1>2, <1>3, StepKept DEF Steps
<1>4. ASSUME NEW e \in Endpoints, Write(e) PROVE Kept'
  <2>1. /\ ssl' = ssl /\ conf' = conf /\ net' = net \cup {Record(e, ssl[e], ApplicationData)}
        /\ ssl[e].state = "HANDSHAKE_OVER"
    BY <1>4 DEF Write, Over
  <2>2. Sendable(e, ssl[e], Record(e, ssl[e], ApplicationData))
    BY <2>1 DEF Sendable, Record, ApplicationData, Message
  <2> QED
    BY <1>2, <2>1, <2>2, SendKept
<1>5. CASE Reconnect
  <2> DEFINE s == ssl["server"]
             n == s.session + 1
             h(m) == [from |-> "server", epoch |-> 0, key |-> 0,
                      msg |-> Message("HelloVerifyRequest", m.seq, s.session, FALSE, <<>>)]
  <2>1. PICK r \in net :
          \/ SetContext("server", ClientHelloParsed(Reset(n), r.msg))
          \/ net' = net \cup {h(r.msg)} /\ UNCHANGED <<conf, ssl>>
    BY <1>5 DEF Reconnect
  <2>2. CASE SetContext("server", ClientHelloParsed(Reset(n), r.msg))
    <3> DEFINE q == ClientHelloParsed(Reset(n), r.msg)
    <3>1. n = 2
      BY <1>1 DEF OneSession
    <3>2. Reset(n) \in Contexts /\ Reset(n).session = n
      BY <3>1, ResetTyping DEF Reset
    <3>3. q.session = n
      BY <3>2, HelpersStay
    <3> HIDE DEF q, n
    <3>4. ssl'["server"] = q
      BY <1>2, <2>2 DEF SetContext, TypeOK, Endpoints, q, n
    <3>5. FALSE
      BY <3>1, <3>3, <3>4 DEF OneSession
    <3> QED
      BY <3>5
  <2>3. CASE net' = net \cup {h(r.msg)} /\ UNCHANGED <<conf, ssl>>
    <3>1. "server" \in Endpoints /\ Sendable("server", s, h(r.msg))
      BY DEF Endpoints, Sendable, Message
    <3> QED
      BY <1>2, <2>3, <3>1, SendKept
  <2> QED
    BY <2>1, <2>2, <2>3
<1>6. CASE Lose
  <2>1. "server" \in Endpoints /\ ssl' = ssl /\ conf' = conf /\ net' = {}
    BY <1>6 DEF Lose, Endpoints
  <2> QED
    BY <1>2, <2>1, SendKept
<1>7. CASE UNCHANGED vars
  <2>1. "server" \in Endpoints /\ ssl' = ssl /\ conf' = conf /\ net' = net
    BY <1>7 DEF vars, Endpoints
  <2> QED
    BY <1>2, <2>1, SendKept
<1>8. ASSUME NEW e \in Endpoints, Local(e) PROVE Kept'
  <2>1. CASE ReadKept(e) \/ ReadBufferedMessage(e) \/ ReadBufferedRecord(e)
    BY <1>2, <1>3, <2>1, ReadFits
  <2>2. CASE Wrapup(e)
    BY <1>2, <1>3, <2>2, WrapupFits
  <2>3. CASE WriteHelloVerifyRequest
    BY <1>2, <2>3, VerifyKept
  <2>4. CASE \/ WriteFinished(e)
             \/ e = "client" /\ (WriteClientHello \/ WriteClientKeyExchange)
             \/ e = "server" /\ WriteServerHello
    BY <1>2, <1>3, <2>4, WritesFit
  <2> QED
    BY <1>8, <2>1, <2>2, <2>3, <2>4 DEF Local
<1>9. ASSUME NEW e \in Endpoints, Receive(e) PROVE Kept'
  BY <1>2, <1>3, <1>9, ReadFits DEF Receive
<1>10. ASSUME NEW e \in Endpoints, TimerExpires(e) \/ ReceivesNothing(e) PROVE Kept'
  BY <1>2, <1>3, <1>10, TimeFits DEF TimerExpires, ReceivesNothing
<1>11. ASSUME NEW cookie \in BOOLEAN, ParseClientHello(cookie) PROVE Kept'
  <2>1. "server" \in Endpoints
    BY DEF Endpoints
  <2> QED
    BY <1>2, <1>3, <1>11, <2>1, HelloFits
<1> QED
  BY <1>4, <1>5, <1>6, <1>7, <1>8, <1>9, <1>10, <1>11 DEF Next

\* At first there is nothing to keep.
LEMMA KeptInit == Init => KeptInv
<1> SUFFICES ASSUME Init PROVE Kept
  BY DEF KeptInv
<1>1. /\ ssl["client"] = Reset(0) /\ ssl["server"] = Reset(1) /\ net = {}
  BY DEF Init, Endpoints
<1>2. \A n : /\ Reset(n).state = "CLIENT_HELLO" /\ Reset(n).flight = <<>> /\ Reset(n).handshake = TRUE
             /\ Reset(n).future_record = {} /\ Reset(n).cookie = FALSE
  BY DEF Reset
<1>3. \A e \in Endpoints : \A n : Ready(conf, e, Reset(n))
  BY <1>2 DEF Ready, Whole, Timed, Asked, Reads, Passed, Closed, Endpoints
<1>4. \A e \in Endpoints : /\ \E n : ssl[e] = Reset(n)
                           /\ \E n : ssl[Peer(e)] = Reset(n)
  BY <1>1 DEF Endpoints, Peer
<1>5. \A e \in Endpoints : Ready(conf, e, ssl[e])
  BY <1>3, <1>4
<1>6. Needed
  BY <1>1, <1>2, <1>4 DEF Needed, Closed
<1>7. Cookies
  <2>1. ToSet(ssl["client"].flight) = {}
    BY <1>1, <1>2 DEF ToSet
  <2> QED
    BY <1>1, <1>2, <2>1 DEF Cookies
<1> QED
  BY <1>5, <1>6, <1>7 DEF Kept

\* Whatever the network loses, who waits has a timer, and what it waits for is kept
\* by the other side until it has been read (NothingForgotten), in every configuration.
THEOREM NothingIsForgotten == Spec => []NothingForgotten
<1>1. HandshakeInv /\ OneInv /\ KeptInv /\ [Next]_vars => HandshakeInv' /\ OneInv' /\ KeptInv'
  BY HandshakeNext, OneNext, KeptNext
<1>2. Init => HandshakeInv /\ OneInv /\ KeptInv
  BY HandshakeInit, OneInit, KeptInit
<1> QED
  BY <1>1, <1>2, KeptIs, PTL DEF Spec

================================================================================
