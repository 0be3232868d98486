---------------------------- MODULE DtlsHandshake ----------------------------
(***************************************************************************)
(* The DTLS 1.2 handshake of cpp/mbedtls/library (ssl_msg.c, ssl_tls.c,    *)
(* ssl_cli.c, ssl_srv.c) between a client and a server whose datagrams the *)
(* network may lose, duplicate and reorder: flights and their              *)
(* retransmission, messages that come early, the switch of epochs, hello   *)
(* verification, resumption, tickets and client authentication with an RSA *)
(* suite.  A step of an endpoint is one step of mbedtls_ssl_handshake or,  *)
(* once the handshake is over, one record read by mbedtls_ssl_read.        *)
(* A datagram holds one record; messages are not fragmented; the network   *)
(* may repeat any record, as with anti-replay disabled; there is no        *)
(* renegotiation.  MaxTimeout counts the timeouts after which an           *)
(* endpoint gives up, which a patient one does not, sessions bounds those  *)
(* of the server.                                                          *)
(***************************************************************************)
EXTENDS Integers, SequencesExt

CONSTANTS Confs,            \* configurations: [cookies, resume, ticket, auth, patient, sessions]
          MAX_BUFFERED_HS,  \* MBEDTLS_SSL_MAX_BUFFERED_HS
          MaxTimeout

ASSUME HandshakeAssumption ==
  /\ Confs \subseteq [cookies : BOOLEAN, resume : BOOLEAN, ticket : BOOLEAN, auth : BOOLEAN,
                      patient : BOOLEAN, sessions : Nat]
  /\ MAX_BUFFERED_HS \in Nat \ {0} /\ MaxTimeout \in Nat \ {0}

VARIABLES conf,  \* the configuration, the same on both sides
          ssl,   \* the two contexts
          net    \* the records on their way

vars == <<conf, ssl, net>>

Endpoints == {"client", "server"}
Peer(e) == IF e = "client" THEN "server" ELSE "client"

(* What tells two messages apart: the random numbers of the server's session,
   whether a ClientHello brings the cookie, and what a Finished is a hash of. *)
Message(type, seq, session, cookie, hash) ==
  [type |-> type, seq |-> seq, session |-> session, cookie |-> cookie, hash |-> hash]
ChangeCipherSpec == Message("ChangeCipherSpec", 0, 0, FALSE, <<>>)
ApplicationData == Message("ApplicationData", 0, 0, FALSE, <<>>)
IsHandshake(m) == m.type \notin {"ChangeCipherSpec", "ApplicationData"}

Digest(m) == <<m.type, m.seq, m.session>>

(* A context as ssl_handshake_init leaves it; session numbers its random.   *)
Reset(session) ==
  [state |-> "CLIENT_HELLO", session |-> session, ret |-> "ok",
   out_msg_seq |-> 0, in_msg_seq |-> 0, in_flight_start_seq |-> 0,
   flight |-> <<>>, retransmit_timeout |-> 0, timer |-> FALSE,
   in_epoch |-> 0, out_epoch |-> 0, alt_epoch |-> 0,
   hs |-> {}, seen_ccs |-> FALSE, future_record |-> {}, keep_current_message |-> <<>>,
   checksum |-> <<>>, cookie |-> FALSE, client_auth |-> FALSE,
   new_session_ticket |-> FALSE, handshake |-> TRUE]

Init ==
  /\ conf \in Confs
  /\ ssl = [e \in Endpoints |-> Reset(IF e = "client" THEN 0 ELSE 1)]
  /\ net = {}

CcsStates == {"CLIENT_CHANGE_CIPHER_SPEC", "SERVER_CHANGE_CIPHER_SPEC"}
FinishedStates == {"CLIENT_FINISHED", "SERVER_FINISHED"}
Reads == [client |-> {"SERVER_HELLO", "SERVER_CERTIFICATE", "CERTIFICATE_REQUEST",
                      "SERVER_HELLO_DONE", "NEW_SESSION_TICKET",
                      "SERVER_CHANGE_CIPHER_SPEC", "SERVER_FINISHED"},
          server |-> {"CLIENT_CERTIFICATE", "CLIENT_KEY_EXCHANGE", "CERTIFICATE_VERIFY",
                      "CLIENT_CHANGE_CIPHER_SPEC", "CLIENT_FINISHED"}]

Over(e) == ssl[e].state = "HANDSHAKE_OVER" /\ ssl[e].ret = "ok"
Waiting(e) == ssl[e].state \in Reads[e] /\ ssl[e].ret = "ok"
Fatal(p) == [p EXCEPT !.ret = "fatal"]

-----------------------------------------------------------------------------
(* Flights.                                                                 *)

SwapEpochs(p) == [p EXCEPT !.out_epoch = p.alt_epoch, !.alt_epoch = p.out_epoch]

(* The records ssl_flight_transmit writes: it goes back to the epoch the flight
   began in, and on to the other one for Finished. *)
HasFinished(p) == \E i \in DOMAIN p.flight : p.flight[i].type = "Finished"
Record(e, p, m) == [from |-> e, epoch |-> p.out_epoch,
                    key |-> IF p.out_epoch = 0 THEN 0 ELSE p.session, msg |-> m]
FlightRecords(e, p) ==
  LET first == SwapEpochs(p) IN
  {Record(e, IF m.type = "Finished" THEN SwapEpochs(first) ELSE first, m) :
     m \in ToSet(p.flight)}
\* Mutant: the timeout starts again with every transmission.
FlightTransmittedAnew(p) ==
  [(IF HasFinished(p) THEN p ELSE SwapEpochs(p)) EXCEPT
     !.timer = IF p.state = "HANDSHAKE_OVER" THEN @ ELSE p.retransmit_timeout # 0,
     !.retransmit_timeout = 1]
FlightTransmitted(p) ==
  [(IF HasFinished(p) THEN p ELSE SwapEpochs(p)) EXCEPT
     !.timer = IF p.state = "HANDSHAKE_OVER" THEN @ ELSE p.retransmit_timeout # 0]

(* mbedtls_ssl_flight_transmit: reads through flight without looking whether there is
   one. *)
FlightTransmit(e, p) ==
  IF p.flight = <<>>
  THEN /\ ssl' = [ssl EXCEPT ![e] = [p EXCEPT !.ret = "null flight"]]
       /\ UNCHANGED <<conf, net>>
  ELSE /\ ssl' = [ssl EXCEPT ![e] = FlightTransmitted(p)]
       /\ net' = net \cup FlightRecords(e, p)
       /\ UNCHANGED conf

RecvFlightCompleted(p) ==
  [p EXCEPT !.flight = <<>>, !.in_flight_start_seq = p.in_msg_seq, !.seen_ccs = FALSE,
            !.hs = {}, !.future_record = {}, !.timer = FALSE]
SendFlightCompleted(p) == [p EXCEPT !.retransmit_timeout = 1, !.timer = TRUE]

(* mbedtls_ssl_write_handshake_msg, and the change of epoch in
   mbedtls_ssl_write_finished. *)
WriteMessage(p, type) ==
  IF type = "ChangeCipherSpec" THEN [p EXCEPT !.flight = Append(@, ChangeCipherSpec)]
  ELSE LET m == Message(type, p.out_msg_seq, p.session, type = "ClientHello" /\ p.cookie,
                        IF type = "Finished" THEN p.checksum ELSE <<>>)
           q == [p EXCEPT !.flight = Append(@, m), !.out_msg_seq = @ + 1,
                          !.checksum = Append(@, Digest(m))]
       IN IF type = "Finished"
          THEN [q EXCEPT !.alt_epoch = p.out_epoch, !.out_epoch = p.out_epoch + 1]
          ELSE q

WriteWhen(condition, p, type) == IF condition THEN WriteMessage(p, type) ELSE p
WriteClosing(p) == WriteMessage(WriteMessage(p, "ChangeCipherSpec"), "Finished")

(* The end of the steps that write a flight, between which nothing is read. *)
WriteFlight(e, written, state) ==
  \E p \in {SendFlightCompleted(written)} : FlightTransmit(e, [p EXCEPT !.state = state])

-----------------------------------------------------------------------------
(* What the handshake makes of a message that mbedtls_ssl_read_record passes on:
   one operator per parse function. *)

Expect(p, m, type, q) == IF m.type = type THEN q ELSE Fatal(p)
Goto(p, state) == [p EXCEPT !.state = state]

(* mbedtls_ssl_update_handshake_status *)
UpdateHandshakeStatus(p, m) ==
  IF IsHandshake(m)
  THEN [p EXCEPT !.checksum = Append(@, Digest(m)), !.in_msg_seq = @ + 1,
                 !.hs = {n \in @ : n.seq # p.in_msg_seq}]
  ELSE p

\* Mutant: the hash goes on after a HelloVerifyRequest.
ParseHelloVerifyRequestHashing(p) ==
  RecvFlightCompleted([p EXCEPT !.state = "CLIENT_HELLO", !.cookie = TRUE])
ParseHelloVerifyRequest(p) ==
  RecvFlightCompleted([p EXCEPT !.state = "CLIENT_HELLO", !.checksum = <<>>, !.cookie = TRUE])

ParseServerHello(p, m) ==
  IF m.type = "HelloVerifyRequest" THEN ParseHelloVerifyRequest(p)
  ELSE Expect(p, m, "ServerHello",
         [p EXCEPT !.session = m.session, !.new_session_ticket = conf.ticket,
                   !.state = IF ~conf.resume THEN "SERVER_CERTIFICATE"
                             ELSE IF conf.ticket THEN "NEW_SESSION_TICKET"
                             ELSE "SERVER_CHANGE_CIPHER_SPEC"])

(* The SERVER_KEY_EXCHANGE step of an RSA suite reads nothing. *)
ParseCertificate(e, p, m) ==
  Expect(p, m, "Certificate",
         Goto(p, IF e = "client" THEN "CERTIFICATE_REQUEST" ELSE "CLIENT_KEY_EXCHANGE"))

ParseCertificateRequest(p, m) ==
  [(IF m.type = "CertificateRequest" THEN [p EXCEPT !.client_auth = TRUE]
    ELSE [p EXCEPT !.keep_current_message = <<m>>]) EXCEPT !.state = "SERVER_HELLO_DONE"]

ParseServerHelloDone(p, m) ==
  Expect(p, m, "ServerHelloDone", RecvFlightCompleted(Goto(p, "CLIENT_CERTIFICATE")))

ParseClientKeyExchange(p, m) ==
  Expect(p, m, "ClientKeyExchange",
         Goto(p, IF conf.auth THEN "CERTIFICATE_VERIFY" ELSE "CLIENT_CHANGE_CIPHER_SPEC"))

ParseCertificateVerify(p, m) ==
  Expect(p, m, "CertificateVerify", Goto(p, "CLIENT_CHANGE_CIPHER_SPEC"))

ParseNewSessionTicket(p, m) ==
  Expect(p, m, "NewSessionTicket",
         [p EXCEPT !.new_session_ticket = FALSE, !.state = "SERVER_CHANGE_CIPHER_SPEC"])

ParseChangeCipherSpec(e, p, m) ==
  Expect(p, m, "ChangeCipherSpec",
         [p EXCEPT !.in_epoch = @ + 1,
                   !.state = IF e = "client" THEN "SERVER_FINISHED" ELSE "CLIENT_FINISHED"])

(* hash is the hash of the messages before this one. *)
ParseFinished(e, p, m, hash) ==
  IF m.type # "Finished" \/ m.hash # hash THEN Fatal(p)
  ELSE RecvFlightCompleted(Goto(p,
         IF e = "client" THEN IF conf.resume THEN "CLIENT_CHANGE_CIPHER_SPEC" ELSE "HANDSHAKE_WRAPUP"
         ELSE IF conf.resume THEN "HANDSHAKE_WRAPUP" ELSE "SERVER_CHANGE_CIPHER_SPEC"))

(* mbedtls_ssl_handshake_client_step, mbedtls_ssl_handshake_server_step; p has read m. *)
Parse(e, p, m) ==
  CASE p.state = "SERVER_HELLO" -> ParseServerHello(p, m)
    [] p.state \in {"SERVER_CERTIFICATE", "CLIENT_CERTIFICATE"} -> ParseCertificate(e, p, m)
    [] p.state = "CERTIFICATE_REQUEST" -> ParseCertificateRequest(p, m)
    [] p.state = "SERVER_HELLO_DONE" -> ParseServerHelloDone(p, m)
    [] p.state = "CLIENT_KEY_EXCHANGE" -> ParseClientKeyExchange(p, m)
    [] p.state = "CERTIFICATE_VERIFY" -> ParseCertificateVerify(p, m)
    [] p.state = "NEW_SESSION_TICKET" -> ParseNewSessionTicket(p, m)
    [] p.state \in CcsStates -> ParseChangeCipherSpec(e, p, m)
    [] p.state \in FinishedStates -> ParseFinished(e, p, m, ssl[e].checksum)

-----------------------------------------------------------------------------
(* mbedtls_ssl_read_record.                                                 *)

(* ssl_load_buffered_message: in the states that wait for a ChangeCipherSpec only
   that, else the next handshake message. *)
BufferedMessages(p) ==
  IF p.state \in CcsStates THEN {ChangeCipherSpec : x \in {y \in {1} : p.seen_ccs}}
  ELSE {m \in p.hs : m.seq = p.in_msg_seq}

(* ssl_load_buffered_record *)
BufferedRecords(p) == {r \in p.future_record : r.epoch = p.in_epoch}

ReadsNetwork(p) ==
  p.keep_current_message = <<>> /\ BufferedMessages(p) = {} /\ BufferedRecords(p) = {}

\* Mutant: a message that comes early is passed on at once.
PassesEarly(p, m) ==
  IF m.type = "ChangeCipherSpec" THEN p.state \in CcsStates
  ELSE IsHandshake(m) /\ p.state # "HANDSHAKE_OVER" /\ m.seq >= p.in_msg_seq
(* mbedtls_ssl_handle_message_type and mbedtls_ssl_prepare_handshake_record: a
   message is passed on, comes early, or asks for the last flight again; any other
   is dropped. *)
Passes(p, m) ==
  IF m.type = "ChangeCipherSpec" THEN p.state \in CcsStates
  ELSE IsHandshake(m) /\ p.state # "HANDSHAKE_OVER" /\ m.seq = p.in_msg_seq
ComesEarly(p, m) ==
  /\ p.handshake
  /\ IF IsHandshake(m) THEN m.seq > p.in_msg_seq
     ELSE m.type = "ChangeCipherSpec" /\ p.state \notin CcsStates
\* Mutant: off by one.
AsksAgainEarlier(p, m) ==
  /\ p.handshake /\ IsHandshake(m)
  /\ ~Passes(p, m) /\ ~ComesEarly(p, m)
  /\ m.seq = p.in_flight_start_seq - 2 /\ m.type # "HelloVerifyRequest"
AsksAgain(p, m) ==
  /\ p.handshake /\ IsHandshake(m)
  /\ ~Passes(p, m) /\ ~ComesEarly(p, m)
  /\ m.seq = p.in_flight_start_seq - 1 /\ m.type # "HelloVerifyRequest"

(* ssl_buffer_message *)
BufferMessage(p, m) ==
  IF m.type = "ChangeCipherSpec" THEN [p EXCEPT !.seen_ccs = TRUE]
  ELSE IF m.seq - p.in_msg_seq < MAX_BUFFERED_HS /\ \A n \in p.hs : n.seq # m.seq
       THEN [p EXCEPT !.hs = @ \cup {m}]
       ELSE p

(* mbedtls_ssl_handshake_wrapup_free_hs_transform *)
FreeHandshake(p) ==
  [p EXCEPT !.handshake = FALSE, !.flight = <<>>, !.hs = {}, !.seen_ccs = FALSE,
            !.future_record = {}]

SetContext(e, p) == ssl' = [ssl EXCEPT ![e] = p] /\ UNCHANGED <<conf, net>>

HandleMessage(e, p, m) ==
  \/ Passes(p, m) /\ SetContext(e, Parse(e, UpdateHandshakeStatus(p, m), m))
  \/ ComesEarly(p, m) /\ SetContext(e, BufferMessage(p, m))
  \/ AsksAgain(p, m) /\ FlightTransmit(e, p)
  \/ /\ m.type = "ApplicationData" /\ p.state = "HANDSHAKE_OVER" /\ p.handshake
     /\ SetContext(e, FreeHandshake(p))

(* A record of the current epoch: ssl_prepare_record_content decrypts it; a wrong
   key is an error only where Finished is awaited. *)
HandleRecord(e, p, r) ==
  IF r.epoch = 0 \/ r.key = p.session THEN HandleMessage(e, p, r.msg)
  ELSE p.state \in FinishedStates /\ SetContext(e, Fatal(p))

(* The message mbedtls_ssl_read_record kept is read a second time. *)
ReadKept(e) ==
  LET p == ssl[e] IN
  /\ Waiting(e) /\ p.keep_current_message # <<>>
  /\ SetContext(e, Parse(e, [p EXCEPT !.keep_current_message = <<>>],
                         Head(p.keep_current_message)))

ReadBufferedMessage(e) ==
  LET p == ssl[e] IN
  /\ Waiting(e) /\ p.keep_current_message = <<>>
  /\ \E m \in BufferedMessages(p) :
       HandleMessage(e, [p EXCEPT !.seen_ccs = @ /\ IsHandshake(m)], m)

ReadBufferedRecord(e) ==
  LET p == ssl[e] IN
  /\ Waiting(e) \/ Over(e)
  /\ p.keep_current_message = <<>> /\ BufferedMessages(p) = {}
  /\ \E r \in BufferedRecords(p) : HandleRecord(e, [p EXCEPT !.future_record = {}], r)

(* ssl_get_next_record *)
ReadRecord(e) ==
  LET p == ssl[e] IN
  /\ Waiting(e) \/ Over(e)
  /\ ReadsNetwork(p)
  /\ \E r \in net : r.from # e /\ r.epoch = p.in_epoch /\ HandleRecord(e, p, r)

(* ssl_buffer_future_record: one handshake record of the next epoch. *)
BufferFutureRecord(e) ==
  LET p == ssl[e] IN
  /\ Waiting(e) \/ Over(e)
  /\ ReadsNetwork(p)
  /\ p.handshake /\ p.future_record = {}
  /\ \E r \in net : /\ r.from # e /\ r.epoch = p.in_epoch + 1 /\ IsHandshake(r.msg)
                    /\ SetContext(e, [p EXCEPT !.future_record = {r}])

(* ssl_parse_client_hello, which reads the record itself. *)
ClientHelloParsed(p, m) ==
  RecvFlightCompleted(
    [p EXCEPT !.out_msg_seq = m.seq, !.in_msg_seq = m.seq + 1, !.checksum = <<Digest(m)>>,
              !.cookie = m.cookie, !.new_session_ticket = conf.ticket,
              !.state = "SERVER_HELLO"])
ParseClientHello(cookie) ==
  LET p == ssl["server"] IN
  /\ p.state = "CLIENT_HELLO" /\ p.ret = "ok"
  /\ \E r \in net :
       /\ r.from = "client" /\ r.msg.cookie = cookie
       /\ SetContext("server", IF r.epoch = 0 /\ r.msg.type = "ClientHello"
                               THEN ClientHelloParsed(p, r.msg) ELSE Fatal(p))

(* ssl_handle_possible_reconnect: a ClientHello of epoch 0 after the handshake.  With
   a valid cookie the context is reset and reads it as the start of another one. *)
Reconnect ==
  LET p == ssl["server"] IN
  /\ Over("server") /\ ReadsNetwork(p) /\ conf.cookies
  /\ \E r \in net :
       /\ r.from = "client" /\ r.epoch = 0 /\ r.msg.type = "ClientHello"
       /\ IF r.msg.cookie
          THEN /\ p.session < conf.sessions
               /\ SetContext("server", ClientHelloParsed(Reset(p.session + 1), r.msg))
          ELSE /\ net' = net \cup {[from |-> "server", epoch |-> 0, key |-> 0,
                                    msg |-> Message("HelloVerifyRequest", r.msg.seq, p.session,
                                                    FALSE, <<>>)]}
               /\ UNCHANGED <<conf, ssl>>

-----------------------------------------------------------------------------
(* Steps that write.                                                        *)

At(e, state) == ssl[e].state = state /\ ssl[e].ret = "ok"

WriteClientHello ==
  /\ At("client", "CLIENT_HELLO")
  /\ WriteFlight("client", WriteMessage(ssl["client"], "ClientHello"), "SERVER_HELLO")

(* The HelloVerifyRequest goes out without send_flight_completed; the caller is told
   HELLO_VERIFY_REQUIRED and resets the session. *)
WriteHelloVerifyRequest ==
  LET p == WriteMessage(ssl["server"], "HelloVerifyRequest") IN
  /\ At("server", "SERVER_HELLO") /\ conf.cookies /\ ~p.cookie
  /\ net' = net \cup FlightRecords("server", p)
  /\ ssl' = [ssl EXCEPT !["server"] = Reset(p.session)]
  /\ UNCHANGED conf

(* The certificates and the answer to them are the steps in between. *)
WriteServerHello ==
  LET hello == WriteMessage(ssl["server"], "ServerHello")
      certificates == WriteWhen(conf.auth, WriteMessage(hello, "Certificate"), "CertificateRequest")
  IN
  /\ At("server", "SERVER_HELLO") /\ (conf.cookies => ssl["server"].cookie)
  /\ IF conf.resume
     THEN WriteFlight("server", WriteClosing(WriteWhen(conf.ticket, hello, "NewSessionTicket")),
                      "CLIENT_CHANGE_CIPHER_SPEC")
     ELSE WriteFlight("server", WriteMessage(certificates, "ServerHelloDone"),
                      IF conf.auth THEN "CLIENT_CERTIFICATE" ELSE "CLIENT_KEY_EXCHANGE")

WriteClientKeyExchange ==
  LET auth == ssl["client"].client_auth
      certificate == WriteWhen(auth, ssl["client"], "Certificate")
      keys == WriteWhen(auth, WriteMessage(certificate, "ClientKeyExchange"), "CertificateVerify")
  IN
  /\ At("client", "CLIENT_CERTIFICATE")
  /\ WriteFlight("client", WriteClosing(keys),
                 IF ssl["client"].new_session_ticket THEN "NEW_SESSION_TICKET"
                 ELSE "SERVER_CHANGE_CIPHER_SPEC")

(* The last flight: the server's, or of a resumed session the client's. *)
WriteFinished(e) ==
  /\ At(e, IF e = "client" THEN "CLIENT_CHANGE_CIPHER_SPEC" ELSE "SERVER_CHANGE_CIPHER_SPEC")
  /\ WriteFlight(e, WriteClosing(WriteWhen(e = "server" /\ conf.ticket, ssl[e],
                                          "NewSessionTicket")), "HANDSHAKE_WRAPUP")

\* Mutant: the handshake is freed with its last flight.
WrapupAtOnce(e) ==
  At(e, "HANDSHAKE_WRAPUP") /\ SetContext(e, FreeHandshake(Goto(ssl[e], "HANDSHAKE_OVER")))
(* mbedtls_ssl_handshake_wrapup keeps the last flight and what it needs. *)
Wrapup(e) ==
  LET p == Goto(ssl[e], "HANDSHAKE_OVER") IN
  /\ At(e, "HANDSHAKE_WRAPUP")
  /\ SetContext(e, IF p.flight # <<>> THEN [p EXCEPT !.timer = FALSE] ELSE FreeHandshake(p))

(* mbedtls_ssl_write *)
Write(e) ==
  /\ Over(e)
  /\ net' = net \cup {Record(e, ssl[e], ApplicationData)}
  /\ UNCHANGED <<conf, ssl>>

(* mbedtls_ssl_fetch_input finds that the timer has expired, or receives nothing for
   as long as retransmit_timeout. *)
TimeIsOver(e) ==
  LET p == ssl[e]
      doubled == IF conf.patient THEN p.retransmit_timeout ELSE p.retransmit_timeout + 1
  IN IF doubled > MaxTimeout
     THEN SetContext(e, [p EXCEPT !.timer = FALSE, !.ret = "timeout"])
     ELSE FlightTransmit(e, [p EXCEPT !.retransmit_timeout = doubled])
TimerExpires(e) == Waiting(e) /\ ReadsNetwork(ssl[e]) /\ ssl[e].timer /\ TimeIsOver(e)
ReceivesNothing(e) ==
  Waiting(e) /\ ReadsNetwork(ssl[e]) /\ ssl[e].retransmit_timeout # 0 /\ TimeIsOver(e)

(* The network: what is read stays for another time, until all is lost. *)
Lose == net # {} /\ net' = {} /\ UNCHANGED <<conf, ssl>>

Local(e) ==
  \/ ReadKept(e) \/ ReadBufferedMessage(e) \/ ReadBufferedRecord(e)
  \/ WriteFinished(e) \/ Wrapup(e)
  \/ e = "client" /\ (WriteClientHello \/ WriteClientKeyExchange)
  \/ e = "server" /\ (WriteHelloVerifyRequest \/ WriteServerHello)

Receive(e) == ReadRecord(e) \/ BufferFutureRecord(e)

Next ==
  \/ \E e \in Endpoints : \/ Local(e) \/ Receive(e)
                          \/ Write(e) \/ TimerExpires(e) \/ ReceivesNothing(e)
  \/ \E cookie \in BOOLEAN : ParseClientHello(cookie)
  \/ Reconnect
  \/ Lose

Spec == Init /\ [][Next]_vars

(* Both sides keep calling mbedtls_ssl_handshake and then mbedtls_ssl_read, and timers
   expire.  Where endpoints are patient, a network that is given records again and
   again delivers some; elsewhere it may be dead. *)
Scheduled == \A e \in Endpoints : WF_vars(Local(e)) /\ WF_vars(TimerExpires(e))
Delivers == /\ \A e \in Endpoints : SF_vars(Receive(e))
            /\ \A cookie \in BOOLEAN : SF_vars(ParseClientHello(cookie))
FairSpec == Spec /\ Scheduled /\ (conf.patient => Delivers)

-----------------------------------------------------------------------------
(* A delayed ClientHello with a cookie starts a second session (Reconnect); what is
   said below is said of the first one. *)
OneSession == ssl["server"].session = 1

(* Lost, repeated and reordered records alone never make an endpoint fail: neither a
   hash that does not match, nor an unexpected message, nor a wrong key, nor a flight
   that is not there when it is to be sent again (the error returns of the parse
   functions, and the read through flight in mbedtls_ssl_flight_transmit). *)
NeverFails == OneSession => \A e \in Endpoints : ssl[e].ret \in {"ok", "timeout"}

(* What a waiting endpoint has to read next, and whether its peer has written it. *)
Awaits(p, m) == IF p.state \in CcsStates THEN m.type = "ChangeCipherSpec"
                ELSE IsHandshake(m) /\ m.seq = p.in_msg_seq
Written(p, q) ==
  IF p.state \in CcsStates THEN q.out_epoch + q.alt_epoch = 1 ELSE q.out_msg_seq > p.in_msg_seq
AtHand(p) == ~ReadsNetwork(p)
             \/ \E r \in p.future_record : r.epoch = p.in_epoch /\ Awaits(p, r.msg)
Keeps(q, p) == \E i \in DOMAIN q.flight : Awaits(p, q.flight[i])

(* The end of p's flight makes q send its own again. *)
Prompts(p, q) == \E i \in DOMAIN p.flight : IsHandshake(p.flight[i]) /\ q.handshake
                                            /\ p.flight[i].seq = q.in_flight_start_seq - 1

(* Whatever the network loses, an endpoint that waits has its timer running, and what
   it waits for is kept by its peer for as long as it may be lost; a peer without a
   timer, whose handshake is over, is prompted by the flight of the one that waits
   (recv_flight_completed, wrapup, prepare_handshake_record).  Nor does a message left
   in the buffer ever keep an endpoint from reading once its handshake is over. *)
NothingForgotten ==
  OneSession =>
    \A e \in Endpoints :
      LET p == ssl[e]
          q == ssl[Peer(e)]
      IN /\ Waiting(e) => /\ p.timer
                          /\ Written(p, q) /\ ~AtHand(p) /\ q.ret = "ok" =>
                               Keeps(q, p) /\ (q.timer \/ ~Over(Peer(e)) \/ Prompts(p, q))
         /\ Over(e) => BufferedMessages(p) = {}

(* Both sides read and write one and the same handshake: what one has hashed so far
   is how the other's began, but while a ClientHello without cookie is answered
   (in_msg_seq, the buffer of early messages, the reset of the hash).  A handshake is
   over on one side only when the other has come to its end, too; so a session that a
   delayed ClientHello starts is never over. *)
OneHandshake ==
  LET c == ssl["client"]
      s == ssl["server"]
  IN /\ OneSession /\ (conf.cookies => c.cookie /\ s.cookie)
          => IsPrefix(c.checksum, s.checksum) \/ IsPrefix(s.checksum, c.checksum)
     /\ Over("server") => c.session = s.session /\ c.out_epoch = 1
     /\ Over("client") /\ c.session = s.session => s.out_epoch = 1

(* If neither gives up, retransmission brings every handshake to its end on both
   sides, however often all that is on its way is lost. *)
Completes == conf.patient => <>(~OneSession \/ (Over("client") /\ Over("server")))

(* Nobody waits for ever: an endpoint that may give up does so or comes to the end,
   though the network lose everything from some moment on. *)
GivesUp == \A e \in Endpoints :
             Waiting(e) /\ ~conf.patient ~> Over(e) \/ ssl[e].ret # "ok"

=============================================================================
