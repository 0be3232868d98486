------------------------------- MODULE DtlsReplay -------------------------------
(***************************************************************************)
(* The anti-replay window of cpp/mbedtls/library/ssl_msg.c: which of the   *)
(* DTLS records that the network delivers, in any order and any number of  *)
(* times, are passed on; with the change of epoch, and the one record of   *)
(* the next epoch that is kept until then.                                 *)
(*                                                                         *)
(* in_window is the set of the bits that are 1 in the code's 64-bit word.  *)
(* A record that does not decrypt changes nothing and is left out.         *)
(***************************************************************************)
EXTENDS Integers

CONSTANTS Numbers,  \* bound: the sequence numbers that the peer uses
          MaxEpoch  \* bound: the epochs

VARIABLES
  in_epoch,
  in_window_top,
  in_window,
  future_record,  \* the kept record, in a set
  delivered       \* of each record of this session: how often it was passed on

replayVars == <<in_epoch, in_window_top, in_window, future_record, delivered>>

Bits == 0 .. 63
Records == [epoch : 0 .. MaxEpoch, number : Numbers \cap Nat]

ReplayTypeOK ==
  /\ in_epoch \in Nat
  /\ in_window_top \in Nat
  /\ in_window \subseteq Bits
  /\ future_record \subseteq Records
  /\ delivered \in [Records -> Nat]

ReplayInit ==
  /\ in_epoch = 0 /\ in_window_top = 0 /\ in_window = {} /\ future_record = {}
  /\ delivered = [r \in Records |-> 0]

\* mbedtls_ssl_dtls_replay_check
ReplayCheck(number) ==
  \/ number > in_window_top
  \/ in_window_top - number < 64 /\ in_window_top - number \notin in_window

\* Mutant: the window moves without what it has seen.
ReplayUpdate_Forgets(number) ==
  IF number > in_window_top
  THEN in_window_top' = number /\ in_window' = {0}
  ELSE in_window' = in_window \cup {in_window_top - number} /\ UNCHANGED in_window_top

\* mbedtls_ssl_dtls_replay_update; what is shifted out of the word is lost.
ReplayUpdate(number) ==
  IF number > in_window_top
  THEN /\ in_window_top' = number
       /\ in_window' = {b \in Bits : b - (number - in_window_top) \in in_window} \cup {0}
  ELSE /\ in_window' = in_window \cup ({in_window_top - number} \cap Bits)
       /\ UNCHANGED in_window_top

\* ssl_parse_record_header and ssl_prepare_record_content.
PassOn(r) ==
  /\ r.epoch = in_epoch
  /\ ReplayCheck(r.number)
  /\ ReplayUpdate(r.number)
  /\ delivered' = [delivered EXCEPT ![r] = @ + 1]
  /\ UNCHANGED in_epoch

\* A record of the network.  The rest of a datagram is read before the kept record, so
\* this may also be while one of this epoch is kept.
ParseRecordHeader(r) == PassOn(r) /\ UNCHANGED future_record

\* The kept record is read like one from the network, and dropped if it is a replay.
ReadBufferedRecord(r) ==
  /\ r \in future_record /\ future_record' = {}
  /\ \/ PassOn(r)
     \/ /\ r.epoch = in_epoch /\ ~ReplayCheck(r.number)
        /\ UNCHANGED <<in_epoch, in_window_top, in_window, delivered>>

BufferFutureRecord(r) ==
  /\ r.epoch = in_epoch + 1 /\ future_record = {}
  /\ future_record' = {r}
  /\ UNCHANGED <<in_epoch, in_window_top, in_window, delivered>>

\* Mutant: the window of the old epoch stays.
ParseChangeCipherSpec_Keeps ==
  /\ in_epoch < MaxEpoch /\ in_epoch' = in_epoch + 1
  /\ UNCHANGED <<in_window_top, in_window, future_record, delivered>>

\* mbedtls_ssl_parse_change_cipher_spec
ParseChangeCipherSpec ==
  /\ in_epoch < MaxEpoch /\ in_epoch' = in_epoch + 1
  /\ in_window_top' = 0 /\ in_window' = {}
  /\ UNCHANGED <<future_record, delivered>>

\* mbedtls_ssl_recv_flight_completed
RecvFlightCompleted ==
  /\ future_record' = {}
  /\ UNCHANGED <<in_epoch, in_window_top, in_window, delivered>>

\* ssl_session_reset_msg_layer: another session, with other keys.
SessionReset ==
  /\ in_epoch' = 0 /\ in_window_top' = 0 /\ in_window' = {} /\ future_record' = {}
  /\ delivered' = [r \in Records |-> 0]

ReplayNext ==
  \/ \E r \in Records : ParseRecordHeader(r) \/ ReadBufferedRecord(r) \/ BufferFutureRecord(r)
  \/ ParseChangeCipherSpec
  \/ RecvFlightCompleted
  \/ SessionReset

ReplaySpec == ReplayInit /\ [][ReplayNext]_replayVars

-----------------------------------------------------------------------------
(* However often and in whatever order the network brings a record, also a record that
   was kept for the next epoch and comes again in it, it is passed on once (replay_check,
   replay_update). *)
NeverTwice == \A r \in Records : delivered[r] <= 1

(* A record that has not been passed on is not taken for a replay, however late it
   comes, as long as it is fewer than 64 numbers behind the latest one (the shift of
   in_window, its reset with the epoch). *)
NoneRefused ==
  \A r \in Records : /\ r.epoch = in_epoch /\ delivered[r] = 0
                     /\ r.number > in_window_top - 64
                     => ReplayCheck(r.number)

(* What the window says, and that no later epoch has begun: what makes both inductive. *)
Window ==
  \A r \in Records :
    /\ r.epoch > in_epoch => delivered[r] = 0
    /\ r.epoch = in_epoch /\ delivered[r] > 0 => r.number <= in_window_top
    /\ r.epoch = in_epoch /\ r.number <= in_window_top /\ in_window_top - r.number < 64
       => (in_window_top - r.number \in in_window <=> delivered[r] > 0)

=============================================================================
