------------------------------ MODULE DtlsFragments ------------------------------
(***************************************************************************)
(* Handshake messages longer than a datagram, of cpp/mbedtls/library/      *)
(* ssl_msg.c: how a flight is cut into fragments that fit the MTU, which   *)
(* may be another one each time the flight is sent again, and how the peer *)
(* puts them together in the slots of its buffer, whatever order and       *)
(* number they come in.                                                    *)
(*                                                                         *)
(* Message m of the flight has the sequence number m and Lengths[m] bytes; *)
(* byte b of it is <<m, b>>.  What has been sent may come, again, at any   *)
(* time.  The record of the next epoch, which shares the buffer's space,   *)
(* and a flight that repeats a message with another header are left out.   *)
(***************************************************************************)
EXTENDS Integers, SequencesExt

CONSTANTS Lengths,          \* the lengths of the messages of the flight
          Mtus,             \* bound: the MTUs of the transmissions
          Expansion,        \* mbedtls_ssl_get_record_expansion
          MAX_BUFFERED_HS,  \* MBEDTLS_SSL_MAX_BUFFERED_HS
          MAX_BUFFERING     \* MBEDTLS_SSL_DTLS_MAX_BUFFERING

ASSUME FragmentsAssumption ==
  /\ Lengths \in Seq(Nat) /\ Mtus \subseteq Nat /\ Expansion \in Nat
  /\ MAX_BUFFERED_HS \in Nat \ {0} /\ MAX_BUFFERING \in Nat

VARIABLES
  mtu, cur_msg, cur_msg_p, out_left,  \* the transmission: cur_msg_p bytes of cur_msg are sent
  sent,                               \* the fragments sent so far
  hs, total_bytes_buffered,           \* the slots, the first one for in_msg_seq
  in_msg_seq,                         \* the message awaited
  error                               \* what the peer's handshake failed with

sender == <<mtu, cur_msg, cur_msg_p, out_left, sent>>
receiver == <<hs, total_bytes_buffered, in_msg_seq, error>>
fragmentVars == <<sender, receiver>>

HEADER == 12
Slots == 0 .. MAX_BUFFERED_HS - 1
Errors == {"none", "BUFFER_TOO_SMALL", "ALLOC_FAILED"}
Empty == [is_valid |-> FALSE, is_fragmented |-> FALSE, is_complete |-> FALSE,
          data_len |-> 0, bytes |-> {}, bitmask |-> {}]

FragmentsInit ==
  /\ mtu \in Mtus /\ cur_msg = 1 /\ cur_msg_p = 0 /\ out_left = 0 /\ sent = {}
  /\ hs = [i \in Slots |-> Empty] /\ total_bytes_buffered = 0 /\ in_msg_seq = 1
  /\ error = "none"

-----------------------------------------------------------------------------
(* mbedtls_ssl_flight_transmit, one turn of its loop at a time.             *)

\* ssl_get_remaining_payload_in_datagram
Payload == Max({0, mtu - out_left - Expansion})

NoRoom == \/ Payload < HEADER
          \/ Payload = HEADER /\ Lengths[cur_msg] # 0

SendFragment ==
  /\ cur_msg <= Len(Lengths) /\ ~NoRoom
  /\ LET rest == Lengths[cur_msg] - cur_msg_p
         len == Min({rest, Payload - HEADER})
     IN /\ sent' = sent \cup {[seq |-> cur_msg, off |-> cur_msg_p, len |-> len]}
        /\ out_left' = out_left + Expansion + HEADER + len
        /\ IF len = rest THEN cur_msg' = cur_msg + 1 /\ cur_msg_p' = 0
           ELSE cur_msg' = cur_msg /\ cur_msg_p' = cur_msg_p + len
  /\ UNCHANGED <<mtu, receiver>>

\* mbedtls_ssl_flush_output: of an empty datagram, nothing happens.
FlushOutput ==
  /\ cur_msg <= Len(Lengths) /\ NoRoom
  /\ out_left' = 0
  /\ UNCHANGED <<mtu, cur_msg, cur_msg_p, sent, receiver>>

\* mbedtls_ssl_resend, after a timeout or when the peer asks for the flight again, until
\* the peer has all of it and answers.
Resend ==
  /\ cur_msg > Len(Lengths) /\ in_msg_seq <= Len(Lengths)
  /\ mtu' \in Mtus /\ cur_msg' = 1 /\ cur_msg_p' = 0 /\ out_left' = 0
  /\ UNCHANGED <<sent, receiver>>

-----------------------------------------------------------------------------
(* The receiver.                                                            *)

\* The bits of byte i of the mask with these exponents, as positions in the message.
BitsOf(i, exponents) == {8 * i + 7 - x : x \in exponents}

\* Mutant: the last byte of the mask is filled up.
BitmaskSet_RoundsUp(mask, offset, len) ==
  mask \cup (offset .. 8 * ((offset + len + 7) \div 8) - 1)

\* ssl_bitmask_set
BitmaskSet(mask, offset, len) ==
  LET start_bits == 8 - (offset % 8)
      head == IF start_bits = 8 THEN 0 ELSE start_bits
      from == (offset + head) \div 8
      end_bits == (len - head) % 8
  IN IF start_bits # 8 /\ len <= start_bits
     THEN mask \cup BitsOf(offset \div 8, start_bits - len .. start_bits - 1)
     ELSE mask \cup BitsOf(offset \div 8, 0 .. head - 1)
               \cup BitsOf(from + (len - head) \div 8, 8 - end_bits .. 7)
               \cup (8 * from .. 8 * (from + (len - head) \div 8) - 1)

\* ssl_get_reassembly_buffer_size
ReassemblyBufferSize(len, is_fragmented) ==
  HEADER + len + (IF is_fragmented THEN (len + 7) \div 8 ELSE 0)

IsProperFragment(f) == f.off # 0 \/ f.len # Lengths[f.seq]

\* Mutant: a future message keeps its place.
MakeSpace_Never(desired) == <<FALSE, hs, total_bytes_buffered>>

\* How many bytes the first k slots take of the buffer, for every k.
Held(slots) ==
  LET held[k \in 0 .. MAX_BUFFERED_HS] ==
        IF k = 0 THEN 0 ELSE held[k - 1] + slots[k - 1].data_len
  IN held

\* ssl_buffer_make_space: frees the slots from the last one down to k.
MakeSpace(desired) ==
  LET freed(k) == [i \in Slots |-> IF i >= k THEN Empty ELSE hs[i]]
      total(k) == total_bytes_buffered - (Held(hs)[MAX_BUFFERED_HS] - Held(hs)[k])
      enough == {k \in Slots : desired <= MAX_BUFFERING - total(k)}
      last == IF enough = {} THEN 0 ELSE Max(enough)
  IN <<enough # {}, freed(last), total(last)>>

BytesOf(f) == {<<f.seq, i>> : i \in f.off .. f.off + f.len - 1}

\* The fragment is copied into a slot.
Added(slot, f) ==
  IF slot.is_complete THEN slot
  ELSE LET mask == IF slot.is_fragmented THEN BitmaskSet(slot.bitmask, f.off, f.len) ELSE {}
       IN [slot EXCEPT !.bytes = @ \cup BytesOf(f),
                       !.bitmask = mask,
                       !.is_complete = slot.is_fragmented
                                         => 0 .. Lengths[f.seq] - 1 \subseteq mask]

\* ssl_buffer_message of a fragment, or of a message that comes early.  The memory for it
\* may not be had, also when room has been made for it.
BufferMessage(f) ==
  LET offset == f.seq - in_msg_seq
      size == ReassemblyBufferSize(Lengths[f.seq], IsProperFragment(f))
      fresh == [Empty EXCEPT !.is_valid = TRUE, !.is_fragmented = IsProperFragment(f),
                             !.data_len = size]
      put(slots, slot) == hs' = [slots EXCEPT ![offset] = Added(slot, f)]
      begin(slots, total) ==
        \/ put(slots, fresh) /\ total_bytes_buffered' = total + size /\ UNCHANGED error
        \/ hs' = slots /\ total_bytes_buffered' = total /\ error' = "ALLOC_FAILED"
  IN /\ offset \in Slots
     /\ \/ /\ hs[offset].is_valid
           /\ put(hs, hs[offset]) /\ UNCHANGED <<total_bytes_buffered, error>>
        \/ /\ ~hs[offset].is_valid /\ size <= MAX_BUFFERING - total_bytes_buffered
           /\ begin(hs, total_bytes_buffered)
        \/ /\ ~hs[offset].is_valid /\ size > MAX_BUFFERING - total_bytes_buffered
           /\ offset = 0
           /\ \E space \in {MakeSpace(size)} :
                IF space[1]
                THEN begin(space[2], space[3])
                ELSE /\ hs' = space[2] /\ total_bytes_buffered' = space[3]
                     /\ error' = "BUFFER_TOO_SMALL"
     /\ UNCHANGED in_msg_seq

\* mbedtls_ssl_update_handshake_status: frees the first slot and moves the others up.
UpdateHandshakeStatus ==
  /\ in_msg_seq' = in_msg_seq + 1
  /\ hs' = [i \in Slots |-> IF i + 1 \in Slots THEN hs[i + 1] ELSE Empty]
  /\ total_bytes_buffered' = total_bytes_buffered - hs[0].data_len
  /\ UNCHANGED error

\* ssl_load_buffered_message: a complete message of the buffer is read.
LoadBufferedMessage ==
  /\ error = "none" /\ hs[0].is_complete
  /\ UpdateHandshakeStatus
  /\ UNCHANGED sender

\* mbedtls_ssl_read_record, of a record of the network: the rest of a datagram is read
\* before the buffer is looked at, so this may also be while a message is complete.
ReadRecord(f) ==
  /\ f \in sent /\ f.seq >= in_msg_seq
  /\ error = "none"
  /\ IF f.seq > in_msg_seq \/ IsProperFragment(f) THEN BufferMessage(f)
     ELSE UpdateHandshakeStatus
  /\ UNCHANGED sender

\* The message awaited, or a fragment of it with bytes not yet seen, comes.
NewsComes ==
  \E f \in sent :
    /\ f.seq = in_msg_seq
    /\ Lengths[f.seq] = 0 \/ ~(BytesOf(f) \subseteq hs[0].bytes)
    /\ ReadRecord(f)

Transmit == SendFragment \/ FlushOutput \/ Resend

FragmentsNext ==
  \/ Transmit
  \/ LoadBufferedMessage
  \/ \E f \in sent : ReadRecord(f)

\* The flight is sent again until it is answered, and of what is sent again and again
\* everything comes through in the end, in any order.
FragmentsFairness ==
  /\ WF_fragmentVars(Transmit)
  /\ WF_fragmentVars(LoadBufferedMessage)
  /\ WF_fragmentVars(NewsComes)

FragmentsSpec == FragmentsInit /\ [][FragmentsNext]_fragmentVars /\ FragmentsFairness

-----------------------------------------------------------------------------
Pieces == {f \in [seq : DOMAIN Lengths, off : Nat, len : Nat] : f.off + f.len <= Lengths[f.seq]}

Reassembly == [is_valid : BOOLEAN, is_fragmented : BOOLEAN, is_complete : BOOLEAN,
               data_len : Nat, bytes : SUBSET (Nat \X Nat), bitmask : SUBSET Nat]

\* What is sent are pieces of messages.
FragmentsTypeOK ==
  /\ mtu \in Nat /\ cur_msg \in 1 .. Len(Lengths) + 1 /\ cur_msg_p \in Nat /\ out_left \in Nat
  /\ cur_msg <= Len(Lengths) => cur_msg_p <= Lengths[cur_msg]
  /\ sent \subseteq Pieces /\ hs \in [Slots -> Reassembly]
  /\ in_msg_seq \in 1 .. Len(Lengths) + 1 /\ error \in Errors

(* A slot in use is for message m of the flight.  Its mask, if it has one, is the set of
   the bytes that have come; without one all have.  *)
IsReassembly(slot, m) ==
  IF ~slot.is_valid THEN slot = Empty
  ELSE /\ m \in DOMAIN Lengths
       /\ slot.bytes = {<<m, b>> : b \in IF slot.is_fragmented THEN slot.bitmask
                                           ELSE 0 .. Lengths[m] - 1}
       /\ slot.bitmask \subseteq 0 .. Lengths[m] - 1
       /\ slot.is_complete <=> (slot.is_fragmented => 0 .. Lengths[m] - 1 \subseteq slot.bitmask)

Reassembling == \A i \in Slots : IsReassembly(hs[i], in_msg_seq + i)

-----------------------------------------------------------------------------
(* A message the buffer takes for complete is the one awaited in that place, and all of
   it: each of its bytes has come in some fragment, however these overlap (the mask of
   ssl_bitmask_set, the slots moved by update_handshake_status).  What the buffer holds
   is what it has accounted for, and never more than it may. *)
Whole ==
  /\ \A i \in Slots : hs[i].is_complete =>
       hs[i].bytes = {<<in_msg_seq + i, b>> : b \in 0 .. Lengths[in_msg_seq + i] - 1}
  /\ total_bytes_buffered = Held(hs)[MAX_BUFFERED_HS]
  /\ total_bytes_buffered <= MAX_BUFFERING

(* Every message comes through if it fits into the buffer by itself, also when later
   ones have filled it before (ssl_buffer_make_space), unless there is no memory for it,
   or the MTU leaves no room for a byte of a message: then the loop of
   mbedtls_ssl_flight_transmit never ends. *)
AllArrive ==
  (\A m \in DOMAIN Lengths : ReassemblyBufferSize(Lengths[m], TRUE) <= MAX_BUFFERING)
    => <>(in_msg_seq > Len(Lengths) \/ error = "ALLOC_FAILED" \/ mtu <= Expansion + HEADER)

=============================================================================
