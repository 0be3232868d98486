----------------------------- MODULE MbedtlsProofs -----------------------------
(***************************************************************************)
(* Theorems about the three small parts of Mbed TLS that are modelled: the *)
(* block chain of mbedtls_aes_crypt_cbc with its callers (AesCbc), the     *)
(* anti-replay window of a DTLS receiver (DtlsReplay), and the             *)
(* fragmentation and reassembly of handshake messages (DtlsFragments).     *)
(*                                                                         *)
(* For any block cipher that inverts itself, any texts and any number of   *)
(* blocks: every call encrypts the chain it should and gets its text back, *)
(* whatever the static vector held when it began.                          *)
(*                                                                         *)
(* For every set of sequence numbers and every number of epochs: no record *)
(* is passed on twice, and none is refused too early.  NeverTwice alone is *)
(* not inductive: that a number which passes the check has not been        *)
(* delivered is what Window says of the word and of what has left it.      *)
(*                                                                         *)
(* For every flight, MTU and size of the buffer: a message that is taken   *)
(* for complete is all of it.                                              *)
(***************************************************************************)
EXTENDS AesCbc, DtlsReplay, DtlsFragments, WellFoundedInduction, TLAPS

--------------------------------------------------------------------------------
(* Type correctness.                                                       *)

\* The blocks of a text, and where the loop over them stands.
LEMMA SlotFacts ==
  /\ 1 \in 1 .. N + 1 /\ N + 1 \in Nat
  /\ \A k \in 1 .. N + 1 : k <= N => k \in Slot /\ k + 1 \in 1 .. N + 1
  /\ \A k \in Slot : k # 1 => k - 1 \in Slot
BY NAssumption DEF Slot

\* The block cipher takes a block to a block, in either mode, with the round
\* keys of either direction.
LEMMA EcbTyping ==
  ASSUME TypeOK, NEW mode \in {"encrypt", "decrypt"}, NEW b \in Blocks
  PROVE  CryptEcb(mode, b) \in Blocks
<1>1. routine \in Routines
  BY DEF TypeOK
<1>2. Enc[routine][b] \in Blocks /\ Dec[routine][b] \in Blocks /\ Mixed[routine][b] \in Blocks
  BY <1>1, CipherAssumption DEF Ciphers
<1>3. QED
  BY <1>2 DEF CryptEcb

--------------------------------------------------------------------------------
(* The inductive invariant.  The vector is the block before the one that   *)
(* the loop works on; the blocks before that one are done, the others are  *)
(* not; the context has the round keys of the running mode.                *)

BlockTexts == [Slot -> Blocks]

\* Where each array is written, in each phase.
Written ==
  /\ pc = "setup" => buf = Unwritten /\ def_buf = Unwritten
  /\ pc \in {"encrypt", "turn"} => def_buf = Unwritten
  /\ pc = "encrypt" => \A i \in Slot : buf[i] # Null <=> i < n
  /\ pc \in {"turn", "decrypt"} => \A i \in Slot : buf[i] # Null
  /\ pc = "decrypt" => \A i \in Slot : def_buf[i] # Null <=> i < n

\* The round keys and the vector of the running loop.
Loop ==
  /\ pc # "idle" => text \in BlockTexts
  /\ pc \in {"encrypt", "decrypt"} => rounds = pc /\ iv[routine] = Before(n)

IInv == TypeOK /\ Written /\ Loop /\ Chained /\ RoundTrip /\ Complete
--------------------------------------------------------------------------------
(* Every step keeps it.                                                    *)

\* Init establishes the invariant of the CBC loop.
LEMMA InitInv == Init => IInv
<1> SUFFICES ASSUME Init PROVE IInv
  OBVIOUS
<1>1. TypeOK
  BY DataAssumption, SlotFacts DEF Init, TypeOK, Unwritten, Routines
<1>2. Written /\ Loop
  BY DEF Init, Written, Loop
<1>3. Chained /\ RoundTrip /\ Complete
  BY DEF Init, Chained, RoundTrip, Complete, Unwritten
<1>4. QED
  BY <1>1, <1>2, <1>3 DEF IInv

\* What the start of a function establishes, in either caller.
LEMMA StartInv ==
  ASSUME NEW r \in Routines, NEW t \in Texts, Start(r, t),
         loaded' \in BOOLEAN, iv' \in [Routines -> Blocks]
  PROVE  IInv'
<1>1. TypeOK'
  BY DataAssumption, SlotFacts DEF Start, TypeOK, Unwritten
<1>2. Written' /\ Loop'
  BY DataAssumption DEF Start, Written, Loop, BlockTexts, Unwritten
<1>3. Chained' /\ RoundTrip' /\ Complete'
  BY DEF Start, Chained, RoundTrip, Complete, Unwritten
<1>4. QED
  BY <1>1, <1>2, <1>3 DEF IInv

\* A test starts from the vector it writes down.
LEMMA AesTestInv == IInv /\ AesTest => IInv'
<1> SUFFICES ASSUME IInv, AesTest PROVE IInv'
  OBVIOUS
<1>1. PICK t \in Texts : Start("aes_test", t)
  BY DEF AesTest
<1>2. iv' \in [Routines -> Blocks]
  BY DEF AesTest, IInv, TypeOK
<1>3. loaded' \in BOOLEAN
  BY DEF AesTest, IInv, TypeOK
<1>4. "aes_test" \in Routines
  BY DEF Routines
<1>5. QED
  BY <1>1, <1>2, <1>3, <1>4, StartInv

\* getPersons starts with the vector the last call left.
LEMMA GetPersonsInv ==
  ASSUME IInv, GetPersons
  PROVE  IInv'
<1>1. loaded' \in BOOLEAN /\ iv' \in [Routines -> Blocks]
  BY DEF GetPersons, IInv, TypeOK
<1>2. PICK t \in Texts : Start("getPersons", t)
  BY DEF GetPersons
<1>3. QED
  BY <1>1, <1>2, StartInv DEF Routines

\* The vector after it has been written.
LEMMA WriteIVValue ==
  ASSUME TypeOK, WriteIV
  PROVE  iv' \in [Routines -> Blocks] /\ iv'[routine] = StartIV[routine]
BY DataAssumption DEF TypeOK, WriteIV

\* Keys are set before blocks are.
LEMMA SetupInv == IInv /\ Setup => IInv'
<1> SUFFICES ASSUME IInv, Setup PROVE IInv'
  OBVIOUS
<1>1. iv' \in [Routines -> Blocks] /\ iv'[routine] = StartIV[routine]
  BY WriteIVValue DEF IInv, Setup
<1>2. TypeOK'
  BY <1>1, SlotFacts DEF IInv, Setup, TypeOK
<1>3. buf = Unwritten /\ def_buf = Unwritten /\ text \in BlockTexts
  BY DEF IInv, Setup, Written, Loop
<1>4. Written'
  BY <1>3 DEF Setup, Written, Unwritten, Slot
<1>5. Loop'
  BY <1>1, <1>3 DEF Setup, Loop, Before
<1>6. Chained' /\ RoundTrip' /\ Complete'
  BY <1>3 DEF Setup, Chained, RoundTrip, Complete, Unwritten
<1>7. QED
  BY <1>2, <1>4, <1>5, <1>6 DEF IInv

\* From encryption to decryption the vector is set again.
LEMMA TurnInv == IInv /\ Turn => IInv'
<1> SUFFICES ASSUME IInv, Turn PROVE IInv'
  OBVIOUS
<1>1. iv' \in [Routines -> Blocks] /\ iv'[routine] = StartIV[routine]
  BY WriteIVValue DEF IInv, Turn
<1>2. TypeOK'
  BY <1>1, SlotFacts DEF IInv, Turn, TypeOK
<1>3. def_buf = Unwritten /\ text \in BlockTexts /\ \A i \in Slot : buf[i] # Null
  BY DEF IInv, Turn, Written, Loop
<1>4. Written'
  BY <1>3 DEF Turn, Written, Unwritten, Slot
<1>5. Loop'
  BY <1>1, <1>3 DEF Turn, Loop, Before
<1>6. Chained' /\ RoundTrip' /\ Complete'
  BY DEF IInv, Turn, Chained, RoundTrip, Complete, Before
<1>7. QED
  BY <1>2, <1>4, <1>5, <1>6 DEF IInv

\* One block more of the cipher text.
LEMMA EncryptInv == IInv /\ EncryptBlock => IInv'
<1> SUFFICES ASSUME IInv, EncryptBlock PROVE IInv'
  OBVIOUS
<1> DEFINE out == CryptEcb("encrypt", Xor[text[n]][iv[routine]])
<1>1. TypeOK /\ pc = "encrypt" /\ n \in Slot /\ n + 1 \in 1 .. N + 1 /\ routine \in Routines
  BY SlotFacts DEF IInv, EncryptBlock, TypeOK
<1>2. /\ text \in BlockTexts /\ rounds = "encrypt" /\ iv[routine] = Before(n)
      /\ def_buf = Unwritten /\ \A i \in Slot : buf[i] # Null <=> i < n
  BY <1>1 DEF IInv, Written, Loop
<1>3. iv[routine] \in Blocks /\ Xor[text[n]][iv[routine]] \in Blocks
  BY <1>1, <1>2, XorAssumption DEF TypeOK, BlockTexts
<1>4. out \in Blocks /\ out # Null
  BY <1>1, <1>3, EcbTyping, DataAssumption
<1>5. out = Enc[routine][Xor[text[n]][Before(n)]]
  BY <1>2 DEF CryptEcb
<1>6. /\ buf' = [buf EXCEPT ![n] = out] /\ iv' = [iv EXCEPT ![routine] = out] /\ n' = n + 1
      /\ UNCHANGED <<pc, routine, loaded, rounds, text, def_buf>>
  BY DEF EncryptBlock
<1>7. buf'[n] = out /\ \A i \in Slot : i # n => buf'[i] = buf[i]
  BY <1>1, <1>6 DEF TypeOK
<1> HIDE DEF out
<1>8. TypeOK'
  BY <1>1, <1>4, <1>6 DEF TypeOK
<1>9. Written'
  <2>1. \A i \in Slot : buf'[i] # Null <=> i < n'
    BY <1>1, <1>2, <1>4, <1>6, <1>7 DEF Slot
  <2>2. QED
    BY <1>1, <1>2, <1>6, <2>1 DEF Written
<1>10. Loop'
  <2>1. iv'[routine] = out /\ n' # 1 /\ n' - 1 = n
    BY <1>1, <1>6 DEF TypeOK, Slot
  <2>2. QED
    BY <1>1, <1>2, <1>6, <1>7, <2>1 DEF Loop, Before
<1>11. Chained'
  <2> SUFFICES ASSUME NEW i \in Slot, buf'[i] # Null
               PROVE  buf'[i] = Enc[routine][Xor[text[i]][Before(i)']]
    BY <1>6 DEF Chained
  <2>1. i < n \/ i = n
    BY <1>2, <1>7
  <2>2. i # 1 => i - 1 \in Slot /\ i - 1 # n
    BY <1>1, <2>1, SlotFacts DEF Slot
  <2>3. Before(i)' = Before(i)
    BY <1>6, <1>7, <2>2 DEF Before
  <2>4. CASE i = n
    BY <1>5, <1>7, <2>3, <2>4
  <2>5. CASE i # n
    BY <1>7, <2>3, <2>5 DEF IInv, Chained
  <2>6. QED
    BY <2>4, <2>5
<1>12. RoundTrip' /\ Complete'
  BY <1>1, <1>2, <1>6 DEF RoundTrip, Complete, Unwritten
<1>13. QED
  BY <1>8, <1>9, <1>10, <1>11, <1>12 DEF IInv

\* Decryption and exclusive or take the block of the chain back apart.
LEMMA Unchained ==
  ASSUME NEW r \in Routines, NEW t \in Blocks, NEW v \in Blocks
  PROVE  Xor[Dec[r][Enc[r][Xor[t][v]]]][v] = t
<1>1. Xor[t][v] \in Blocks
  BY XorAssumption
<1>2. Dec[r][Enc[r][Xor[t][v]]] = Xor[t][v]
  BY <1>1, CipherAssumption
<1>3. QED
  BY <1>2, XorAssumption

\* One block more of the text.
LEMMA DecryptInv == IInv /\ DecryptBlock => IInv'
<1> SUFFICES ASSUME IInv, DecryptBlock PROVE IInv'
  OBVIOUS
<1> DEFINE out == Xor[CryptEcb("decrypt", buf[n])][iv[routine]]
<1>1. TypeOK /\ pc = "decrypt" /\ n \in Slot /\ n + 1 \in 1 .. N + 1 /\ routine \in Routines
  BY SlotFacts DEF IInv, DecryptBlock, TypeOK
<1>2. /\ text \in BlockTexts /\ rounds = "decrypt" /\ iv[routine] = Before(n)
      /\ \A i \in Slot : buf[i] # Null
      /\ \A i \in Slot : def_buf[i] # Null <=> i < n
  BY <1>1 DEF IInv, Written, Loop
<1>3. /\ iv[routine] \in Blocks /\ buf[n] \in Blocks /\ text[n] \in Blocks
      /\ text[n] # Null
  BY <1>1, <1>2, DataAssumption DEF TypeOK, BlockTexts
<1>4. out = text[n]
  <2>1. buf[n] = Enc[routine][Xor[text[n]][iv[routine]]]
    BY <1>1, <1>2 DEF IInv, Chained
  <2>2. CryptEcb("decrypt", buf[n]) = Dec[routine][buf[n]]
    BY <1>2 DEF CryptEcb
  <2>3. Xor[Dec[routine][Enc[routine][Xor[text[n]][iv[routine]]]]][iv[routine]] = text[n]
    BY <1>1, <1>3, Unchained
  <2>4. QED
    BY <2>1, <2>2, <2>3
<1>5. /\ def_buf' = [def_buf EXCEPT ![n] = out] /\ iv' = [iv EXCEPT ![routine] = buf[n]]
      /\ n' = n + 1 /\ UNCHANGED <<pc, routine, loaded, rounds, text, buf>>
  BY DEF DecryptBlock
<1> HIDE DEF out
<1>6. def_buf'[n] = text[n] /\ \A i \in Slot : i # n => def_buf'[i] = def_buf[i]
  BY <1>1, <1>4, <1>5 DEF TypeOK
<1>7. TypeOK'
  BY <1>1, <1>3, <1>4, <1>5 DEF TypeOK
<1>8. Written'
  <2>1. \A i \in Slot : def_buf'[i] # Null <=> i < n'
    BY <1>1, <1>2, <1>3, <1>5, <1>6 DEF Slot
  <2>2. QED
    BY <1>1, <1>2, <1>5, <2>1 DEF Written
<1>9. Loop'
  <2>1. iv'[routine] = buf[n] /\ n' # 1 /\ n' - 1 = n
    BY <1>1, <1>5 DEF TypeOK, Slot
  <2>2. QED
    BY <1>1, <1>2, <1>5, <2>1 DEF Loop, Before
<1>10. Chained'
  BY <1>5 DEF IInv, Chained, Before
<1>11. RoundTrip'
  BY <1>1, <1>5, <1>6 DEF IInv, RoundTrip
<1>12. Complete'
  BY <1>1, <1>5 DEF Complete
<1>13. QED
  BY <1>7, <1>8, <1>9, <1>10, <1>11, <1>12 DEF IInv

\* The loop ends.
LEMMA ReturnInv == IInv /\ CbcReturn => IInv'
<1> SUFFICES ASSUME IInv, CbcReturn PROVE IInv'
  OBVIOUS
<1>1. UNCHANGED <<routine, loaded, iv, rounds, n, text, buf, def_buf>> /\ n = N + 1
  BY DEF CbcReturn
<1>2. (pc = "encrypt" /\ pc' = "turn") \/ (pc = "decrypt" /\ pc' = "idle")
  BY DEF CbcReturn
<1>3. \A i \in Slot : i < n
  BY <1>1, NAssumption DEF Slot
<1>4. TypeOK'
  BY <1>1, <1>2 DEF IInv, TypeOK
<1>5. Written'
  BY <1>1, <1>2, <1>3 DEF IInv, Written
<1>6. Loop'
  BY <1>1, <1>2 DEF IInv, Loop
<1>7. Chained' /\ RoundTrip'
  BY <1>1 DEF IInv, Chained, RoundTrip, Before
<1>8. Complete'
  BY <1>1, <1>2, <1>3 DEF IInv, Written, Complete
<1>9. QED
  BY <1>4, <1>5, <1>6, <1>7, <1>8 DEF IInv

\* Every step keeps the invariant.
LEMMA StepInv == IInv /\ [Next]_vars => IInv'
<1> SUFFICES ASSUME IInv, [Next]_vars PROVE IInv'
  OBVIOUS
<1>1. CASE AesTest
  BY <1>1, AesTestInv
<1>2. CASE GetPersons
  BY <1>2, GetPersonsInv
<1>3. CASE Setup
  BY <1>3, SetupInv
<1>4. CASE Turn
  BY <1>4, TurnInv
<1>5. CASE EncryptBlock
  BY <1>5, EncryptInv
<1>6. CASE DecryptBlock
  BY <1>6, DecryptInv
<1>7. CASE CbcReturn
  BY <1>7, ReturnInv
<1>8. CASE UNCHANGED vars
  <2>1. TypeOK'
    BY <1>8 DEF IInv, TypeOK, vars
  <2>2. Written' /\ Loop'
    BY <1>8 DEF IInv, Written, Loop, Before, vars
  <2>3. Chained' /\ RoundTrip' /\ Complete'
    BY <1>8 DEF IInv, Chained, RoundTrip, Complete, Before, vars
  <2>4. QED
    BY <2>1, <2>2, <2>3 DEF IInv
<1>9. QED
  BY <1>1, <1>2, <1>3, <1>4, <1>5, <1>6, <1>7, <1>8 DEF Next

\* It holds in every state.
LEMMA Inductive == Spec => []IInv
BY InitInv, StepInv, PTL DEF Spec

--------------------------------------------------------------------------------
(* The results.                                                            *)

\* The variables of the two functions keep their types; in particular no
\* person is made of a null name.
THEOREM TypeCorrect == Spec => []TypeOK
<1>1. IInv => TypeOK
  BY DEF IInv
<1>2. QED
  BY <1>1, Inductive, PTL

\* For any inverting block cipher, what is decrypted is the text, in every
\* call of getPersons and in mbedtls_aes_test.
THEOREM DecryptsTheText == Spec => []RoundTrip
<1>1. IInv => RoundTrip
  BY DEF IInv
<1>2. QED
  BY <1>1, Inductive, PTL

\* For any block cipher, the ciphertext is the chain from the vector that the
\* function writes down, though the static vector enters every call used up.
THEOREM EncryptsTheChain == Spec => []Chained
<1>1. IInv => Chained
  BY DEF IInv
<1>2. QED
  BY <1>1, Inductive, PTL

\* No call ends before every block went both ways.
THEOREM BothWaysToTheEnd == Spec => []Complete
<1>1. IInv => Complete
  BY DEF IInv
<1>2. QED
  BY <1>1, Inductive, PTL

--------------------------------------------------------------------------------
(* The anti-replay window.                                                 *)

ReplayInv == ReplayTypeOK /\ Window /\ NeverTwice

\* The window is empty at first.
LEMMA ReplayInitInv == ReplayInit => ReplayInv
  BY DEF ReplayInit, ReplayInv, ReplayTypeOK, Window, NeverTwice, Records, Bits

(* A record that passes the check is new: above the window, or with its bit clear. *)
LEMMA CheckedIsNew ==
  ASSUME ReplayInv, NEW r \in Records, r.epoch = in_epoch, ReplayCheck(r.number)
  PROVE  delivered[r] = 0
<1>1. r.number \in Nat /\ in_window_top \in Nat /\ delivered[r] \in Nat
  BY DEF ReplayInv, ReplayTypeOK, Records
<1>2. CASE r.number > in_window_top
  BY <1>1, <1>2 DEF ReplayInv, Window
<1>3. CASE in_window_top - r.number < 64 /\ in_window_top - r.number \notin in_window
            /\ ~(r.number > in_window_top)
  BY <1>1, <1>3 DEF ReplayInv, Window
<1> QED BY <1>2, <1>3 DEF ReplayCheck

(* The window after the update says the same as before, and that r was delivered. *)
LEMMA PassOnKeeps ==
  ASSUME ReplayInv, NEW r \in Records, PassOn(r)
  PROVE  /\ in_epoch' \in Nat /\ in_window_top' \in Nat /\ in_window' \subseteq Bits
         /\ delivered' \in [Records -> Nat] /\ Window' /\ NeverTwice'
<1>1. /\ r.number \in Nat /\ in_window_top \in Nat /\ in_epoch \in Nat
      /\ delivered \in [Records -> Nat] /\ in_window \subseteq Bits
  BY DEF ReplayInv, ReplayTypeOK, Records
<1>2. /\ in_epoch' = in_epoch /\ r.epoch = in_epoch
      /\ delivered' = [delivered EXCEPT ![r] = @ + 1]
      /\ ReplayCheck(r.number) /\ ReplayUpdate(r.number)
  BY DEF PassOn
<1>3. delivered[r] = 0
  BY <1>2, CheckedIsNew
<1>4. /\ delivered' \in [Records -> Nat] /\ delivered'[r] = 1
      /\ \A s \in Records : s # r => delivered'[s] = delivered[s]
  BY <1>1, <1>2, <1>3
<1>5. NeverTwice'
  BY <1>4 DEF ReplayInv, NeverTwice
<1>6. in_window_top' \in Nat /\ in_window' \subseteq Bits
  <2>1. CASE r.number > in_window_top
    <3>1. 0 \in Bits
      BY DEF Bits
    <3> QED BY <1>1, <1>2, <2>1, <3>1 DEF ReplayUpdate
  <2>2. CASE ~(r.number > in_window_top)
    BY <1>1, <1>2, <2>2 DEF ReplayUpdate
  <2> QED BY <2>1, <2>2
<1>7. Window'
  <2> SUFFICES ASSUME NEW s \in Records
               PROVE  /\ s.epoch > in_epoch => delivered'[s] = 0
                      /\ s.epoch = in_epoch /\ delivered'[s] > 0 => s.number <= in_window_top'
                      /\ s.epoch = in_epoch /\ s.number <= in_window_top'
                         /\ in_window_top' - s.number < 64
                         => (in_window_top' - s.number \in in_window' <=> delivered'[s] > 0)
    BY <1>2 DEF Window
  <2>1. /\ s.number \in Nat /\ s.epoch \in Int /\ delivered[s] \in Nat
        /\ (s.epoch = r.epoch /\ s.number = r.number => s = r)
    <3>1. delivered[s] \in Nat
      BY <1>1
    <3>2. s.number \in Nat /\ s.epoch \in Int
      BY DEF Records
    <3>3. /\ s = [epoch |-> s.epoch, number |-> s.number]
          /\ r = [epoch |-> r.epoch, number |-> r.number]
      BY DEF Records
    <3>4. s.epoch = r.epoch /\ s.number = r.number => s = r
      BY <3>3
    <3> QED BY <3>1, <3>2, <3>4
  <2>2. /\ s.epoch > in_epoch => delivered[s] = 0
        /\ s.epoch = in_epoch /\ delivered[s] > 0 => s.number <= in_window_top
        /\ s.epoch = in_epoch /\ s.number <= in_window_top /\ in_window_top - s.number < 64
           => (in_window_top - s.number \in in_window <=> delivered[s] > 0)
    BY DEF ReplayInv, Window
  <2>3. s.epoch > in_epoch => delivered'[s] = 0
    BY <1>1, <1>2, <1>4, <2>1, <2>2
  <2>4. CASE r.number > in_window_top
    <3>1. /\ in_window_top' = r.number
          /\ in_window' = {b \in Bits : b - (r.number - in_window_top) \in in_window} \cup {0}
      BY <1>2, <2>4 DEF ReplayUpdate
    <3>2. CASE s = r
      BY <1>1, <1>2, <1>4, <2>1, <3>1, <3>2
    <3>3. CASE s # r /\ s.epoch = in_epoch
      <4>1. delivered'[s] = delivered[s] /\ s.number # r.number
        BY <1>2, <1>4, <2>1, <3>3
      <4>2. delivered[s] > 0 => s.number <= in_window_top'
        BY <1>1, <2>1, <2>2, <2>4, <3>1, <3>3
      <4>3. ASSUME s.number <= in_window_top', in_window_top' - s.number < 64
            PROVE  in_window_top' - s.number \in in_window' <=> delivered[s] > 0
        <5>1. /\ in_window_top' - s.number \in Bits \ {0}
              /\ (in_window_top' - s.number) - (r.number - in_window_top)
                   = in_window_top - s.number
          BY <1>1, <2>1, <3>1, <4>1, <4>3 DEF Bits
        <5>2. in_window_top' - s.number \in in_window' <=> in_window_top - s.number \in in_window
          BY <3>1, <5>1
        <5>3. CASE s.number <= in_window_top
          BY <1>1, <2>1, <2>2, <2>4, <3>1, <3>3, <4>3, <5>2, <5>3
        <5>4. CASE ~(s.number <= in_window_top)
          BY <1>1, <2>1, <2>2, <3>3, <5>2, <5>4 DEF Bits
        <5> QED BY <5>3, <5>4
      <4> QED BY <2>3, <4>1, <4>2, <4>3
    <3> QED BY <1>2, <2>3, <3>2, <3>3
  <2>5. CASE ~(r.number > in_window_top)
    <3>1. /\ in_window_top' = in_window_top
          /\ in_window' = in_window \cup ({in_window_top - r.number} \cap Bits)
      BY <1>2, <2>5 DEF ReplayUpdate
    <3>2. in_window_top - r.number \in Bits
      BY <1>1, <1>2, <2>5 DEF ReplayCheck, Bits
    <3>3. CASE s = r
      BY <1>1, <1>2, <1>4, <2>1, <2>5, <3>1, <3>2, <3>3
    <3>4. CASE s # r /\ s.epoch = in_epoch
      <4>1. /\ delivered'[s] = delivered[s]
            /\ in_window_top - s.number # in_window_top - r.number
        BY <1>1, <1>2, <1>4, <2>1, <3>4
      <4> QED BY <2>2, <2>3, <3>1, <3>2, <3>4, <4>1
    <3> QED BY <1>2, <2>3, <3>3, <3>4
  <2> QED BY <2>4, <2>5
<1> QED BY <1>1, <1>2, <1>4, <1>5, <1>6, <1>7

\* Every step keeps what the window means.
LEMMA ReplayStepInv == ReplayInv /\ [ReplayNext]_replayVars => ReplayInv'
<1> SUFFICES ASSUME ReplayInv, [ReplayNext]_replayVars PROVE ReplayInv'
  OBVIOUS
<1>1. CASE UNCHANGED replayVars
  BY <1>1 DEF replayVars, ReplayInv, ReplayTypeOK, Window, NeverTwice, ReplayCheck
<1>2. ASSUME NEW r \in Records, ParseRecordHeader(r) PROVE ReplayInv'
  BY <1>2, PassOnKeeps DEF ParseRecordHeader, ReplayInv, ReplayTypeOK
<1>3. ASSUME NEW r \in Records, ReadBufferedRecord(r) PROVE ReplayInv'
  <2>1. CASE PassOn(r)
    BY <1>3, <2>1, PassOnKeeps DEF ReadBufferedRecord, ReplayInv, ReplayTypeOK
  <2>2. CASE UNCHANGED <<in_epoch, in_window_top, in_window, delivered>>
    BY <1>3, <2>2 DEF ReadBufferedRecord, ReplayInv, ReplayTypeOK, Window, NeverTwice
  <2> QED BY <1>3, <2>1, <2>2 DEF ReadBufferedRecord
<1>4. ASSUME NEW r \in Records, BufferFutureRecord(r) PROVE ReplayInv'
  BY <1>4 DEF BufferFutureRecord, ReplayInv, ReplayTypeOK, Window, NeverTwice
<1>5. CASE ParseChangeCipherSpec
  <2>1. in_epoch \in Nat /\ \A s \in Records : s.epoch \in Int /\ s.number \in Nat
    BY DEF ReplayInv, ReplayTypeOK, Records
  <2>2. \A s \in Records : s.epoch >= in_epoch' => delivered[s] = 0
    BY <1>5, <2>1 DEF ParseChangeCipherSpec, ReplayInv, Window
  <2>3. Window'
    BY <1>5, <2>1, <2>2 DEF ParseChangeCipherSpec, Window
  <2> QED BY <1>5, <2>1, <2>3 DEF ParseChangeCipherSpec, ReplayInv, ReplayTypeOK, NeverTwice
<1>6. CASE RecvFlightCompleted
  BY <1>6 DEF RecvFlightCompleted, ReplayInv, ReplayTypeOK, Window, NeverTwice
<1>7. CASE SessionReset
  BY <1>7 DEF SessionReset, ReplayInv, ReplayTypeOK, Window, NeverTwice, Records, Bits
<1> QED BY <1>1, <1>2, <1>3, <1>4, <1>5, <1>6, <1>7 DEF ReplayNext

\* So it means that in every state.
LEMMA ReplayInductive == ReplaySpec => []ReplayInv
  BY ReplayInitInv, ReplayStepInv, PTL DEF ReplaySpec

(* The types of the window's variables. *)
THEOREM ReplayTypeCorrect == ReplaySpec => []ReplayTypeOK
<1>1. ReplayInv => ReplayTypeOK
  BY DEF ReplayInv
<1> QED BY <1>1, ReplayInductive, PTL

(* No record is passed on twice, whatever the network repeats. *)
THEOREM DeliversOnce == ReplaySpec => []NeverTwice
<1>1. ReplayInv => NeverTwice
  BY DEF ReplayInv
<1> QED BY <1>1, ReplayInductive, PTL

(* No record is refused that is new and not 64 numbers behind. *)
THEOREM RefusesNone == ReplaySpec => []NoneRefused
<1>1. ReplayInv => NoneRefused
  <2> SUFFICES ASSUME ReplayInv, NEW r \in Records, r.epoch = in_epoch, delivered[r] = 0,
                      r.number > in_window_top - 64
               PROVE  ReplayCheck(r.number)
    BY DEF NoneRefused
  <2>1. r.number \in Nat /\ in_window_top \in Nat
    BY DEF ReplayInv, ReplayTypeOK, Records
  <2> QED BY <2>1 DEF ReplayCheck, ReplayInv, Window
<1> QED BY <1>1, ReplayInductive, PTL

--------------------------------------------------------------------------------
(* The bit mask of ssl_bitmask_set.                                        *)

\* Where a natural number lies among the bytes of a mask.
LEMMA Octets ==
  ASSUME NEW x \in Nat
  PROVE  /\ x \div 8 \in Nat /\ x % 8 \in 0 .. 7 /\ x = 8 * (x \div 8) + (x % 8)
OBVIOUS

\* The bits of one byte are neighbours in the message.
LEMMA BitsAreNeighbours ==
  ASSUME NEW i \in Nat, NEW from \in Int, NEW to \in Int
  PROVE  BitsOf(i, from .. to) = 8 * i + 7 - to .. 8 * i + 7 - from
<1>1. ASSUME NEW b \in BitsOf(i, from .. to) PROVE b \in 8 * i + 7 - to .. 8 * i + 7 - from
  BY <1>1 DEF BitsOf
<1>2. ASSUME NEW b \in 8 * i + 7 - to .. 8 * i + 7 - from PROVE b \in BitsOf(i, from .. to)
  <2>1. 8 * i + 7 - b \in from .. to /\ b = 8 * i + 7 - (8 * i + 7 - b)
    BY <1>2
  <2> QED
    BY <2>1 DEF BitsOf
<1> QED
  BY <1>1, <1>2

\* Whatever bits of whatever bytes the fragment begins and ends with, exactly its own
\* are set.
LEMMA BitmaskSetAdds ==
  ASSUME NEW mask, NEW offset \in Nat, NEW len \in Nat
  PROVE  BitmaskSet(mask, offset, len) = mask \cup (offset .. offset + len - 1)
<1> DEFINE start_bits == 8 - (offset % 8)
           head == IF start_bits = 8 THEN 0 ELSE start_bits
           from == (offset + head) \div 8
           to == (len - head) \div 8
           end_bits == (len - head) % 8
           byte == offset \div 8
<1>1. /\ byte \in Nat /\ start_bits \in 1 .. 8 /\ head \in 0 .. 7
      /\ offset = 8 * byte + (8 - start_bits)
  BY Octets
<1>2. CASE start_bits # 8 /\ len <= start_bits
  <2>1. BitmaskSet(mask, offset, len)
          = mask \cup BitsOf(byte, start_bits - len .. start_bits - 1)
    BY <1>2 DEF BitmaskSet
  <2> HIDE DEF start_bits, byte
  <2>2. BitsOf(byte, start_bits - len .. start_bits - 1)
          = 8 * byte + 7 - (start_bits - 1) .. 8 * byte + 7 - (start_bits - len)
    BY <1>1, BitsAreNeighbours
  <2>3. /\ 8 * byte + 7 - (start_bits - 1) = offset
        /\ 8 * byte + 7 - (start_bits - len) = offset + len - 1
    BY <1>1
  <2> QED
    BY <2>1, <2>2, <2>3
<1>3. CASE ~(start_bits # 8 /\ len <= start_bits)
  <2>1. BitmaskSet(mask, offset, len)
          = mask \cup BitsOf(byte, 0 .. head - 1) \cup BitsOf(from + to, 8 - end_bits .. 7)
                 \cup (8 * from .. 8 * (from + to) - 1)
    BY <1>3 DEF BitmaskSet
  <2>2. len - head \in Nat
    BY <1>1, <1>3
  <2>3. to \in Nat /\ end_bits \in 0 .. 7 /\ len - head = 8 * to + end_bits
    BY <2>2, Octets
  <2>4. from \in Nat /\ offset + head = 8 * from
    <3>1. offset + head \in Nat
      BY <1>1
    <3>2. from \in Nat /\ offset + head = 8 * from + ((offset + head) % 8)
      BY <3>1, Octets
    <3>3. offset + head = 8 * byte \/ offset + head = 8 * (byte + 1)
      BY <1>1
    <3>4. (offset + head) % 8 \in 0 .. 7
      BY <3>1, Octets
    <3> HIDE DEF from, byte
    <3> QED
      BY <1>1, <3>1, <3>2, <3>3, <3>4
  <2>5. head = 0 \/ offset + head = 8 * byte + 8
    BY <1>1
  <2> HIDE DEF start_bits, head, from, to, end_bits, byte
  <2>6. BitsOf(byte, 0 .. head - 1) = 8 * byte + 7 - (head - 1) .. 8 * byte + 7 - 0
    BY <1>1, BitsAreNeighbours
  <2>7. BitsOf(byte, 0 .. head - 1) = offset .. offset + head - 1
    BY <1>1, <2>5, <2>6
  <2>8. BitsOf(from + to, 8 - end_bits .. 7)
          = 8 * (from + to) + 7 - 7 .. 8 * (from + to) + 7 - (8 - end_bits)
    <3>1. from + to \in Nat /\ 8 - end_bits \in Int /\ 7 \in Int
      BY <2>3, <2>4
    <3> QED
      BY <3>1, BitsAreNeighbours
  <2>9. 8 * (from + to) = offset + len - end_bits
    BY <1>1, <2>3, <2>4
  <2>10. BitsOf(from + to, 8 - end_bits .. 7) = offset + len - end_bits .. offset + len - 1
    BY <2>3, <2>8, <2>9
  <2>11. (8 * from .. 8 * (from + to) - 1) = (offset + head .. offset + len - end_bits - 1)
    BY <1>1, <2>3, <2>4, <2>9
  <2>12. offset .. offset + len - 1
           = (offset .. offset + head - 1) \cup (offset + len - end_bits .. offset + len - 1)
             \cup (offset + head .. offset + len - end_bits - 1)
    BY <1>1, <2>2, <2>3
  <2> QED
    BY <2>1, <2>7, <2>10, <2>11, <2>12
<1> QED
  BY <1>2, <1>3

--------------------------------------------------------------------------------
(* What the slots hold.                                                    *)

\* A set of natural numbers that is not empty has a least element.
LEMMA LeastNat ==
  ASSUME NEW S \in SUBSET Nat, S # {}
  PROVE  \E x \in S : \A y \in S : x <= y
<1> DEFINE R == OpToRel(<, Nat)
<1>1. IsWellFoundedOn(R, Nat)
  BY NatLessThanWellFounded, PTL
<1>2. \A x, y \in Nat : x < y => <<x, y>> \in R
  BY SMT DEF OpToRel
<1> HIDE DEF R
<1>3. PICK x \in S : \A y \in S : <<y, x>> \notin R
  BY <1>1, WFMin, Zenon
<1>4. \A y \in S : ~ (y < x)
  BY <1>2, <1>3
<1> QED
  BY <1>4

\* What holds of 0, and of k if it holds of k - 1, holds of all numbers to a limit.
LEMMA InductionUpTo ==
  ASSUME NEW limit \in Nat, NEW S, 0 \in S, \A k \in 1 .. limit : k - 1 \in S => k \in S
  PROVE  \A k \in 0 .. limit : k \in S
<1> DEFINE Left == {k \in 0 .. limit : k \notin S}
<1> SUFFICES ASSUME Left # {} PROVE FALSE
  OBVIOUS
<1>1. Left \in SUBSET Nat
  OBVIOUS
<1>2. PICK k \in Left : \A j \in Left : k <= j
  <2> HIDE DEF Left
  <2> QED
    BY <1>1, LeastNat
<1>3. k \in 1 .. limit /\ k - 1 \in 0 .. limit /\ ~ (k <= k - 1)
  BY <1>2
<1>4. k - 1 \in S
  BY <1>2, <1>3
<1> QED
  BY <1>2, <1>3, <1>4

\* Held is defined: the recursion has a solution up to every number of slots.
LEMMA HeldEquation ==
  ASSUME NEW slots
  PROVE  Held(slots) = [k \in 0 .. MAX_BUFFERED_HS |->
                         IF k = 0 THEN 0 ELSE Held(slots)[k - 1] + slots[k - 1].data_len]
<1> DEFINE Solves(f, m) ==
             f = [k \in 0 .. m |-> IF k = 0 THEN 0 ELSE f[k - 1] + slots[k - 1].data_len]
           Unsolved == {m \in Nat : ~ \E f : Solves(f, m)}
<1>1. Unsolved = {}
  <2> SUFFICES ASSUME Unsolved # {} PROVE FALSE
    OBVIOUS
  <2>1. PICK m \in Unsolved : \A k \in Unsolved : m <= k
    <3>1. Unsolved \in SUBSET Nat
      OBVIOUS
    <3> HIDE DEF Unsolved
    <3> QED
      BY <3>1, LeastNat
  <2>2. m # 0
    <3>1. Solves([k \in 0 .. 0 |-> 0], 0)
      OBVIOUS
    <3> QED
      BY <3>1
  <2>3. PICK f : Solves(f, m - 1)
    <3>1. m - 1 \in Nat /\ ~ (m <= m - 1)
      BY <2>1, <2>2
    <3>2. m - 1 \notin Unsolved
      BY <2>1, <3>1
    <3> HIDE DEF Solves
    <3> QED
      BY <3>1, <3>2
  <2> DEFINE g == [k \in 0 .. m |-> IF k = m THEN f[m - 1] + slots[m - 1].data_len ELSE f[k]]
  <2>4. \A k \in 0 .. m : g[k] = IF k = 0 THEN 0 ELSE g[k - 1] + slots[k - 1].data_len
    <3> SUFFICES ASSUME NEW k \in 0 .. m
                 PROVE  g[k] = IF k = 0 THEN 0 ELSE g[k - 1] + slots[k - 1].data_len
      OBVIOUS
    <3>1. CASE k = m
      BY <2>1, <2>2, <3>1
    <3>2. CASE k # m
      <4>1. g[k] = f[k] /\ k \in 0 .. m - 1
        BY <2>1, <3>2
      <4>2. f[k] = IF k = 0 THEN 0 ELSE f[k - 1] + slots[k - 1].data_len
        BY <2>3, <4>1
      <4>3. k # 0 => g[k - 1] = f[k - 1]
        BY <2>1, <3>2
      <4> QED
        BY <4>1, <4>2, <4>3
    <3> QED
      BY <3>1, <3>2
  <2>5. Solves(g, m)
    <3> HIDE DEF g
    <3>1. g = [k \in 0 .. m |-> g[k]]
      BY DEF g
    <3> QED
      BY <2>4, <3>1
  <2> QED
    BY <2>1, <2>5
<1>2. PICK f : Solves(f, MAX_BUFFERED_HS)
  BY <1>1, FragmentsAssumption
<1> QED
  BY <1>2 DEF Held

\* The slots' sizes add up.
LEMMA HeldFacts ==
  ASSUME NEW slots, \A i \in Slots : slots[i].data_len \in Nat
  PROVE  /\ Held(slots)[0] = 0
         /\ \A k \in 1 .. MAX_BUFFERED_HS :
              k - 1 \in Slots /\ Held(slots)[k] = Held(slots)[k - 1] + slots[k - 1].data_len
         /\ \A k \in 0 .. MAX_BUFFERED_HS : Held(slots)[k] \in Nat
<1> DEFINE h == Held(slots)
           Typed == {k \in 0 .. MAX_BUFFERED_HS : h[k] \in Nat}
<1>1. MAX_BUFFERED_HS \in Nat \ {0}
  BY FragmentsAssumption
<1>2. h = [k \in 0 .. MAX_BUFFERED_HS |-> IF k = 0 THEN 0 ELSE h[k - 1] + slots[k - 1].data_len]
  BY HeldEquation
<1> HIDE DEF h
<1>3. \A k \in 0 .. MAX_BUFFERED_HS : h[k] = IF k = 0 THEN 0 ELSE h[k - 1] + slots[k - 1].data_len
  BY <1>2
<1>4. h[0] = 0
  BY <1>1, <1>3
<1>5. \A k \in 1 .. MAX_BUFFERED_HS : k - 1 \in Slots /\ h[k] = h[k - 1] + slots[k - 1].data_len
  <2> SUFFICES ASSUME NEW k \in 1 .. MAX_BUFFERED_HS
               PROVE  k - 1 \in Slots /\ h[k] = h[k - 1] + slots[k - 1].data_len
    OBVIOUS
  <2>1. k \in 0 .. MAX_BUFFERED_HS /\ k # 0 /\ k - 1 \in Slots
    BY <1>1 DEF Slots
  <2> QED
    BY <1>3, <2>1
<1>6. 0 \in Typed
  BY <1>1, <1>4
<1>7. \A k \in 1 .. MAX_BUFFERED_HS : k - 1 \in Typed => k \in Typed
  <2> SUFFICES ASSUME NEW k \in 1 .. MAX_BUFFERED_HS, k - 1 \in Typed PROVE k \in Typed
    BY Zenon
  <2>1. h[k - 1] \in Nat /\ slots[k - 1].data_len \in Nat
    BY <1>5
  <2> QED
    BY <1>1, <1>5, <2>1
<1>8. \A k \in 0 .. MAX_BUFFERED_HS : k \in Typed
  <2> HIDE DEF Typed
  <2> QED
    BY <1>1, <1>6, <1>7, InductionUpTo
<1> QED
  BY <1>4, <1>5, <1>8 DEF h

\* Filling one slot.
LEMMA HeldExcept ==
  ASSUME NEW slots, DOMAIN slots = Slots, \A i \in Slots : slots[i].data_len \in Nat,
         NEW j \in Slots, NEW slot, slot.data_len \in Nat
  PROVE  Held([slots EXCEPT ![j] = slot])[MAX_BUFFERED_HS]
           = Held(slots)[MAX_BUFFERED_HS] + slot.data_len - slots[j].data_len
<1> DEFINE new == [slots EXCEPT ![j] = slot]
           h == Held(slots)
           g == Held(new)
           Same == {k \in 0 .. MAX_BUFFERED_HS :
                      g[k] = h[k] + (IF k <= j THEN 0 ELSE slot.data_len - slots[j].data_len)}
<1>1. /\ MAX_BUFFERED_HS \in Nat \ {0} /\ j \in Nat /\ j < MAX_BUFFERED_HS
      /\ slots[j].data_len \in Nat
  BY FragmentsAssumption DEF Slots
<1>2. new[j] = slot /\ \A i \in Slots : i # j => new[i] = slots[i]
  OBVIOUS
<1>3. \A i \in Slots : new[i].data_len \in Nat
  <2> HIDE DEF new
  <2> QED
    BY <1>2
<1> HIDE DEF new
<1>4. /\ h[0] = 0 /\ \A k \in 0 .. MAX_BUFFERED_HS : h[k] \in Nat
      /\ \A k \in 1 .. MAX_BUFFERED_HS : k - 1 \in Slots /\ h[k] = h[k - 1] + slots[k - 1].data_len
  BY HeldFacts
<1>5. /\ g[0] = 0 /\ \A k \in 0 .. MAX_BUFFERED_HS : g[k] \in Nat
      /\ \A k \in 1 .. MAX_BUFFERED_HS : k - 1 \in Slots /\ g[k] = g[k - 1] + new[k - 1].data_len
  BY <1>3, HeldFacts
<1> HIDE DEF h, g
<1>6. 0 \in Same
  BY <1>1, <1>4, <1>5
<1>7. \A k \in 1 .. MAX_BUFFERED_HS : k - 1 \in Same => k \in Same
  <2> SUFFICES ASSUME NEW k \in 1 .. MAX_BUFFERED_HS, k - 1 \in Same PROVE k \in Same
    BY Zenon
  <2>1. /\ k - 1 \in Slots /\ h[k] = h[k - 1] + slots[k - 1].data_len
        /\ g[k] = g[k - 1] + new[k - 1].data_len
        /\ g[k - 1] = h[k - 1] + (IF k - 1 <= j THEN 0 ELSE slot.data_len - slots[j].data_len)
        /\ h[k - 1] \in Nat /\ slots[k - 1].data_len \in Nat
    BY <1>1, <1>4, <1>5
  <2>2. CASE k - 1 = j
    <3>1. new[k - 1].data_len = slot.data_len
      BY <1>2, <2>2
    <3> QED
      BY <1>1, <2>1, <2>2, <3>1
  <2>3. CASE k - 1 # j
    <3>1. new[k - 1].data_len = slots[k - 1].data_len
      BY <1>2, <2>1, <2>3
    <3> QED
      BY <1>1, <2>1, <2>3, <3>1
  <2> QED
    BY <2>2, <2>3
<1>8. MAX_BUFFERED_HS \in Same
  <2> HIDE DEF Same
  <2>1. MAX_BUFFERED_HS \in 0 .. MAX_BUFFERED_HS
    BY <1>1
  <2> QED
    BY <1>1, <1>6, <1>7, <2>1, InductionUpTo
<1>9. g[MAX_BUFFERED_HS] = h[MAX_BUFFERED_HS] + (slot.data_len - slots[j].data_len)
  BY <1>1, <1>8
<1>10. h[MAX_BUFFERED_HS] \in Nat
  BY <1>1, <1>4
<1> QED
  BY <1>1, <1>9, <1>10 DEF new, g, h

\* Freeing the slots from the k-th on.
LEMMA HeldFreed ==
  ASSUME NEW slots, \A i \in Slots : slots[i].data_len \in Nat, NEW k \in Slots
  PROVE  Held([i \in Slots |-> IF i >= k THEN Empty ELSE slots[i]])[MAX_BUFFERED_HS]
           = Held(slots)[k]
<1> DEFINE new == [i \in Slots |-> IF i >= k THEN Empty ELSE slots[i]]
           h == Held(slots)
           g == Held(new)
           Same == {m \in 0 .. MAX_BUFFERED_HS : g[m] = IF m <= k THEN h[m] ELSE h[k]}
<1>1. MAX_BUFFERED_HS \in Nat \ {0} /\ k \in Nat /\ k < MAX_BUFFERED_HS
  BY FragmentsAssumption DEF Slots
<1>2. \A i \in Slots : new[i] = IF i >= k THEN Empty ELSE slots[i]
  OBVIOUS
<1> HIDE DEF new
<1>3. Empty.data_len = 0
  BY DEF Empty
<1>4. \A i \in Slots : new[i].data_len = IF i >= k THEN 0 ELSE slots[i].data_len
  BY <1>2, <1>3
<1>5. \A i \in Slots : new[i].data_len \in Nat
  BY <1>4
<1>6. /\ h[0] = 0 /\ \A m \in 0 .. MAX_BUFFERED_HS : h[m] \in Nat
      /\ \A m \in 1 .. MAX_BUFFERED_HS : m - 1 \in Slots /\ h[m] = h[m - 1] + slots[m - 1].data_len
  BY HeldFacts
<1>7. /\ g[0] = 0
      /\ \A m \in 1 .. MAX_BUFFERED_HS : m - 1 \in Slots /\ g[m] = g[m - 1] + new[m - 1].data_len
  BY <1>5, HeldFacts
<1> HIDE DEF h, g
<1>8. 0 \in Same
  BY <1>1, <1>6, <1>7
<1>9. \A m \in 1 .. MAX_BUFFERED_HS : m - 1 \in Same => m \in Same
  <2> SUFFICES ASSUME NEW m \in 1 .. MAX_BUFFERED_HS, m - 1 \in Same PROVE m \in Same
    BY Zenon
  <2>1. /\ m - 1 \in Slots /\ h[m] = h[m - 1] + slots[m - 1].data_len
        /\ g[m] = g[m - 1] + (IF m - 1 >= k THEN 0 ELSE slots[m - 1].data_len)
        /\ g[m - 1] = IF m - 1 <= k THEN h[m - 1] ELSE h[k]
    BY <1>4, <1>6, <1>7
  <2>2. h[m - 1] \in Nat /\ h[k] \in Nat
    BY <1>1, <1>6
  <2>3. CASE m - 1 < k
    <3>1. g[m] = h[m] /\ m <= k
      BY <1>1, <2>1, <2>3
    <3> QED
      BY <1>1, <3>1
  <2>4. CASE m - 1 = k
    <3>1. g[m] = h[k] /\ ~(m <= k)
      BY <1>1, <2>1, <2>2, <2>4
    <3> QED
      BY <1>1, <3>1
  <2>5. CASE m - 1 > k
    <3>1. g[m] = h[k] /\ ~(m <= k)
      BY <1>1, <2>1, <2>2, <2>5
    <3> QED
      BY <1>1, <3>1
  <2> QED
    BY <1>1, <2>3, <2>4, <2>5
<1>10. MAX_BUFFERED_HS \in Same
  <2> HIDE DEF Same
  <2>1. MAX_BUFFERED_HS \in 0 .. MAX_BUFFERED_HS
    BY <1>1
  <2> QED
    BY <1>1, <1>8, <1>9, <2>1, InductionUpTo
<1> QED
  BY <1>1, <1>10 DEF new, g, h

\* Moving the slots up.
LEMMA HeldShifted ==
  ASSUME NEW slots, \A i \in Slots : slots[i].data_len \in Nat
  PROVE  Held([i \in Slots |-> IF i + 1 \in Slots THEN slots[i + 1] ELSE Empty])[MAX_BUFFERED_HS]
           = Held(slots)[MAX_BUFFERED_HS] - slots[0].data_len
<1> DEFINE new == [i \in Slots |-> IF i + 1 \in Slots THEN slots[i + 1] ELSE Empty]
           h == Held(slots)
           g == Held(new)
           first == slots[0].data_len
           up(m) == IF m < MAX_BUFFERED_HS THEN m + 1 ELSE m
           Same == {m \in 0 .. MAX_BUFFERED_HS : g[m] = h[up(m)] - first}
<1>1. MAX_BUFFERED_HS \in Nat \ {0} /\ 0 \in Slots /\ first \in Nat
  BY FragmentsAssumption DEF Slots
<1>2. \A i \in Slots : new[i] = IF i + 1 \in Slots THEN slots[i + 1] ELSE Empty
  OBVIOUS
<1> HIDE DEF new
<1>3. Empty.data_len = 0
  BY DEF Empty
<1>4. \A i \in Slots : new[i].data_len = IF i + 1 \in Slots THEN slots[i + 1].data_len ELSE 0
  BY <1>2, <1>3
<1>5. \A i \in Slots : new[i].data_len \in Nat
  BY <1>4
<1>6. /\ h[0] = 0 /\ \A m \in 0 .. MAX_BUFFERED_HS : h[m] \in Nat
      /\ \A m \in 1 .. MAX_BUFFERED_HS : m - 1 \in Slots /\ h[m] = h[m - 1] + slots[m - 1].data_len
  BY HeldFacts
<1>7. /\ g[0] = 0
      /\ \A m \in 1 .. MAX_BUFFERED_HS : m - 1 \in Slots /\ g[m] = g[m - 1] + new[m - 1].data_len
  BY <1>5, HeldFacts
<1>8. 0 \in Same
  <2>1. h[1] = h[1 - 1] + slots[1 - 1].data_len /\ 1 - 1 = 0 /\ up(0) = 1
    BY <1>1, <1>6
  <2> HIDE DEF h, g, up
  <2> QED
    BY <1>1, <1>6, <1>7, <2>1
<1> HIDE DEF h, g, first
<1>9. \A m \in 1 .. MAX_BUFFERED_HS : m - 1 \in Same => m \in Same
  <2> SUFFICES ASSUME NEW m \in 1 .. MAX_BUFFERED_HS, m - 1 \in Same PROVE m \in Same
    BY Zenon
  <2>1. /\ m - 1 \in Slots /\ m - 1 + 1 = m /\ up(m - 1) = m /\ m \in Nat
        /\ g[m] = g[m - 1] + (IF m \in Slots THEN slots[m].data_len ELSE 0)
        /\ g[m - 1] = h[m] - first
    BY <1>1, <1>4, <1>7
  <2>2. h[m] \in Nat
    BY <1>1, <1>6
  <2>3. CASE m < MAX_BUFFERED_HS
    <3>1. m \in Slots /\ m + 1 \in 1 .. MAX_BUFFERED_HS /\ m + 1 - 1 = m /\ up(m) = m + 1
      BY <1>1, <2>3 DEF Slots
    <3>2. h[m + 1] = h[m] + slots[m].data_len /\ slots[m].data_len \in Nat
      BY <1>6, <3>1
    <3>3. g[m] = h[m + 1] - first
      BY <1>1, <2>1, <2>2, <3>1, <3>2
    <3> QED
      BY <1>1, <3>1, <3>3
  <2>4. CASE m = MAX_BUFFERED_HS
    <3>1. m \notin Slots /\ up(m) = m
      BY <1>1, <2>4 DEF Slots
    <3>2. g[m] = h[m] - first
      BY <1>1, <2>1, <2>2, <3>1
    <3> QED
      BY <1>1, <3>1, <3>2
  <2> QED
    BY <1>1, <2>3, <2>4
<1>10. MAX_BUFFERED_HS \in Same
  <2> HIDE DEF Same
  <2>1. MAX_BUFFERED_HS \in 0 .. MAX_BUFFERED_HS
    BY <1>1
  <2> QED
    BY <1>1, <1>8, <1>9, <2>1, InductionUpTo
<1>11. up(MAX_BUFFERED_HS) = MAX_BUFFERED_HS
  BY <1>1
<1> QED
  BY <1>10, <1>11 DEF new, g, h, first

--------------------------------------------------------------------------------
(* Fragmentation and reassembly.  Whole says nothing of a message that is not yet   *)
(* complete, so it is not inductive.  What the slots are between two fragments is   *)
(* Reassembling: the mask is the set of the bytes that have come.                   *)

Reassembled(slots) == \A i \in Slots : IsReassembly(slots[i], in_msg_seq + i)

FragmentsInv ==
  /\ FragmentsTypeOK
  /\ Reassembling
  /\ total_bytes_buffered = Held(hs)[MAX_BUFFERED_HS]
  /\ total_bytes_buffered <= MAX_BUFFERING

\* The messages of a flight and their lengths.
LEMMA FlightFacts ==
  /\ Len(Lengths) \in Nat /\ DOMAIN Lengths = 1 .. Len(Lengths)
  /\ \A m \in DOMAIN Lengths : Lengths[m] \in Nat
BY FragmentsAssumption

\* A slot that holds nothing.
LEMMA EmptyFacts ==
  /\ Empty \in Reassembly /\ Empty.data_len = 0 /\ ~Empty.is_valid /\ ~Empty.is_complete
  /\ \A m : IsReassembly(Empty, m)
<1>1. Empty \in Reassembly /\ Empty.data_len = 0 /\ ~Empty.is_valid /\ ~Empty.is_complete
  BY DEF Empty, Reassembly
<1> QED
  BY <1>1 DEF IsReassembly

\* A piece that is not all of its message shows that there is something of it.
LEMMA ProperPieces ==
  ASSUME NEW f \in Pieces
  PROVE  /\ f.seq \in DOMAIN Lengths /\ f.off \in Nat /\ f.len \in Nat
         /\ Lengths[f.seq] \in Nat /\ f.off + f.len <= Lengths[f.seq]
         /\ IsProperFragment(f) => Lengths[f.seq] > 0
         /\ ~IsProperFragment(f) => f.off = 0 /\ f.len = Lengths[f.seq]
<1>1. /\ f.seq \in DOMAIN Lengths /\ f.off \in Nat /\ f.len \in Nat
      /\ f.off + f.len <= Lengths[f.seq]
  BY DEF Pieces
<1>2. Lengths[f.seq] \in Nat
  BY <1>1, FlightFacts
<1> QED
  BY <1>1, <1>2 DEF IsProperFragment

\* A slot that was just set up for piece f.
Fresh(slot, f) ==
  /\ slot \in Reassembly /\ slot.is_valid /\ ~slot.is_complete
  /\ slot.bytes = {} /\ slot.bitmask = {} /\ slot.is_fragmented = IsProperFragment(f)

\* A piece that is copied into the slot of its message leaves it with exactly the bytes
\* that have come.
LEMMA AddedFacts ==
  ASSUME NEW f \in Pieces, NEW slot \in Reassembly, slot.is_valid,
         IsReassembly(slot, f.seq) \/ Fresh(slot, f)
  PROVE  /\ Added(slot, f) \in Reassembly /\ IsReassembly(Added(slot, f), f.seq)
         /\ Added(slot, f).data_len = slot.data_len
<1>1. /\ f.seq \in DOMAIN Lengths /\ f.off \in Nat /\ f.len \in Nat
      /\ Lengths[f.seq] \in Nat /\ f.off + f.len <= Lengths[f.seq]
      /\ IsProperFragment(f) => Lengths[f.seq] > 0
      /\ ~IsProperFragment(f) => f.off = 0 /\ f.len = Lengths[f.seq]
  BY ProperPieces
<1> DEFINE all == 0 .. Lengths[f.seq] - 1
           own == f.off .. f.off + f.len - 1
<1>2. own \subseteq all /\ all \subseteq Nat /\ f.seq \in Nat /\ (~IsProperFragment(f) => own = all)
  BY <1>1, FlightFacts
<1>3. BytesOf(f) = {<<f.seq, b>> : b \in own}
  BY DEF BytesOf
<1>4. CASE slot.is_complete
  <2>1. IsReassembly(slot, f.seq)
    BY <1>4 DEF Fresh
  <2> QED
    BY <1>4, <2>1 DEF Added
<1>5. CASE ~slot.is_complete /\ slot.is_fragmented
  <2> DEFINE mask == slot.bitmask \cup own
             new == [slot EXCEPT !.bytes = @ \cup BytesOf(f), !.bitmask = mask,
                                 !.is_complete = slot.is_fragmented => all \subseteq mask]
  <2>1. Added(slot, f) = new
    <3>1. BitmaskSet(slot.bitmask, f.off, f.len) = mask
      BY <1>1, BitmaskSetAdds
    <3> HIDE DEF mask, own
    <3> QED
      BY <1>5, <3>1, Zenon DEF Added
  <2>2. slot.bytes = {<<f.seq, b>> : b \in slot.bitmask} /\ slot.bitmask \subseteq all
    BY <1>5 DEF IsReassembly, Fresh
  <2>3. mask \subseteq all /\ slot.bytes \cup BytesOf(f) = {<<f.seq, b>> : b \in mask}
    BY <1>2, <1>3, <2>2
  <2>4. slot.bytes \cup BytesOf(f) \subseteq Nat \X Nat
    <3> HIDE DEF all, mask
    <3> QED
      BY <1>2, <2>3
  <2> HIDE DEF own, all, mask
  <2>5. /\ new.is_valid = slot.is_valid /\ new.is_fragmented = slot.is_fragmented
        /\ new.data_len = slot.data_len /\ new.bytes = slot.bytes \cup BytesOf(f)
        /\ new.bitmask = mask /\ new.is_complete = (slot.is_fragmented => all \subseteq mask)
    BY DEF Reassembly
  <2>6. new \in Reassembly
    <3>1. (slot.is_fragmented => all \subseteq mask) \in BOOLEAN
      BY Zenon
    <3>2. mask \subseteq Nat
      BY <1>2, <2>3
    <3> QED
      BY <2>4, <3>1, <3>2 DEF Reassembly
  <2>7. IsReassembly(new, f.seq)
    <3>1. new.is_valid /\ new.is_fragmented
      BY <1>5, <2>5
    <3>2. new.bytes = {<<f.seq, b>> : b \in new.bitmask} /\ new.bitmask \subseteq all
      BY <2>3, <2>5
    <3>3. new.is_complete <=> all \subseteq new.bitmask
      BY <1>5, <2>5
    <3> HIDE DEF new
    <3> QED
      BY <1>1, <3>1, <3>2, <3>3 DEF IsReassembly, all
  <2> QED
    BY <2>1, <2>5, <2>6, <2>7
<1>6. CASE ~slot.is_complete /\ ~slot.is_fragmented
  <2> DEFINE new == [slot EXCEPT !.bytes = @ \cup BytesOf(f), !.bitmask = {},
                                 !.is_complete = slot.is_fragmented => all \subseteq {}]
  <2>1. Added(slot, f) = new
    BY <1>6 DEF Added
  <2>2. slot.bytes = {} /\ ~IsProperFragment(f)
    <3>1. ~IsReassembly(slot, f.seq)
      BY <1>6 DEF IsReassembly
    <3> QED
      BY <1>6, <3>1 DEF Fresh
  <2>3. slot.bytes \cup BytesOf(f) = {<<f.seq, b>> : b \in all}
    BY <1>2, <1>3, <2>2
  <2>4. slot.bytes \cup BytesOf(f) \subseteq Nat \X Nat
    <3> HIDE DEF all
    <3> QED
      BY <1>2, <2>3
  <2> HIDE DEF own, all
  <2>5. /\ new.is_valid = slot.is_valid /\ new.is_fragmented = slot.is_fragmented
        /\ new.data_len = slot.data_len /\ new.bytes = slot.bytes \cup BytesOf(f)
        /\ new.bitmask = {} /\ new.is_complete = (slot.is_fragmented => all \subseteq {})
    BY DEF Reassembly
  <2>6. new \in Reassembly
    <3>1. (slot.is_fragmented => all \subseteq {}) \in BOOLEAN
      BY Zenon
    <3> QED
      BY <2>4, <3>1 DEF Reassembly
  <2>7. IsReassembly(new, f.seq)
    <3>1. new.is_valid /\ ~new.is_fragmented /\ new.is_complete
      BY <1>6, <2>5
    <3>2. new.bytes = {<<f.seq, b>> : b \in all} /\ new.bitmask \subseteq all
      BY <2>3, <2>5
    <3> HIDE DEF new
    <3> QED
      BY <1>1, <3>1, <3>2 DEF IsReassembly, all
  <2> QED
    BY <2>1, <2>5, <2>6, <2>7
<1> QED
  BY <1>4, <1>5, <1>6

\* What BufferMessage sets a slot up with.
FreshSlot(f) ==
  [Empty EXCEPT !.is_valid = TRUE, !.is_fragmented = IsProperFragment(f),
                !.data_len = ReassemblyBufferSize(Lengths[f.seq], IsProperFragment(f))]

\* The size of a buffer is a number.
LEMMA SizeTyping ==
  ASSUME NEW f \in Pieces
  PROVE  ReassemblyBufferSize(Lengths[f.seq], IsProperFragment(f)) \in Nat
<1>1. Lengths[f.seq] \in Nat /\ HEADER \in Nat
  BY ProperPieces DEF HEADER
<1>2. (Lengths[f.seq] + 7) \div 8 \in Nat
  BY <1>1
<1> QED
  BY <1>1, <1>2 DEF ReassemblyBufferSize

\* What a slot is when its first fragment comes.
LEMMA FreshSlotFacts ==
  ASSUME NEW f \in Pieces
  PROVE  /\ Fresh(FreshSlot(f), f)
         /\ FreshSlot(f).data_len = ReassemblyBufferSize(Lengths[f.seq], IsProperFragment(f))
<1>1. ReassemblyBufferSize(Lengths[f.seq], IsProperFragment(f)) \in Nat
  BY SizeTyping
<1>2. IsProperFragment(f) \in BOOLEAN
  BY DEF IsProperFragment
<1> QED
  BY <1>1, <1>2 DEF FreshSlot, Fresh, Empty, Reassembly

\* One slot for another.
LEMMA PutFacts ==
  ASSUME NEW slots \in [Slots -> Reassembly], Reassembled(slots), NEW j \in Slots,
         NEW slot \in Reassembly, IsReassembly(slot, in_msg_seq + j)
  PROVE  /\ [slots EXCEPT ![j] = slot] \in [Slots -> Reassembly]
         /\ Reassembled([slots EXCEPT ![j] = slot])
         /\ Held([slots EXCEPT ![j] = slot])[MAX_BUFFERED_HS]
              = Held(slots)[MAX_BUFFERED_HS] + slot.data_len - slots[j].data_len
<1>1. \A i \in Slots : slots[i].data_len \in Nat
  BY DEF Reassembly
<1>2. slot.data_len \in Nat
  BY DEF Reassembly
<1>3. Held([slots EXCEPT ![j] = slot])[MAX_BUFFERED_HS]
        = Held(slots)[MAX_BUFFERED_HS] + slot.data_len - slots[j].data_len
  BY <1>1, <1>2, HeldExcept
<1> DEFINE new == [slots EXCEPT ![j] = slot]
<1>4. \A i \in Slots : new[i] = IF i = j THEN slot ELSE slots[i]
  OBVIOUS
<1>5. new \in [Slots -> Reassembly]
  OBVIOUS
<1> HIDE DEF new
<1>6. Reassembled(new)
  BY <1>4 DEF Reassembled
<1> QED
  BY <1>3, <1>5, <1>6 DEF new

\* What all slots hold together is a number.
LEMMA HeldTyping ==
  ASSUME FragmentsInv
  PROVE  /\ hs \in [Slots -> Reassembly] /\ Reassembled(hs)
         /\ \A i \in Slots : hs[i].data_len \in Nat
         /\ total_bytes_buffered \in Nat
         /\ \A k \in 0 .. MAX_BUFFERED_HS : Held(hs)[k] \in Nat
         /\ MAX_BUFFERED_HS \in Nat \ {0} /\ MAX_BUFFERING \in Nat /\ 0 \in Slots
<1>1. hs \in [Slots -> Reassembly] /\ Reassembled(hs)
  BY DEF FragmentsInv, FragmentsTypeOK, Reassembling, Reassembled
<1>2. \A i \in Slots : hs[i].data_len \in Nat
  BY <1>1 DEF Reassembly
<1>3. \A k \in 0 .. MAX_BUFFERED_HS : Held(hs)[k] \in Nat
  BY <1>2, HeldFacts
<1>4. MAX_BUFFERED_HS \in Nat \ {0} /\ MAX_BUFFERING \in Nat /\ 0 \in Slots
  BY FragmentsAssumption DEF Slots
<1>5. total_bytes_buffered \in Nat
  BY <1>3, <1>4 DEF FragmentsInv
<1> QED
  BY <1>1, <1>2, <1>3, <1>4, <1>5

\* Some slots have a last one.
LEMMA LastSlot ==
  ASSUME NEW S \in SUBSET Slots, S # {}
  PROVE  Max(S) \in S
<1> DEFINE R == {MAX_BUFFERED_HS - k : k \in S}
<1>1. R \in SUBSET Nat /\ R # {} /\ S \in SUBSET Int /\ MAX_BUFFERED_HS \in Int
  <2>1. MAX_BUFFERED_HS \in Nat
    BY FragmentsAssumption
  <2>2. \A k \in S : k \in Int /\ MAX_BUFFERED_HS - k \in Nat
    BY <2>1 DEF Slots
  <2> QED
    BY <2>1, <2>2
<1>2. PICK x \in R : \A y \in R : x <= y
  <2> HIDE DEF R
  <2> QED
    BY <1>1, LeastNat
<1>3. PICK k \in S : x = MAX_BUFFERED_HS - k
  BY <1>2
<1>4. \A j \in S : k >= j
  <2> SUFFICES ASSUME NEW j \in S PROVE k >= j
    OBVIOUS
  <2>1. MAX_BUFFERED_HS - k <= MAX_BUFFERED_HS - j
    BY <1>2, <1>3
  <2>2. k \in Int /\ j \in Int /\ MAX_BUFFERED_HS \in Int
    BY <1>1
  <2> QED
    BY <2>1, <2>2
<1> QED
  BY <1>4 DEF Max

\* Making space keeps what it does not free, and reports space only if there is.
LEMMA MakeSpaceFacts ==
  ASSUME FragmentsInv, NEW desired \in Nat, NEW space, space = MakeSpace(desired),
         ~hs[0].is_valid
  PROVE  /\ space[2] \in [Slots -> Reassembly] /\ Reassembled(space[2])
         /\ space[3] = Held(space[2])[MAX_BUFFERED_HS] /\ space[3] \in Nat
         /\ space[3] <= MAX_BUFFERING
         /\ space[1] => desired <= MAX_BUFFERING - space[3]
         /\ space[2][0] = Empty
<1> DEFINE freed(k) == [i \in Slots |-> IF i >= k THEN Empty ELSE hs[i]]
           total(k) == total_bytes_buffered - (Held(hs)[MAX_BUFFERED_HS] - Held(hs)[k])
           enough == {k \in Slots : desired <= MAX_BUFFERING - total(k)}
           last == IF enough = {} THEN 0 ELSE Max(enough)
<1>1. space = <<enough # {}, freed(last), total(last)>>
  BY DEF MakeSpace
<1>2. /\ hs \in [Slots -> Reassembly] /\ Reassembled(hs)
      /\ \A i \in Slots : hs[i].data_len \in Nat
      /\ total_bytes_buffered \in Nat
      /\ \A k \in 0 .. MAX_BUFFERED_HS : Held(hs)[k] \in Nat
      /\ MAX_BUFFERED_HS \in Nat \ {0} /\ MAX_BUFFERING \in Nat /\ 0 \in Slots
  BY HeldTyping
<1>3. enough # {} => last \in enough
  BY LastSlot
<1>4. last \in Slots
  BY <1>2, <1>3
<1>5. /\ space[1] = (enough # {}) /\ space[2] = freed(last) /\ space[3] = total(last)
  <2> HIDE DEF freed, total, enough, last
  <2> QED
    BY <1>1
<1>6. total(last) = Held(hs)[last] /\ total(last) \in Nat
  <2>1. last \in 0 .. MAX_BUFFERED_HS
    BY <1>2, <1>4 DEF Slots
  <2>2. total_bytes_buffered = Held(hs)[MAX_BUFFERED_HS]
    BY DEF FragmentsInv
  <2> HIDE DEF last
  <2>3. Held(hs)[last] \in Nat /\ Held(hs)[MAX_BUFFERED_HS] \in Nat
    BY <1>2, <2>1
  <2> QED
    BY <2>2, <2>3
<1>7. Held(freed(last))[MAX_BUFFERED_HS] = Held(hs)[last]
  <2> HIDE DEF last
  <2> QED
    BY <1>2, <1>4, HeldFreed
<1>8. enough # {} => desired <= MAX_BUFFERING - total(last)
  BY <1>3
<1>9. total(last) <= MAX_BUFFERING
  <2>1. CASE enough # {}
    <3> HIDE DEF total, last, enough
    <3> QED
      BY <1>2, <1>6, <1>8, <2>1
  <2>2. CASE enough = {}
    <3>1. last = 0
      BY <2>2
    <3>2. Held(hs)[0] = 0
      BY <1>2, HeldFacts
    <3> QED
      BY <1>2, <1>6, <3>1, <3>2
  <2> QED
    BY <2>1, <2>2
<1>10. \A i \in Slots : freed(last)[i] = IF i >= last THEN Empty ELSE hs[i]
  OBVIOUS
<1>11. freed(last) \in [Slots -> Reassembly] /\ Reassembled(freed(last))
  <2> HIDE DEF last
  <2>1. freed(last) \in [Slots -> Reassembly]
    BY <1>2, EmptyFacts
  <2> HIDE DEF freed
  <2>2. Reassembled(freed(last))
    BY <1>2, <1>10, EmptyFacts DEF Reassembled
  <2> QED
    BY <2>1, <2>2
<1>12. freed(last)[0] = Empty
  <2>1. hs[0] = Empty
    BY <1>2 DEF Reassembled, IsReassembly
  <2> QED
    BY <1>2, <1>10, <2>1
<1> HIDE DEF freed, total, enough, last
<1> QED
  BY <1>5, <1>6, <1>7, <1>8, <1>9, <1>11, <1>12

\* Before a slot is put to use it is empty, and size more bytes are then accounted for.
LEMMA FillFacts ==
  ASSUME NEW slots \in [Slots -> Reassembly], Reassembled(slots), NEW f \in Pieces,
         NEW j \in Slots, f.seq = in_msg_seq + j, slots[j] = Empty,
         NEW new, new = [slots EXCEPT ![j] = Added(FreshSlot(f), f)]
  PROVE  /\ new \in [Slots -> Reassembly] /\ Reassembled(new)
         /\ Held(new)[MAX_BUFFERED_HS]
              = Held(slots)[MAX_BUFFERED_HS]
                + ReassemblyBufferSize(Lengths[f.seq], IsProperFragment(f))
<1> DEFINE size == ReassemblyBufferSize(Lengths[f.seq], IsProperFragment(f))
           slot == Added(FreshSlot(f), f)
<1>1. Fresh(FreshSlot(f), f) /\ FreshSlot(f).data_len = size
  BY FreshSlotFacts
<1>2. FreshSlot(f) \in Reassembly /\ FreshSlot(f).is_valid
  BY <1>1 DEF Fresh
<1>3. slot \in Reassembly /\ IsReassembly(slot, f.seq) /\ slot.data_len = size
  BY <1>1, <1>2, AddedFacts
<1> HIDE DEF slot, size
<1>4. /\ new \in [Slots -> Reassembly] /\ Reassembled(new)
      /\ Held(new)[MAX_BUFFERED_HS]
           = Held(slots)[MAX_BUFFERED_HS] + slot.data_len - slots[j].data_len
  <2>1. new = [slots EXCEPT ![j] = slot] /\ IsReassembly(slot, in_msg_seq + j)
    BY <1>3 DEF slot
  <2>2. /\ [slots EXCEPT ![j] = slot] \in [Slots -> Reassembly]
        /\ Reassembled([slots EXCEPT ![j] = slot])
        /\ Held([slots EXCEPT ![j] = slot])[MAX_BUFFERED_HS]
             = Held(slots)[MAX_BUFFERED_HS] + slot.data_len - slots[j].data_len
    BY <1>3, <2>1, PutFacts
  <2> QED
    BY <2>1, <2>2
<1>5. Held(slots)[MAX_BUFFERED_HS] \in Nat /\ size \in Nat
  <2>1. \A i \in Slots : slots[i].data_len \in Nat
    BY DEF Reassembly
  <2>2. MAX_BUFFERED_HS \in 0 .. MAX_BUFFERED_HS
    BY FragmentsAssumption
  <2>3. Held(slots)[MAX_BUFFERED_HS] \in Nat
    BY <2>1, <2>2, HeldFacts
  <2> QED
    BY <2>3, SizeTyping DEF size
<1> QED
  BY <1>3, <1>4, <1>5, EmptyFacts DEF size

\* mbedtls_ssl_read_record of a piece that goes to a slot.
LEMMA BufferMessageKeeps ==
  ASSUME FragmentsInv, NEW f \in Pieces, BufferMessage(f), UNCHANGED sender
  PROVE  FragmentsInv'
<1> DEFINE j == f.seq - in_msg_seq
           size == ReassemblyBufferSize(Lengths[f.seq], IsProperFragment(f))
<1>1. /\ hs \in [Slots -> Reassembly] /\ Reassembled(hs)
      /\ \A i \in Slots : hs[i].data_len \in Nat
      /\ total_bytes_buffered \in Nat
      /\ MAX_BUFFERED_HS \in Nat \ {0} /\ MAX_BUFFERING \in Nat /\ 0 \in Slots
  BY HeldTyping
<1>2. j \in Slots /\ in_msg_seq' = in_msg_seq
  BY DEF BufferMessage
<1>3. f.seq = in_msg_seq + j
  BY <1>2, ProperPieces, FlightFacts DEF FragmentsInv, FragmentsTypeOK
<1>4. total_bytes_buffered = Held(hs)[MAX_BUFFERED_HS] /\ total_bytes_buffered <= MAX_BUFFERING
  BY DEF FragmentsInv
<1>5. size \in Nat
  BY SizeTyping
<1>6. \/ hs[j].is_valid /\ hs' = [hs EXCEPT ![j] = Added(hs[j], f)]
           /\ UNCHANGED <<total_bytes_buffered, error>>
      \/ /\ ~hs[j].is_valid /\ size <= MAX_BUFFERING - total_bytes_buffered
         /\ hs' = [hs EXCEPT ![j] = Added(FreshSlot(f), f)]
         /\ total_bytes_buffered' = total_bytes_buffered + size /\ UNCHANGED error
      \/ /\ ~hs[j].is_valid
         /\ hs' = hs /\ total_bytes_buffered' = total_bytes_buffered /\ error' \in Errors
      \/ /\ ~hs[j].is_valid /\ j = 0
         /\ \E space \in {MakeSpace(size)} :
              \/ /\ space[1] /\ hs' = [space[2] EXCEPT ![j] = Added(FreshSlot(f), f)]
                 /\ total_bytes_buffered' = space[3] + size /\ UNCHANGED error
              \/ /\ hs' = space[2] /\ total_bytes_buffered' = space[3]
                 /\ error' \in Errors
  BY DEF BufferMessage, FreshSlot, Errors
<1>7. error \in Errors
  BY DEF FragmentsInv, FragmentsTypeOK
<1> HIDE DEF j, size
<1>8. ASSUME hs' \in [Slots -> Reassembly], Reassembled(hs'),
             total_bytes_buffered' = Held(hs')[MAX_BUFFERED_HS],
             total_bytes_buffered' <= MAX_BUFFERING, error' \in Errors
      PROVE  FragmentsInv'
  <2>1. FragmentsTypeOK'
    BY <1>2, <1>8 DEF FragmentsInv, FragmentsTypeOK, sender
  <2>2. Reassembling'
    BY <1>2, <1>8 DEF Reassembling, Reassembled
  <2>3. (Held(hs)[MAX_BUFFERED_HS])' = Held(hs')[MAX_BUFFERED_HS]
    BY DEF Held
  <2> QED
    BY <1>8, <2>1, <2>2, <2>3 DEF FragmentsInv
<1>9. CASE hs[j].is_valid /\ hs' = [hs EXCEPT ![j] = Added(hs[j], f)]
           /\ UNCHANGED <<total_bytes_buffered, error>>
  <2>1. IsReassembly(hs[j], f.seq) /\ hs[j] \in Reassembly
    BY <1>1, <1>2, <1>3 DEF Reassembled
  <2>2. /\ Added(hs[j], f) \in Reassembly /\ IsReassembly(Added(hs[j], f), f.seq)
        /\ Added(hs[j], f).data_len = hs[j].data_len
    BY <1>9, <2>1, AddedFacts
  <2> DEFINE slot == Added(hs[j], f)
  <2>3. slot \in Reassembly /\ IsReassembly(slot, in_msg_seq + j) /\ slot.data_len = hs[j].data_len
    BY <1>3, <2>2
  <2>4. hs' = [hs EXCEPT ![j] = slot]
    BY <1>9
  <2> HIDE DEF slot
  <2>5. /\ hs' \in [Slots -> Reassembly] /\ Reassembled(hs')
        /\ Held(hs')[MAX_BUFFERED_HS] = Held(hs)[MAX_BUFFERED_HS] + slot.data_len - hs[j].data_len
    BY <1>1, <1>2, <2>3, <2>4, PutFacts
  <2>6. Held(hs')[MAX_BUFFERED_HS] = total_bytes_buffered
    BY <1>1, <1>2, <1>4, <2>3, <2>5
  <2> QED
    BY <1>4, <1>7, <1>8, <1>9, <2>5, <2>6
<1>10. CASE /\ ~hs[j].is_valid /\ size <= MAX_BUFFERING - total_bytes_buffered
            /\ hs' = [hs EXCEPT ![j] = Added(FreshSlot(f), f)]
            /\ total_bytes_buffered' = total_bytes_buffered + size /\ UNCHANGED error
  <2>1. hs[j] = Empty
    BY <1>1, <1>2, <1>10 DEF Reassembled, IsReassembly
  <2>2. /\ hs' \in [Slots -> Reassembly] /\ Reassembled(hs')
        /\ Held(hs')[MAX_BUFFERED_HS] = Held(hs)[MAX_BUFFERED_HS] + size
    BY <1>1, <1>2, <1>3, <1>10, <2>1, FillFacts DEF size
  <2>3. total_bytes_buffered' <= MAX_BUFFERING
    BY <1>1, <1>5, <1>10
  <2> QED
    BY <1>4, <1>7, <1>8, <1>10, <2>2, <2>3
<1>11. ASSUME ~hs[j].is_valid, j = 0, NEW space, space = MakeSpace(size),
              \/ /\ space[1] /\ hs' = [space[2] EXCEPT ![j] = Added(FreshSlot(f), f)]
                 /\ total_bytes_buffered' = space[3] + size /\ UNCHANGED error
              \/ /\ hs' = space[2] /\ total_bytes_buffered' = space[3]
                 /\ error' \in Errors
       PROVE  FragmentsInv'
  <2>1. /\ space[2] \in [Slots -> Reassembly] /\ Reassembled(space[2])
        /\ space[3] = Held(space[2])[MAX_BUFFERED_HS] /\ space[3] \in Nat
        /\ space[3] <= MAX_BUFFERING
        /\ space[1] => size <= MAX_BUFFERING - space[3]
        /\ space[2][0] = Empty
    BY <1>5, <1>11, MakeSpaceFacts
  <2>2. CASE /\ space[1] /\ hs' = [space[2] EXCEPT ![j] = Added(FreshSlot(f), f)]
             /\ total_bytes_buffered' = space[3] + size /\ UNCHANGED error
    <3>1. /\ hs' \in [Slots -> Reassembly] /\ Reassembled(hs')
          /\ Held(hs')[MAX_BUFFERED_HS] = Held(space[2])[MAX_BUFFERED_HS] + size
      BY <1>2, <1>3, <1>11, <2>1, <2>2, FillFacts DEF size
    <3>2. total_bytes_buffered' <= MAX_BUFFERING
      BY <1>1, <1>5, <2>1, <2>2
    <3> QED
      BY <1>7, <1>8, <2>1, <2>2, <3>1, <3>2
  <2>3. CASE /\ hs' = space[2] /\ total_bytes_buffered' = space[3]
             /\ error' \in Errors
    BY <1>8, <2>1, <2>3
  <2> QED
    BY <1>11, <2>2, <2>3
<1>12. CASE /\ hs' = hs /\ total_bytes_buffered' = total_bytes_buffered
            /\ error' \in Errors
  BY <1>1, <1>4, <1>8, <1>12
<1> QED
  BY <1>6, <1>9, <1>10, <1>11, <1>12

\* mbedtls_ssl_update_handshake_status moves every slot to its message.
LEMMA UpdateKeeps ==
  ASSUME FragmentsInv, in_msg_seq \in DOMAIN Lengths, UpdateHandshakeStatus, UNCHANGED sender
  PROVE  FragmentsInv'
<1> DEFINE new == [i \in Slots |-> IF i + 1 \in Slots THEN hs[i + 1] ELSE Empty]
<1>1. /\ hs \in [Slots -> Reassembly] /\ Reassembled(hs)
      /\ \A i \in Slots : hs[i].data_len \in Nat
      /\ total_bytes_buffered \in Nat
      /\ MAX_BUFFERED_HS \in Nat \ {0} /\ MAX_BUFFERING \in Nat /\ 0 \in Slots
  BY HeldTyping
<1>2. /\ in_msg_seq' = in_msg_seq + 1 /\ hs' = new
      /\ total_bytes_buffered' = total_bytes_buffered - hs[0].data_len /\ error' = error
  BY DEF UpdateHandshakeStatus
<1>3. in_msg_seq' \in 1 .. Len(Lengths) + 1 /\ in_msg_seq \in Nat
  BY <1>2, FlightFacts
<1>4. hs' \in [Slots -> Reassembly]
  BY <1>1, <1>2, EmptyFacts
<1>5. Reassembling'
  <2> SUFFICES ASSUME NEW i \in Slots PROVE IsReassembly(new[i], in_msg_seq + 1 + i)
    BY <1>2 DEF Reassembling
  <2>1. CASE i + 1 \in Slots
    <3>1. IsReassembly(hs[i + 1], in_msg_seq + (i + 1))
      BY <1>1, <2>1 DEF Reassembled
    <3>2. in_msg_seq + (i + 1) = in_msg_seq + 1 + i
      BY <1>3 DEF Slots
    <3> QED
      BY <2>1, <3>1, <3>2
  <2>2. CASE i + 1 \notin Slots
    BY <2>2, EmptyFacts
  <2> QED
    BY <2>1, <2>2
<1>6. Held(new)[MAX_BUFFERED_HS] = Held(hs)[MAX_BUFFERED_HS] - hs[0].data_len
  BY <1>1, HeldShifted
<1>7. (Held(hs)[MAX_BUFFERED_HS])' = Held(new)[MAX_BUFFERED_HS]
  BY <1>2 DEF Held
<1>8. FragmentsTypeOK'
  BY <1>2, <1>3, <1>4 DEF FragmentsInv, FragmentsTypeOK, sender
<1>9. total_bytes_buffered' <= MAX_BUFFERING
  <2>1. hs[0].data_len \in Nat /\ total_bytes_buffered <= MAX_BUFFERING
    BY <1>1 DEF FragmentsInv
  <2> QED
    BY <1>1, <1>2, <2>1
<1> HIDE DEF new
<1> QED
  BY <1>2, <1>5, <1>6, <1>7, <1>8, <1>9 DEF FragmentsInv

\* A message that is passed on leaves its slot.
LEMMA LoadBufferedKeeps == FragmentsInv /\ LoadBufferedMessage => FragmentsInv'
<1> SUFFICES ASSUME FragmentsInv, LoadBufferedMessage PROVE FragmentsInv'
  OBVIOUS
<1>1. hs[0].is_complete /\ UpdateHandshakeStatus /\ UNCHANGED sender
  BY DEF LoadBufferedMessage
<1>2. Reassembled(hs) /\ 0 \in Slots
  BY HeldTyping
<1>3. IsReassembly(hs[0], in_msg_seq + 0)
  BY <1>2 DEF Reassembled
<1>4. in_msg_seq + 0 \in DOMAIN Lengths
  BY <1>1, <1>3, EmptyFacts DEF IsReassembly
<1>5. in_msg_seq \in DOMAIN Lengths
  BY <1>4, FlightFacts DEF FragmentsInv, FragmentsTypeOK
<1> QED
  BY <1>1, <1>5, UpdateKeeps

\* A record fills a slot, or none.
LEMMA ReadRecordKeeps ==
  ASSUME FragmentsInv, NEW f \in sent, ReadRecord(f)
  PROVE  FragmentsInv'
<1>1. f \in Pieces /\ in_msg_seq \in Nat
  BY FlightFacts DEF FragmentsInv, FragmentsTypeOK
<1>2. f.seq \in DOMAIN Lengths /\ f.seq >= in_msg_seq /\ UNCHANGED sender
  BY <1>1, ProperPieces DEF ReadRecord
<1>3. CASE f.seq > in_msg_seq \/ IsProperFragment(f)
  BY <1>1, <1>2, <1>3, BufferMessageKeeps DEF ReadRecord
<1>4. CASE ~(f.seq > in_msg_seq \/ IsProperFragment(f))
  <2>1. in_msg_seq = f.seq
    BY <1>1, <1>2, <1>4, FlightFacts
  <2> QED
    BY <1>2, <1>4, <2>1, UpdateKeeps DEF ReadRecord
<1> QED
  BY <1>3, <1>4

\* The greater and the smaller of two numbers.
LEMMA OfTwo ==
  ASSUME NEW a \in Int, NEW b \in Int
  PROVE  /\ Max({a, b}) = IF a >= b THEN a ELSE b
         /\ Min({a, b}) = IF a <= b THEN a ELSE b
BY DEF Max, Min

\* The pieces that mbedtls_ssl_flight_transmit cuts lie in their messages.
LEMMA SendFragmentKeeps == FragmentsInv /\ SendFragment => FragmentsInv'
<1> SUFFICES ASSUME FragmentsInv, SendFragment PROVE FragmentsInv'
  OBVIOUS
<1> DEFINE rest == Lengths[cur_msg] - cur_msg_p
           len == Min({rest, Payload - HEADER})
           piece == [seq |-> cur_msg, off |-> cur_msg_p, len |-> len]
<1>1. /\ mtu \in Nat /\ cur_msg \in DOMAIN Lengths /\ cur_msg_p \in Nat /\ out_left \in Nat
      /\ cur_msg_p <= Lengths[cur_msg] /\ Lengths[cur_msg] \in Nat
      /\ Len(Lengths) \in Nat /\ DOMAIN Lengths = 1 .. Len(Lengths)
      /\ Expansion \in Nat /\ HEADER = 12
  BY FlightFacts, FragmentsAssumption DEF FragmentsInv, FragmentsTypeOK, SendFragment, HEADER
<1>2. Payload \in Nat
  <2>1. mtu - out_left - Expansion \in Int
    BY <1>1
  <2> QED
    BY <2>1, OfTwo DEF Payload
<1>3. Payload >= HEADER
  BY <1>1, <1>2 DEF SendFragment, NoRoom
<1>4. len \in Nat /\ len <= rest /\ rest \in Nat
  <2>1. rest \in Nat /\ Payload - HEADER \in Nat
    BY <1>1, <1>2, <1>3
  <2> DEFINE room == Payload - HEADER
  <2>2. rest \in Int /\ room \in Int
    BY <2>1
  <2>3. len = Min({rest, room})
    OBVIOUS
  <2> HIDE DEF rest, room, len
  <2>4. len = IF rest <= room THEN rest ELSE room
    BY <2>2, <2>3, OfTwo
  <2>5. room \in Nat
    BY <2>1 DEF room
  <2> QED
    BY <2>1, <2>4, <2>5
<1>5. /\ sent' = sent \cup {piece} /\ out_left' = out_left + Expansion + HEADER + len
      /\ \/ len = rest /\ cur_msg' = cur_msg + 1 /\ cur_msg_p' = 0
         \/ len # rest /\ cur_msg' = cur_msg /\ cur_msg_p' = cur_msg_p + len
      /\ mtu' = mtu /\ UNCHANGED receiver
  BY DEF SendFragment
<1> HIDE DEF len
<1>6. piece \in Pieces
  BY <1>1, <1>4 DEF Pieces
<1>7. out_left' \in Nat
  BY <1>1, <1>4, <1>5
<1>8. /\ cur_msg' \in 1 .. Len(Lengths) + 1 /\ cur_msg_p' \in Nat
      /\ cur_msg' <= Len(Lengths) => cur_msg_p' <= Lengths[cur_msg']
  <2>1. CASE len = rest /\ cur_msg' = cur_msg + 1 /\ cur_msg_p' = 0
    <3>1. cur_msg' <= Len(Lengths) => Lengths[cur_msg'] \in Nat
      BY <1>1, <2>1, FlightFacts
    <3> QED
      BY <1>1, <2>1, <3>1
  <2>2. CASE len # rest /\ cur_msg' = cur_msg /\ cur_msg_p' = cur_msg_p + len
    BY <1>1, <1>4, <2>2
  <2> QED
    BY <1>5, <2>1, <2>2
<1>9. /\ hs' = hs /\ total_bytes_buffered' = total_bytes_buffered
      /\ in_msg_seq' = in_msg_seq /\ error' = error
  BY <1>5 DEF receiver
<1> HIDE DEF piece
<1>10. sent' \subseteq Pieces
  BY <1>5, <1>6 DEF FragmentsInv, FragmentsTypeOK
<1>11. FragmentsTypeOK'
  BY <1>1, <1>5, <1>7, <1>8, <1>9, <1>10 DEF FragmentsInv, FragmentsTypeOK
<1>12. Reassembling' /\ (Held(hs)[MAX_BUFFERED_HS])' = Held(hs)[MAX_BUFFERED_HS]
  BY <1>9 DEF FragmentsInv, Reassembling, Held
<1> QED
  BY <1>9, <1>11, <1>12 DEF FragmentsInv

\* The beginning of a datagram or of a transmission.
LEMMA FlushKeeps == FragmentsInv /\ (FlushOutput \/ Resend) => FragmentsInv'
<1> SUFFICES ASSUME FragmentsInv, FlushOutput \/ Resend PROVE FragmentsInv'
  OBVIOUS
<1>1. /\ hs' = hs /\ total_bytes_buffered' = total_bytes_buffered
      /\ in_msg_seq' = in_msg_seq /\ error' = error /\ sent' = sent /\ out_left' = 0
  BY DEF FlushOutput, Resend, receiver
<1>2. /\ mtu' \in Nat /\ cur_msg' \in 1 .. Len(Lengths) + 1 /\ cur_msg_p' \in Nat
      /\ cur_msg' <= Len(Lengths) => cur_msg_p' <= Lengths[cur_msg']
  <2>1. CASE FlushOutput
    BY <2>1 DEF FlushOutput, FragmentsInv, FragmentsTypeOK
  <2>2. CASE Resend
    <3>1. mtu' \in Nat /\ cur_msg' = 1 /\ cur_msg_p' = 0
      BY <2>2, FragmentsAssumption DEF Resend
    <3>2. 1 <= Len(Lengths) => Lengths[1] \in Nat
      BY FlightFacts
    <3> QED
      BY <3>1, <3>2, FlightFacts
  <2> QED
    BY <2>1, <2>2
<1>3. FragmentsTypeOK'
  BY <1>1, <1>2 DEF FragmentsInv, FragmentsTypeOK
<1>4. Reassembling' /\ (Held(hs)[MAX_BUFFERED_HS])' = Held(hs)[MAX_BUFFERED_HS]
  BY <1>1 DEF FragmentsInv, Reassembling, Held
<1> QED
  BY <1>1, <1>3, <1>4 DEF FragmentsInv

\* Nothing is buffered at first.
LEMMA FragmentsInitInv == FragmentsInit => FragmentsInv
<1> SUFFICES ASSUME FragmentsInit PROVE FragmentsInv
  OBVIOUS
<1>1. FragmentsTypeOK
  <2>1. hs \in [Slots -> Reassembly]
    BY EmptyFacts DEF FragmentsInit
  <2>2. 1 <= Len(Lengths) => 0 <= Lengths[1]
    BY FlightFacts
  <2>3. /\ mtu \in Nat /\ cur_msg = 1 /\ cur_msg_p = 0 /\ out_left = 0 /\ sent = {}
        /\ in_msg_seq = 1 /\ error = "none" /\ Len(Lengths) \in Nat
    BY FlightFacts, FragmentsAssumption DEF FragmentsInit
  <2>4. 1 \in 1 .. Len(Lengths) + 1 /\ 0 \in Nat
    BY <2>3
  <2> QED
    BY <2>1, <2>2, <2>3, <2>4 DEF FragmentsTypeOK, Errors
<1>2. Reassembling
  BY EmptyFacts DEF FragmentsInit, Reassembling
<1>3. Held(hs)[MAX_BUFFERED_HS] = 0
  <2>1. 0 \in Slots /\ \A i \in Slots : i >= 0
    BY FragmentsAssumption DEF Slots
  <2>2. hs = [i \in Slots |-> IF i >= 0 THEN Empty ELSE hs[i]]
    BY <2>1 DEF FragmentsInit
  <2>3. \A i \in Slots : hs[i].data_len \in Nat
    BY EmptyFacts DEF FragmentsInit
  <2>4. Held([i \in Slots |-> IF i >= 0 THEN Empty ELSE hs[i]])[MAX_BUFFERED_HS] = Held(hs)[0]
    BY <2>1, <2>3, HeldFreed
  <2>5. Held(hs)[0] = 0
    BY <2>3, HeldFacts
  <2> QED
    BY <2>2, <2>4, <2>5
<1>4. 0 <= MAX_BUFFERING
  BY FragmentsAssumption
<1> QED
  BY <1>1, <1>2, <1>3, <1>4 DEF FragmentsInit, FragmentsInv

\* Every step keeps the invariant of reassembly.
LEMMA FragmentsStepInv == FragmentsInv /\ [FragmentsNext]_fragmentVars => FragmentsInv'
<1> SUFFICES ASSUME FragmentsInv, [FragmentsNext]_fragmentVars PROVE FragmentsInv'
  OBVIOUS
<1>1. CASE Transmit
  BY <1>1, SendFragmentKeeps, FlushKeeps DEF Transmit
<1>2. CASE LoadBufferedMessage
  BY <1>2, LoadBufferedKeeps
<1>3. CASE \E f \in sent : ReadRecord(f)
  BY <1>3, ReadRecordKeeps
<1>4. CASE UNCHANGED fragmentVars
  BY <1>4 DEF fragmentVars, sender, receiver, FragmentsInv, FragmentsTypeOK, Reassembling, Held
<1> QED
  BY <1>1, <1>2, <1>3, <1>4 DEF FragmentsNext

\* It holds in every state.
LEMMA FragmentsInductive == FragmentsSpec => []FragmentsInv
BY FragmentsInitInv, FragmentsStepInv, PTL DEF FragmentsSpec

\* The fragments sent lie in their messages, the slots keep their types, and the message
\* awaited is one of the flight or the one after it.
THEOREM FragmentsTypeCorrect == FragmentsSpec => []FragmentsTypeOK
<1>1. FragmentsInv => FragmentsTypeOK
  BY DEF FragmentsInv
<1> QED
  BY <1>1, FragmentsInductive, PTL

\* For messages of any length, any MTUs, any number of slots and a buffer of any size:
\* however the fragments overlap and whatever order they come in, a message that the
\* buffer takes for complete is all of the message awaited in its place, and the buffer
\* accounts for what its slots hold and never for more than it may (ssl_msg.c:
\* ssl_buffer_message, ssl_bitmask_set, ssl_buffer_make_space).
THEOREM BufferedIsWhole == FragmentsSpec => []Whole
<1>1. FragmentsInv => Whole
  <2> SUFFICES ASSUME FragmentsInv PROVE Whole
    OBVIOUS
  <2>1. ASSUME NEW i \in Slots, hs[i].is_complete
        PROVE  hs[i].bytes = {<<in_msg_seq + i, b>> : b \in 0 .. Lengths[in_msg_seq + i] - 1}
    <3>1. IsReassembly(hs[i], in_msg_seq + i)
      BY HeldTyping DEF Reassembled
    <3>2. hs[i].is_valid
      BY <2>1, <3>1, EmptyFacts DEF IsReassembly
    <3>3. hs[i].is_fragmented => hs[i].bitmask = 0 .. Lengths[in_msg_seq + i] - 1
      BY <2>1, <3>1, <3>2, Zenon DEF IsReassembly
    <3> QED
      BY <3>1, <3>2, <3>3 DEF IsReassembly
  <2> QED
    BY <2>1 DEF FragmentsInv, Whole
<1> QED
  BY <1>1, FragmentsInductive, PTL
================================================================================
