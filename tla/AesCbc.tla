-------------------------------- MODULE AesCbc --------------------------------
(***************************************************************************)
(* The two AES-CBC round trips of native-lib.cpp: mbedtls_aes_test, which  *)
(* JNI_OnLoad runs once per process, and the end of getPersons, which runs *)
(* for every activity.  Each sets up a key and an initialisation vector,   *)
(* encrypts a text and decrypts the result.  getPersons keeps its vector   *)
(* in a static array, which is found as the last call left it; the vector  *)
(* of mbedtls_aes_test is on the stack and starts as anything.  The chain  *)
(* of blocks is that of mbedtls_aes_crypt_cbc; the block cipher below it   *)
(* is given.  All calls are made on the main thread.                       *)
(***************************************************************************)
EXTENDS Naturals

CONSTANTS Blocks,    \* the values of 16 bytes
          N,         \* blocks of a text (4 in the code)
          Texts,     \* the texts that may be encrypted (one literal in each function)
          Xor,       \* Xor[a][b]: the exclusive or of two blocks
          Enc, Dec,  \* Enc[r][b], Dec[r][b]: the block cipher under the key of function r
          Mixed,     \* Mixed[r][b]: a block run through the round keys of the other direction
          StartIV,   \* StartIV[r]: the vector that function r writes down
          ZeroBlock, \* 16 zero bytes: a static array before its first use
          Null       \* a block nothing was written to

Routines == {"getPersons", "aes_test"}
Ciphers == [Routines -> [Blocks -> Blocks]]
Slot == 1 .. N

ASSUME NAssumption == N \in Nat \ {0}
ASSUME DataAssumption ==
  /\ Texts \subseteq [Slot -> Blocks]
  /\ StartIV \in [Routines -> Blocks]
  /\ ZeroBlock \in Blocks
  /\ Null \notin Blocks
ASSUME XorAssumption ==
  /\ Xor \in [Blocks -> [Blocks -> Blocks]]
  /\ \A a, b \in Blocks : Xor[Xor[a][b]][b] = a
ASSUME CipherAssumption ==
  /\ Enc \in Ciphers /\ Dec \in Ciphers /\ Mixed \in Ciphers
  /\ \A r \in Routines, b \in Blocks : Dec[r][Enc[r][b]] = b

VARIABLES pc,      \* where the running function is
          routine, \* the function that runs
          loaded,  \* JNI_OnLoad has run
          iv,      \* iv[r]: the vector of function r
          rounds,  \* the direction that the round keys in the context are for
          n,       \* the block that mbedtls_aes_crypt_cbc works on
          text,    \* pwd, plain
          buf,     \* buf, cipher
          def_buf  \* def_buf, dec_plain

vars == <<pc, routine, loaded, iv, rounds, n, text, buf, def_buf>>

TypeOK ==
  /\ pc \in {"idle", "setup", "encrypt", "turn", "decrypt"}
  /\ routine \in Routines
  /\ loaded \in BOOLEAN
  /\ iv \in [Routines -> Blocks]
  /\ rounds \in {"none", "encrypt", "decrypt"}
  /\ n \in 1 .. N + 1
  /\ text \in [Slot -> Blocks \cup {Null}]
  /\ buf \in [Slot -> Blocks \cup {Null}]
  /\ def_buf \in [Slot -> Blocks \cup {Null}]

Unwritten == [i \in Slot |-> Null]

Init ==
  /\ pc = "idle" /\ routine = "aes_test" /\ loaded = FALSE
  /\ iv = [r \in Routines |-> ZeroBlock]
  /\ rounds = "none" /\ n = 1
  /\ text = Unwritten /\ buf = Unwritten /\ def_buf = Unwritten

--------------------------------------------------------------------------------
(* JNI_OnLoad and getPersons.                                              *)

\* The start of either function, up to where it writes its vector: the arrays
\* on the stack hold nothing yet, the context is zeroed.
Start(r, t) ==
  /\ pc' = "setup" /\ routine' = r
  /\ text' = t
  /\ buf' = Unwritten /\ def_buf' = Unwritten
  /\ rounds' = "none" /\ n' = 1

\* JNI_OnLoad
AesTest ==
  /\ pc = "idle" /\ ~loaded
  /\ loaded' = TRUE
  /\ \E t \in Texts : Start("aes_test", t)
  /\ \E b \in Blocks : iv' = [iv EXCEPT !["aes_test"] = b]

\* getPersons has made its persons.  (If a name is null it has returned before,
\* with null for the result, and touched nothing of what is kept here.)
GetPersons ==
  /\ pc = "idle" /\ loaded
  /\ \E t \in Texts : Start("getPersons", t)
  /\ UNCHANGED <<loaded, iv>>

\* memcpy(IV, iv, 16), or the loop that fills iv with ones
WriteIV == iv' = [iv EXCEPT ![routine] = StartIV[routine]]

Setup_FirstCallOnly ==
  /\ pc = "setup"
  /\ \/ iv[routine] = ZeroBlock /\ WriteIV
     \/ iv[routine] # ZeroBlock /\ iv' = iv
  /\ rounds' = "encrypt" /\ n' = 1
  /\ pc' = "encrypt"
  /\ UNCHANGED <<routine, loaded, text, buf, def_buf>>

\* mbedtls_aes_setkey_enc
Setup ==
  /\ pc = "setup"
  /\ WriteIV
  /\ rounds' = "encrypt" /\ n' = 1
  /\ pc' = "encrypt"
  /\ UNCHANGED <<routine, loaded, text, buf, def_buf>>

Turn_KeepIV ==
  /\ pc = "turn"
  /\ rounds' = "decrypt" /\ n' = 1
  /\ pc' = "decrypt"
  /\ UNCHANGED <<routine, loaded, iv, text, buf, def_buf>>

\* mbedtls_aes_setkey_dec, and the vector once more: encryption has changed it.
Turn ==
  /\ pc = "turn"
  /\ WriteIV
  /\ rounds' = "decrypt" /\ n' = 1
  /\ pc' = "decrypt"
  /\ UNCHANGED <<routine, loaded, text, buf, def_buf>>

--------------------------------------------------------------------------------
(* mbedtls_aes_crypt_cbc, one step per block.                              *)

\* mbedtls_aes_crypt_ecb: which rounds run is decided by the mode, which keys
\* they use by the last setkey.
CryptEcb(mode, b) ==
  CASE rounds # mode -> Mixed[routine][b]
    [] rounds = mode /\ mode = "encrypt" -> Enc[routine][b]
    [] rounds = mode /\ mode = "decrypt" -> Dec[routine][b]

\* The block is whitened with the vector, encrypted where it lies, and becomes
\* the vector of the next one.
EncryptBlock ==
  /\ pc = "encrypt" /\ n <= N
  /\ LET out == CryptEcb("encrypt", Xor[text[n]][iv[routine]])
     IN  /\ buf' = [buf EXCEPT ![n] = out]
         /\ iv' = [iv EXCEPT ![routine] = out]
  /\ n' = n + 1
  /\ UNCHANGED <<pc, routine, loaded, rounds, text, def_buf>>

\* The vector of the next block is the input (kept in temp: output may be the
\* same array).
DecryptBlock ==
  /\ pc = "decrypt" /\ n <= N
  /\ def_buf' = [def_buf EXCEPT ![n] = Xor[CryptEcb("decrypt", buf[n])][iv[routine]]]
  /\ iv' = [iv EXCEPT ![routine] = buf[n]]
  /\ n' = n + 1
  /\ UNCHANGED <<pc, routine, loaded, rounds, text, buf>>

\* The loop is over: on to the second call, or back to the caller.
CbcReturn ==
  /\ n = N + 1
  /\ \/ pc = "encrypt" /\ pc' = "turn"
     \/ pc = "decrypt" /\ pc' = "idle"
  /\ UNCHANGED <<routine, loaded, iv, rounds, n, text, buf, def_buf>>

Next ==
  \/ AesTest \/ GetPersons
  \/ Setup \/ Turn
  \/ EncryptBlock \/ DecryptBlock
  \/ CbcReturn

Spec == Init /\ [][Next]_vars

--------------------------------------------------------------------------------
(* What the round trips promise.                                           *)

\* A block that has been decrypted is the block of the text, in the first call
\* as in every later one, whatever the calls before left in the static vector:
\* what "buf:" and "dec_plain:" log is the text.
RoundTrip ==
  \A i \in Slot : def_buf[i] # Null => def_buf[i] = text[i]

\* The block before block i in the chain.
Before(i) == IF i = 1 THEN StartIV[routine] ELSE buf[i - 1]

\* The ciphertext is that of cipher block chaining from the vector that the
\* function wrote down, not from what the last call left in it: the same text
\* gives the same ciphertext in every call.
Chained ==
  \A i \in Slot : buf[i] # Null => buf[i] = Enc[routine][Xor[text[i]][Before(i)]]

\* A call that has run to its end has encrypted and decrypted every block.
Complete ==
  pc = "idle" => \/ buf = Unwritten /\ def_buf = Unwritten
                 \/ \A i \in Slot : buf[i] # Null /\ def_buf[i] # Null
================================================================================
