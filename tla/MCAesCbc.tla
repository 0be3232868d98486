------------------------------- MODULE MCAesCbc -------------------------------
(***************************************************************************)
(* Instance of AesCbc for TLC: blocks of two bits, every text of N of      *)
(* them, two ciphers without fixed points or inverses among them.          *)
(***************************************************************************)
EXTENDS AesCbc, TLC

MCBlocks == 0 .. 3
MCTexts == [1 .. N -> MCBlocks]
MCXor == [a \in MCBlocks |-> [b \in MCBlocks |->
            2 * ((a \div 2 + b \div 2) % 2) + ((a + b) % 2)]]

\* A cycle, and a permutation that is not linear in the bits.
MCEnc == [getPersons |-> [b \in MCBlocks |-> (b + 1) % 4],
          aes_test   |-> (0 :> 2 @@ 1 :> 3 @@ 2 :> 1 @@ 3 :> 0)]
MCDec == [r \in {"getPersons", "aes_test"} |->
            [b \in MCBlocks |-> CHOOSE a \in MCBlocks : MCEnc[r][a] = b]]
\* Neither encrypts nor decrypts.
MCMixed == [r \in {"getPersons", "aes_test"} |-> [b \in MCBlocks |-> 3 - b]]
MCStartIV == [getPersons |-> 3, aes_test |-> 1]
================================================================================
