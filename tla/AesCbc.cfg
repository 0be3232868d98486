SPECIFICATION Spec
CONSTANTS
  Blocks <- MCBlocks
  N = 3
  Texts <- MCTexts
  Xor <- MCXor
  Enc <- MCEnc
  Dec <- MCDec
  Mixed <- MCMixed
  StartIV <- MCStartIV
  ZeroBlock = 0
  Null = null
INVARIANTS RoundTrip Chained
