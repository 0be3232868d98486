-------------------------------- MODULE GnuHash --------------------------------
(* xdl_gnu_hash of xdl/xdl.c for a symbol name; a name is a sequence of bytes.    *)
EXTENDS Naturals, SequencesExt

CONSTANT W    \* width of uint32_t, made smaller for TLC

\* h += (h << 5) + c for every byte c, in unsigned arithmetic of W bits.
gnu_hash_of(bytes) ==
  FoldLeft(LAMBDA h, c : (h + ((h * 32) % 2^W) + c) % 2^W, 5381 % 2^W, bytes)
================================================================================
