----------------------------- MODULE MCKmempool -----------------------------
(* Kmempool with a few pages of 16 bytes and objects of 4 and 8 bytes.      *)
EXTENDS Kmempool, TLC

FourPages == 1 .. 4
FivePages == 1 .. 5
SixPages == 1 .. 6
=============================================================================
