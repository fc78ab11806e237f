------------------------------ MODULE MCCrypto ------------------------------
(* Crypto with the real size of a chunk: the sizes around its multiples, and  *)
(* around those of a block.                                                   *)
EXTENDS Crypto

Around == 0 .. 40 \cup 16360 .. 16410 \cup 32740 .. 32790
=============================================================================
