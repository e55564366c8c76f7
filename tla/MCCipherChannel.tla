-------------------------- MODULE MCCipherChannel --------------------------
(* CipherChannel with the block, header and prefix sizes of the code; the  *)
(* data ends before, at and behind the end of the prefix and of a block.   *)
EXTENDS CipherChannel
=============================================================================
