------------------------- MODULE MCConnectionPair -------------------------
(* ConnectionPair on a small instance.                                     *)
EXTENDS ConnectionPair
===========================================================================
