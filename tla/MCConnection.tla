--------------------------- MODULE MCConnection ---------------------------
(* Connection on a small instance: one connection of either role, two      *)
(* reassembly keys, headers of two bytes and a receive policy of three, so *)
(* that a transaction takes up to three parts, sizes fall on both sides of *)
(* the policy and a part can overshoot its total.                          *)
EXTENDS Connection
===========================================================================
