----------------------------- MODULE MCSession -----------------------------
(* Session on a small instance: two accounts, one of them with two ways to *)
(* write its name, two passwords and two sets of rights beside none.       *)
EXTENDS Session

CONSTANTS alice, ALICE, bob

MCLogins == {alice, bob}
MCRawLogins == {ALICE, alice, bob}
MCNormal == [r \in MCRawLogins |-> IF r = ALICE THEN alice ELSE r]
=============================================================================
