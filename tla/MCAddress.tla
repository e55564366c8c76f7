----------------------------- MODULE MCAddress ------------------------------
(* Small addresses: four octets of two bits, five groups of two digits of  *)
(* base 3, ports of three bits that are written with up to four digits.    *)
EXTENDS Address

MCAddresses ==
  LET groups == [1..5 -> 0..1]
      wide   == [i \in 1..5 |-> IF i \in {1, 4} THEN 8 ELSE 0]
      octets == {o \in [1..4 -> 0..3] : o[1] + o[2] + o[3] + o[4] \in {5, 11}}
  IN  {Ipv4(o, p) : o \in octets, p \in {0, 7}}
        \cup {Ipv6(g, 5) : g \in groups} \cup {Ipv6([i \in 1..5 |-> 0], 0)}
        \cup {[Ipv6(wide, 0) EXCEPT !.scope_id = s] : s \in {0, 1}}
=============================================================================
