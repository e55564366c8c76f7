------------------------ MODULE TransactionChannel ------------------------
(***************************************************************************)
(* What a pair of connections promises the two applications that use it:   *)
(* each application can hand transactions over at any time; the other one  *)
(* is given a prefix of them, once each, whole and in order; and a side    *)
(* that is dead is given nothing more.                                     *)
(***************************************************************************)
EXTENDS Sequences

CONSTANTS
  Sides,         \* the two ends
  Peer(_),       \* the other end
  Transactions   \* what applications exchange

VARIABLES
  pending,  \* handed over by a side and not given to its peer yet
  log,      \* what a side was given
  dead      \* the sides that are dead

vars == <<pending, log, dead>>

Init ==
  /\ pending = [s \in Sides |-> <<>>]
  /\ log = [s \in Sides |-> <<>>]
  /\ dead = {}

Break(s) == dead' = dead \cup {s}

\* Handing a transaction over may be what reveals that the side is dead.
Send(s, t) ==
  /\ pending' = [pending EXCEPT ![s] = Append(@, t)]
  /\ Break(s) \/ UNCHANGED dead
  /\ UNCHANGED log

Deliver(s) ==
  /\ s \notin dead
  /\ pending[Peer(s)] # <<>>
  /\ log' = [log EXCEPT ![s] = Append(@, Head(pending[Peer(s)]))]
  /\ pending' = [pending EXCEPT ![Peer(s)] = Tail(@)]
  /\ UNCHANGED dead

Next ==
  \E s \in Sides :
    \/ \E t \in Transactions : Send(s, t)
    \/ Deliver(s)
    \/ Break(s) /\ UNCHANGED <<pending, log>>

Spec == Init /\ [][Next]_vars

===========================================================================
