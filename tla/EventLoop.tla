----------------------------- MODULE EventLoop -----------------------------
(***************************************************************************)
(* A server process: an aw::net::Listener, an aw::net::Poller and one      *)
(* ServerConnection for every peer that is accepted, driven by the loop    *)
(* the tests use (wait(), then service what each event names).             *)
(*                                                                         *)
(* What is at stake here is identity.  The poller and its events name      *)
(* descriptors, small numbers the kernel hands out again as soon as they   *)
(* are closed, while a batch of events may still hold the old meaning.     *)
(* What the connections do with their bytes is ConnectionBase's; here a    *)
(* connection reads all there is and dies of what receive() returns or of  *)
(* bytes it refuses.                                                       *)
(***************************************************************************)
EXTENDS Integers, Sequences, FiniteSets

CONSTANTS
  Descriptors,  \* bound: the descriptors the process may have open
  Peers,        \* the peers that connect, each once
  MaxUnread     \* bound: bytes of a peer the kernel buffers

ASSUME EventLoopAssumption ==
  /\ Descriptors \subseteq Nat
  /\ MaxUnread \in Nat
  /\ {"free", "listener"} \cap Peers = {}

VARIABLES
  table,      \* the kernel's descriptor table
  backlog,    \* the peers that wait to be accepted
  unread,     \* the bytes of each peer the kernel holds
  gone,       \* the peers that closed their end
  holds,      \* descriptor_ of the listener and of each connection
  state,      \* what became of the connection of each peer
  interests,  \* the descriptors the poller knows
  events      \* the rest of the batch wait() returned last

vars == <<table, backlog, unread, gone, holds, state, interests, events>>

Invalid  == -1
Free     == "free"
Listener == "listener"
Owners   == Peers \cup {Listener}

PollEvents == [descriptor : Descriptors, readable : BOOLEAN,
               writable : BOOLEAN, closed : BOOLEAN]

\* Descriptors, registrations and events name only what the process may have.
TypeOK ==
  /\ table \in [Descriptors -> Owners \cup {Free}]
  /\ backlog \subseteq Peers
  /\ unread \in [Peers -> 0..MaxUnread]
  /\ gone \subseteq Peers
  /\ holds \in [Owners -> Descriptors \cup {Invalid}]
  /\ state \in [Peers -> {"new", "connecting", "refused", "live", "dead"}]
  /\ interests \subseteq Descriptors
  /\ events \in Seq(PollEvents)

\* The listener may have any descriptor: lower ones were closed meanwhile.
Init ==
  /\ \E d \in Descriptors :
       /\ table = [e \in Descriptors |-> IF e = d THEN Listener ELSE Free]
       /\ holds = [o \in Owners |-> IF o = Listener THEN d ELSE Invalid]
       /\ interests = {d}
  /\ backlog = {}
  /\ unread = [p \in Peers |-> 0]
  /\ gone = {}
  /\ state = [p \in Peers |-> "new"]
  /\ events = <<>>

---------------------------------------------------------------------------
(* The peers.                                                              *)

PeerConnects(p) ==
  /\ state[p] = "new"
  /\ state' = [state EXCEPT ![p] = "connecting"]
  /\ backlog' = backlog \cup {p}
  /\ UNCHANGED <<table, unread, gone, holds, interests, events>>

PeerSends(p) ==
  /\ state[p] \in {"connecting", "live"} /\ p \notin gone
  /\ unread[p] < MaxUnread
  /\ unread' = [unread EXCEPT ![p] = @ + 1]
  /\ UNCHANGED <<table, backlog, gone, holds, state, interests, events>>

PeerCloses(p) ==
  /\ state[p] # "new" /\ p \notin gone
  /\ gone' = gone \cup {p}
  /\ UNCHANGED <<table, backlog, unread, holds, state, interests, events>>

---------------------------------------------------------------------------
(* Poller::wait().                                                         *)

Readable(d) ==
  \/ table[d] = Listener /\ backlog # {}
  \/ table[d] \in Peers /\ (unread[table[d]] > 0 \/ table[d] \in gone)

\* Every descriptor is registered for reading and writing, as in the tests;
\* nothing the kernel buffers for sending is full here.
Event(d) ==
  [descriptor |-> d, readable |-> Readable(d), writable |-> table[d] \in Peers,
   closed |-> table[d] = Free \/ table[d] \in gone]

\* The order in which a std::map goes through its keys.
Ascending(S) ==
  CHOOSE f \in [1..Cardinality(S) -> S] :
    \A i, j \in 1..Cardinality(S) : i < j => f[i] < f[j]

\* What poll() reports of the registered descriptors, in ascending order.
Polled ==
  LET ready == {d \in interests : Readable(d) \/ table[d] # Listener}
      order == Ascending(ready)
  IN  [i \in 1..Len(order) |-> Event(order[i])]

\* Faulty: the scan stops at the first descriptor that is ready.
WaitForFirst ==
  /\ events = <<>>
  /\ events' = IF Polled = <<>> THEN <<>> ELSE <<Head(Polled)>>
  /\ UNCHANGED <<table, backlog, unread, gone, holds, state, interests>>

Wait ==
  /\ events = <<>>
  /\ events' = Polled
  /\ UNCHANGED <<table, backlog, unread, gone, holds, state, interests>>

\* Faulty: a descriptor that is closed already is registered too.
AddedAlways(d) == interests \cup {d}

\* Poller::add()
Added(d) == IF d < 0 THEN interests ELSE interests \cup {d}

\* The application registers a connection again, closed or not.
Register(p) ==
  /\ events = <<>> /\ state[p] \in {"live", "dead"}
  /\ interests' = Added(holds[p])
  /\ UNCHANGED <<table, backlog, unread, gone, holds, state, events>>

---------------------------------------------------------------------------
(* Socket and Listener.                                                    *)

\* Faulty: close() keeps the descriptor it has closed.
CloseSocketOnly(o, tbl, own) ==
  [table |-> [tbl EXCEPT ![own[o]] = Free], holds |-> own]

\* Socket::close() of an owner that is open.
CloseSocket(o, tbl, own) ==
  [table |-> [tbl EXCEPT ![own[o]] = Free], holds |-> [own EXCEPT ![o] = Invalid]]

Closed(o) == CloseSocket(o, table, holds)

\* Applications may deregister a descriptor when they learn that it was
\* closed; those of the tests leave it to the poller.
MayForget(d) == interests' \in {interests, interests \ {d}}

Available == {d \in Descriptors : table[d] = Free}
Lowest    == CHOOSE d \in Available : \A e \in Available : d <= e

(* Serving one event of the batch.                                         *)

First == Head(events)
Names(o) == events # <<>> /\ holds[o] = First.descriptor

\* Listener::accept() of a waiting peer, ServerConnection::start() and
\* Poller::add().
Accept ==
  /\ Names(Listener) /\ First.readable
  /\ Available # {}
  /\ \E p \in backlog :
       /\ table' = [table EXCEPT ![Lowest] = p]
       /\ holds' = [holds EXCEPT ![p] = Lowest]
       /\ state' = [state EXCEPT ![p] = "live"]
       /\ interests' = Added(Lowest)
       /\ backlog' = backlog \ {p}
  /\ events' = Tail(events)
  /\ UNCHANGED <<unread, gone>>

\* The accepted descriptor cannot be made non-blocking: it is closed.
AcceptRefused ==
  /\ Names(Listener) /\ First.readable
  /\ Available # {}
  /\ \E p \in backlog :
       /\ state' = [state EXCEPT ![p] = "refused"]
       /\ backlog' = backlog \ {p}
  /\ events' = Tail(events)
  /\ UNCHANGED <<table, unread, gone, holds, interests>>

\* accept() would block, or there is no descriptor left.
AcceptNone ==
  /\ Names(Listener)
  /\ ~First.readable \/ backlog = {} \/ Available = {}
  /\ events' = Tail(events)
  /\ UNCHANGED <<table, backlog, unread, gone, holds, state, interests>>

\* Whose bytes receive() on the socket of p gets: those of whatever its
\* descriptor means to the kernel by now.
ReadsFrom(p) == IF holds[p] \in Descriptors THEN table[holds[p]] ELSE Free

HasRead(p) == ReadsFrom(p) \in Peers /\ unread[ReadsFrom(p)] > 0

\* Faulty: the event is believed, rather than what receive() returns.
EventNotClosed(p) == ~First.closed

\* What receive() returns once all is read: would_block, or, when the peer at
\* the other end has closed or the descriptor is no connection, an error.
WouldBlock(p) == ReadsFrom(p) \in Peers \ gone

\* service_readable() ends the connection for any error but would_block, or
\* because it refuses what it has read.
Dies(p) ==
  /\ ~WouldBlock(p) \/ HasRead(p)
  /\ state' = [state EXCEPT ![p] = "dead"]
  /\ table' = Closed(p).table
  /\ holds' = Closed(p).holds
  /\ MayForget(holds[p])

\* The callbacks for what was read may close a connection, this one too.
Reads(p) ==
  /\ WouldBlock(p)
  /\ \/ UNCHANGED <<table, holds, interests>>
     \/ /\ HasRead(p)
        /\ \E q \in Peers :
             /\ holds[q] # Invalid
             /\ table' = Closed(q).table
             /\ holds' = Closed(q).holds
             /\ MayForget(holds[q])
  /\ UNCHANGED state

\* An event that names a connection: service_readable(), which returns at
\* once when it is dead; service_writable() has nothing to send.
Service(p) ==
  /\ Names(p)
  /\ IF (First.readable \/ First.closed) /\ state[p] # "dead"
     THEN /\ Dies(p) \/ Reads(p)
          /\ unread' = [q \in Peers |-> IF q = ReadsFrom(p) THEN 0 ELSE unread[q]]
     ELSE UNCHANGED <<table, holds, state, interests, unread>>
  /\ events' = Tail(events)
  /\ UNCHANGED <<backlog, gone>>

\* Nobody has that descriptor any more.
Ignore ==
  /\ events # <<>> /\ \A o \in Owners : ~Names(o)
  /\ events' = Tail(events)
  /\ UNCHANGED <<table, backlog, unread, gone, holds, state, interests>>

---------------------------------------------------------------------------

Serve ==
  \/ Accept \/ AcceptRefused \/ AcceptNone
  \/ \E p \in Peers : Service(p)
  \/ Ignore

Loop == Wait \/ Serve

Next ==
  \/ \E p \in Peers :
       PeerConnects(p) \/ PeerSends(p) \/ PeerCloses(p) \/ Register(p)
  \/ Loop

Spec == Init /\ [][Next]_vars

\* The process goes round its loop.
FairSpec == Spec /\ WF_vars(Loop)

---------------------------------------------------------------------------
(* Properties.                                                             *)

\* Every open descriptor belongs to exactly one Socket or Listener, and every
\* one that claims a descriptor has it: nothing leaks, and no close() can hit
\* a descriptor that was handed out again.
OneOwner ==
  \A d \in Descriptors, o \in Owners : table[d] = o <=> holds[o] = d

\* A connection ends only for what its own peer did: it is gone, or has sent
\* bytes that may be refused.  Neither an event that was polled when the
\* descriptor meant another connection, nor a close() of whoever had the
\* descriptor before, ends a connection whose peer is there and silent.
StaleEventHarmless ==
  [][\A p \in Peers :
       state[p] = "live" /\ state'[p] = "dead" => p \in gone \/ unread[p] > 0]_vars

\* What a peer sent is read, and its end noticed, while the connection is
\* open, however busy the other descriptors are.
PeersAreServed ==
  \A p \in Peers :
    /\ unread[p] > 0 /\ holds[p] # Invalid ~> unread[p] = 0 \/ holds[p] = Invalid
    /\ p \in gone /\ holds[p] # Invalid ~> holds[p] = Invalid

\* wait() returns events only when there is something to accept, to read or
\* to bury ("readiness-driven, never busy-waiting").
NeverBusyWaiting ==
  [][events = <<>> /\ events' # <<>> =>
       \E i \in 1..Len(events') :
         LET d == events'[i].descriptor
         IN  Readable(d) /\ (table[d] = Listener => Available # {})]_vars

=============================================================================
