-------------------------- MODULE ConnectionPair --------------------------
(***************************************************************************)
(* A ClientConnection and a ServerConnection over one socket pair, each    *)
(* with its own event loop, as in tests/net/test_both.cpp.                 *)
(*                                                                         *)
(* The handlers are those of ConnectionBase.  Here the bytes have content: *)
(* stream[s] is every byte side s has queued and its peer has not parsed.  *)
(* Its first bytes are in the peer's inbound_, its last ones in the send   *)
(* queue of s, and those between in the sockets, which hold Capacity bytes *)
(* each way.  A byte is <<frame, i>>, the i-th byte of a frame; frame 0 is *)
(* the handshake or the reply that accepts it, RejectFrame the one that    *)
(* rejects it, and frame n the n-th transaction of the side.  The receiver *)
(* does not know about frames: it cuts the stream by its stage alone.      *)
(***************************************************************************)
EXTENDS ConnectionBase, Sequences

CONSTANTS
  Capacity,     \* bound: bytes the sockets hold in one direction
  Bodies,       \* the body sizes applications queue
  MaxMessages   \* bound: transactions each side queues

ASSUME ConnectionPairAssumption ==
  /\ Capacity \in Nat \ {0}
  /\ Bodies \subseteq Nat
  /\ MaxMessages \in Nat \ {0}
  /\ Keys = 1..MaxMessages

VARIABLES
  conn,        \* the two connections
  stream,      \* the bytes queued by a side that its peer has not parsed
  compatible,  \* whether the client's handshake carries version 1
  sent,        \* the transactions a side queued (history)
  delivered,   \* the transactions a side was given (history)
  cut          \* whether a call on a socket has failed, or an application has
               \* closed its side (history)

vars == <<conn, stream, compatible, sent, delivered, cut>>

Peer(s) == IF s = "client" THEN "server" ELSE "client"

Transaction == [key : Keys, size : Bodies]

RejectFrame == MaxMessages + 1

FrameBytes(frame, size) == [i \in 1..size |-> <<frame, i>>]

InSockets(s) == Len(stream[s]) - conn[s].unsent - conn[Peer(s)].inbound

Init ==
  /\ conn = [s \in Roles |-> NewConnection(s, [key |-> 1, total |-> 0, size |-> 0])]
  /\ stream = [s \in Roles |-> <<>>]
  /\ compatible \in BOOLEAN
  /\ sent = [s \in Roles |-> <<>>]
  /\ delivered = [s \in Roles |-> <<>>]
  /\ cut = FALSE

---------------------------------------------------------------------------
\* Faulty: new bytes overtake those that wait in the send queue.
StepAhead(s, c, queued, parsed) ==
  LET out == Len(stream[s]) - conn[s].unsent
  IN  /\ conn' = [conn EXCEPT ![s] = c]
      /\ stream' = [stream EXCEPT
                      ![s] = SubSeq(@, 1, out) \o queued \o SubSeq(@, out + 1, Len(@)),
                      ![Peer(s)] = SubSeq(@, parsed + 1, Len(@))]

\* Side s becomes c, having queued some bytes and parsed some others.
Step(s, c, queued, parsed) ==
  /\ conn' = [conn EXCEPT ![s] = c]
  /\ stream' = [stream EXCEPT ![s] = @ \o queued,
                              ![Peer(s)] = SubSeq(@, parsed + 1, Len(@))]

\* A flush that ends with bytes it could not send.
SendFailed(c) == c.state = "dead" /\ c.unsent > 0

\* What a flush by side s may leave: the sockets hold no more than Capacity,
\* and sending stops only because they are full or because it failed.
Flushed(s, c) ==
  /\ InSockets(s)' <= Capacity
  /\ c.unsent > 0 /\ c.state # "dead" => InSockets(s)' = Capacity
  /\ cut' = (cut \/ SendFailed(c))

Front(s, n) == SubSeq(stream[s], 1, n)

Greeting(s) == FrameBytes(0, GreetingSize(s))

---------------------------------------------------------------------------
(* The applications.                                                       *)

StartSide(s) ==
  /\ conn[s].state = "idle"
  /\ \E c \in Start(conn[s]) :
       /\ Step(s, c, IF s = "client" THEN Greeting(s) ELSE <<>>, 0)
       /\ Flushed(s, c)
  /\ UNCHANGED <<compatible, sent, delivered>>

\* A client may queue at once, a server waits for on_established.
MayQueue(s) ==
  /\ ApplicationRuns(conn[s])
  /\ \/ conn[s].state = "established"
     \/ s = "client" /\ conn[s].state = "awaiting_handshake_reply"
  /\ Len(sent[s]) < MaxMessages

Queue(s) ==
  /\ MayQueue(s)
  /\ \E body \in Bodies :
       LET frame == Len(sent[s]) + 1
       IN  /\ \E c \in QueueTransaction(conn[s], body) :
                /\ Step(s, c, FrameBytes(frame, HeaderSize + body), 0)
                /\ Flushed(s, c)
           /\ sent' = [sent EXCEPT ![s] = Append(@, [key |-> frame, size |-> body])]
  /\ UNCHANGED <<compatible, delivered>>

CloseSide(s) ==
  /\ ApplicationRuns(conn[s])
  /\ conn[s].socket = "open"
  /\ Step(s, Close(conn[s]), <<>>, 0)
  /\ cut' = TRUE
  /\ UNCHANGED <<compatible, sent, delivered>>

(* The event loops: the Poller reports only open descriptors.              *)

Readable(s) ==
  /\ CanReceive(conn[s])
  /\ conn[s].socket = "open"
  /\ \E n \in 1..InSockets(Peer(s)) : Step(s, ReceiveThenParse(conn[s], n), <<>>, 0)
  /\ UNCHANGED <<compatible, sent, delivered, cut>>

\* The peer has closed its socket, and end of file follows all it had sent.
ReadableEOF(s) ==
  /\ CanReceive(conn[s])
  /\ conn[s].socket = "open"
  /\ conn[Peer(s)].starts > 0 /\ conn[Peer(s)].socket = "closed"
  /\ Step(s, ReceiveThenEnd(conn[s], InSockets(Peer(s))), <<>>, 0)
  /\ UNCHANGED <<compatible, sent, delivered, cut>>

\* The network fails.
ReadableError(s) ==
  /\ CanReceive(conn[s])
  /\ conn[s].socket = "open"
  /\ \E n \in 0..InSockets(Peer(s)) : Step(s, ReceiveThenEnd(conn[s], n), <<>>, 0)
  /\ cut' = TRUE
  /\ UNCHANGED <<compatible, sent, delivered>>

Writable(s) ==
  /\ CanReceive(conn[s])
  /\ conn[s].socket = "open"
  /\ \E c \in ServiceWritable(conn[s]) : Step(s, c, <<>>, 0) /\ Flushed(s, c)
  /\ UNCHANGED <<compatible, sent, delivered>>

(* parse_inbound().                                                        *)

ParseStop(s) ==
  /\ MustStop(conn[s])
  /\ Step(s, StopParsing(conn[s]), <<>>, 0)
  /\ UNCHANGED <<compatible, sent, delivered, cut>>

\* What the bytes at the front of the stream are, decoded as a handshake.
\* Anything but a handshake (server) or an accepting reply (client) has the
\* wrong magic or an error in it.
Greeted(s) == Front(Peer(s), conn[s].expected) = Greeting(Peer(s))

\* Faulty: the server does not look at the version.
AnyVersion == TRUE

\* validate_client(): the version must be 1.
VersionAccepted == compatible

ParseHandshake(s) ==
  /\ CanParse(conn[s], "handshake")
  /\ LET n == conn[s].expected
     IN  \/ /\ ~Greeted(s)
            /\ Step(s, RefuseHandshake(conn[s]), <<>>, n)
            /\ UNCHANGED cut
         \/ /\ Greeted(s) /\ s = "server" /\ ~VersionAccepted
            /\ \E c \in RejectVersion(conn[s]) :
                 /\ Step(s, c, FrameBytes(RejectFrame, ServerReplySize), n)
                 /\ Flushed(s, c)
         \/ /\ Greeted(s) /\ (s = "server" => VersionAccepted)
            /\ Step(s, AcceptHandshake(conn[s]),
                    IF s = "server" THEN Greeting(s) ELSE <<>>, n)
            /\ UNCHANGED cut
  /\ UNCHANGED <<compatible, sent, delivered>>

\* The header found at the front of the stream; bytes that are not a header
\* decode to sizes the policy refuses or, at worst, to another transaction.
DecodeHeader(s) ==
  LET frame == Head(stream[Peer(s)])[1]
      whole == frame \in Keys /\ Front(Peer(s), HeaderSize) = FrameBytes(frame, HeaderSize)
      size  == IF whole THEN sent[Peer(s)][frame].size ELSE 0
  IN  [key |-> IF whole THEN frame ELSE 1, total |-> size, size |-> size]

ParseHeader(s) ==
  /\ CanParse(conn[s], "header")
  /\ LET h == DecodeHeader(s)
         c == IF Refused(h) THEN RefuseHeader(conn[s], h) ELSE AcceptHeader(conn[s], h)
     IN  Step(s, c, <<>>, HeaderSize)
  /\ UNCHANGED <<compatible, sent, delivered, cut>>

\* A transaction the peer never queued.
Corrupt == [key |-> 0, size |-> 0]

ParseData(s) ==
  /\ CanParse(conn[s], "data")
  /\ LET h == conn[s].header
         body == [i \in 1..h.size |-> <<h.key, HeaderSize + i>>]
         got == IF Front(Peer(s), h.size) = body
                THEN [key |-> h.key, size |-> h.size] ELSE Corrupt
     IN  /\ Step(s, Dispatch(conn[s]), <<>>, h.size)
         /\ delivered' = [delivered EXCEPT ![s] = Append(@, got)]
  /\ UNCHANGED <<compatible, sent, cut>>

CallbackReturn(s) ==
  /\ \/ /\ conn[s].call = "on_established"
        /\ \E c \in EstablishedReturns(conn[s]) :
             /\ Step(s, c, <<>>, 0)
             /\ IF s = "server" THEN Flushed(s, c) ELSE UNCHANGED cut
     \/ /\ conn[s].call = "on_transaction"
        /\ Step(s, TransactionReturns(conn[s]), <<>>, 0)
        /\ UNCHANGED cut
  /\ UNCHANGED <<compatible, sent, delivered>>

---------------------------------------------------------------------------

ParseTurn(s) ==
  \/ ParseStop(s) \/ ParseHandshake(s) \/ ParseHeader(s) \/ ParseData(s)
  \/ CallbackReturn(s)

Next ==
  \E s \in Roles :
    \/ StartSide(s) \/ Queue(s) \/ CloseSide(s)
    \/ Readable(s) \/ ReadableEOF(s) \/ ReadableError(s) \/ Writable(s)
    \/ ParseTurn(s)

Spec == Init /\ [][Next]_vars

\* A call of service_writable() in which no send fails.  On full sockets it
\* changes nothing: they take bytes again once the peer has read some.
Sends(s) == Writable(s) /\ ~SendFailed(conn'[s])

\* Both sides are started, readiness is level-triggered, so that an event
\* loop keeps serving a socket while it is readable or takes bytes, and the
\* parse loop and its callbacks run on.  No failure is ever forced.
FairSpec ==
  /\ Spec
  /\ \A s \in Roles :
       /\ WF_vars(StartSide(s))
       /\ WF_vars(Readable(s))
       /\ WF_vars(ReadableEOF(s))
       /\ WF_vars(Sends(s))
       /\ WF_vars(ParseTurn(s))

---------------------------------------------------------------------------
(* Properties.                                                             *)

\* The two ends account for the same bytes: what was queued and not parsed
\* is at least what the one has not sent and the other has buffered.
TypeOK ==
  /\ conn \in [Roles -> Connections]
  /\ \A s \in Roles :
       /\ InSockets(s) >= 0
       /\ \A i \in 1..Len(stream[s]) :
            /\ stream[s][i][1] \in 0..RejectFrame
            /\ stream[s][i][2] \in Nat \ {0}
       /\ Len(sent[s]) <= MaxMessages
       /\ Len(delivered[s]) <= MaxMessages
  /\ {compatible, cut} \subseteq BOOLEAN

\* The receiver cuts the byte stream by its own stage and counts, and each
\* cut falls where the sender began a frame, however the bytes were split
\* among send() and receive() calls and whatever the callbacks queued: a
\* header is never read from the middle of a body, nor a body from a header.
FramesAligned ==
  \A s \in Roles :
    /\ CanParse(conn[s], "header") =>
         \E n \in Keys : Front(Peer(s), HeaderSize) = FrameBytes(n, HeaderSize)
    /\ CanParse(conn[s], "data") =>
         Head(stream[Peer(s)]) = <<conn[s].header.key, HeaderSize + 1>>

\* The client is established only with a server that accepted it, and a
\* version the server does not speak establishes neither side.
HandshakeAgreement ==
  /\ conn["client"].shook => conn["server"].shook
  /\ conn["server"].shook => compatible

\* The pair implements TransactionChannel: what is pending is what was sent
\* and not delivered.
Pending(s) == SubSeq(sent[s], Len(delivered[Peer(s)]) + 1, Len(sent[s]))

Channel == INSTANCE TransactionChannel
             WITH Sides <- Roles,
                  Transactions <- Transaction,
                  pending <- [s \in Roles |-> Pending(s)],
                  log <- delivered,
                  dead <- {s \in Roles : conn[s].state = "dead"}

ImplementsChannel == Channel!Spec

\* What alone may end a connection: a failed call or a close, a version the
\* server does not speak, a transaction the receive policy refuses.
Unservable ==
  \/ cut
  \/ ~compatible
  \/ \E s \in Roles : \E i \in 1..Len(sent[s]) :
       Refused([total |-> sent[s][i].size, size |-> sent[s][i].size])

\* Two sides that go on serving their sockets deliver all that was queued,
\* even when both directions are full at once: neither waits to have its own
\* bytes taken before it reads the other's.  A full socket never fails here,
\* it waits.
EventuallyDelivered ==
  \A s \in Roles, n \in Keys :
    Len(sent[s]) >= n ~> (Len(delivered[Peer(s)]) >= n \/ Unservable)

\* The reply that rejects the client is out of the server's send queue, whole.
RejectionSent ==
  \/ conn["client"].stage # "handshake"
  \/ SubSeq(stream["server"], 1, Len(stream["server"]) - conn["server"].unsent)
       = FrameBytes(RejectFrame, ServerReplySize)

\* Every pair settles: both sides established, or, with a reason for it, both
\* sockets closed.  No side waits for a peer that is gone, and no pair that
\* could go on is closed.  A client whose version is rejected is answered before
\* the server closes, however often the sockets fill while the reply goes out.
PairSettles ==
  <>[]\/ \A s \in Roles : conn[s].state = "established" /\ conn[s].socket = "open"
      \/ /\ \A s \in Roles : conn[s].socket = "closed"
         /\ Unservable
         /\ ~compatible => cut \/ RejectionSent

===========================================================================
