---------------------------- MODULE Connection ----------------------------
(***************************************************************************)
(* One end of a Hotline connection, client or server, against an arbitrary *)
(* peer: it may send anything, in pieces of any size, and vanish at any    *)
(* moment; the socket may take any prefix of what is sent, or fail.  What  *)
(* a handshake or a header says is chosen when it is decoded, which covers *)
(* every peer.                                                             *)
(***************************************************************************)
EXTENDS ConnectionBase

CONSTANTS
  Sizes,       \* the values of a header's totalSize and dataSize
  Bodies,      \* the body sizes the application queues
  MaxInbound,  \* bound: bytes buffered
  MaxUnsent,   \* bound: bytes waiting to be sent
  MaxStarts    \* bound: how often start() is called on one object

ASSUME ConnectionAssumption ==
  /\ Sizes \subseteq Nat
  /\ Bodies \subseteq Nat
  /\ MaxInbound \in Nat
  /\ MaxUnsent \in Nat
  /\ MaxStarts \in Nat

VARIABLE conn

Headers == [key : Keys, total : Sizes, size : Sizes]

\* Every member of the connection has its type: no handler consumes bytes
\* that have not arrived, or waits for a size below zero.
TypeOK == conn \in Connections

Init ==
  \E r \in Roles, k \in Keys :
    conn = NewConnection(r, [key |-> k, total |-> 0, size |-> 0])

---------------------------------------------------------------------------
(* The application.                                                        *)

AppStart ==
  /\ CanStart(conn)
  /\ conn.starts < MaxStarts
  /\ conn' \in Start(conn)

AppQueueTransaction ==
  /\ ApplicationRuns(conn)
  /\ \E body \in Bodies :
       /\ conn.unsent + HeaderSize + body <= MaxUnsent
       /\ conn' \in QueueTransaction(conn, body)

AppClose ==
  /\ ApplicationRuns(conn)
  /\ conn.socket = "open"
  /\ conn' = Close(conn)

(* The event loop.  A receive() on a closed socket fails at once.          *)

Arriving == IF conn.socket = "open" THEN 0..(MaxInbound - conn.inbound) ELSE {0}

Readable ==
  /\ CanReceive(conn)
  /\ conn.socket = "open"
  /\ \E n \in Arriving : conn' = ReceiveThenParse(conn, n)

ReadableEnd ==
  /\ CanReceive(conn)
  /\ \E n \in Arriving : conn' = ReceiveThenEnd(conn, n)

Writable ==
  /\ CanReceive(conn)
  /\ conn' \in ServiceWritable(conn)

(* The turns of parse_inbound() and the returns of its callbacks.          *)

ParseStop ==
  /\ MustStop(conn)
  /\ conn' = StopParsing(conn)

ParseHandshake ==
  /\ CanParse(conn, "handshake")
  /\ \/ conn' = RefuseHandshake(conn)
     \/ conn.role = "server" /\ conn' \in RejectVersion(conn)
     \/ conn' = AcceptHandshake(conn)

ParseHeader ==
  /\ CanParse(conn, "header")
  /\ \E h \in Headers :
       conn' = IF Refused(h) THEN RefuseHeader(conn, h) ELSE AcceptHeader(conn, h)

ParseData ==
  /\ CanParse(conn, "data")
  /\ conn' = IF Completes(conn) THEN Dispatch(conn) ELSE KeepPart(conn)

CallbackReturn ==
  \/ conn.call = "on_established" /\ conn' \in EstablishedReturns(conn)
  \/ conn.call = "on_transaction" /\ conn' = TransactionReturns(conn)

---------------------------------------------------------------------------

ParseTurn ==
  ParseStop \/ ParseHandshake \/ ParseHeader \/ ParseData \/ CallbackReturn

Next ==
  \/ AppStart \/ AppQueueTransaction \/ AppClose
  \/ Readable \/ ReadableEnd \/ Writable
  \/ ParseTurn

Spec == Init /\ [][Next]_conn

\* parse_inbound() runs until it returns, and callbacks return to it.
FairSpec == Spec /\ WF_conn(ParseTurn)

---------------------------------------------------------------------------
(* Properties.                                                             *)

\* Memory a peer can pin in the reassembly map: an unfinished transaction
\* holds less than it announced, and announced no more than the receive
\* policy allows, whatever totals its successive parts claim.
PartialWithinPolicy ==
  \A k \in Keys :
    LET p == conn.partial[k]
    IN  p # NoPartial => 0 < p.len /\ p.len < p.total /\ p.total <= MaxReceive

\* What on_transaction receives is at least what the last part announced
\* ("dispatches once the accumulated data reaches totalSize"); a last part
\* can overshoot that, but never to twice the policy.
DispatchWithinPolicy ==
  conn.call = "on_transaction" =>
    /\ 0 < conn.message.total
    /\ conn.message.total <= conn.message.len
    /\ conn.message.total <= MaxReceive
    /\ conn.message.len < 2 * MaxReceive

\* on_closed is called once in the life of a connection, exactly when it
\* dies, and a dead connection holds no socket: mark_dead() can be reached
\* from a failing send inside a callback of the parse loop, and the loop,
\* the handshake and the flush that follow must neither repeat nor undo it.
OnClosedOnce ==
  /\ conn.closedCalls = IF conn.state = "dead" THEN 1 ELSE 0
  /\ conn.state \in {"idle", "dead"} => conn.socket = "closed"

\* A connection left in "closing" still has bytes to flush: it dies in
\* flush_sends(), which no event reaches once the queue is empty.
ClosingHasBytes ==
  conn.state = "closing" => conn.unsent > 0

\* service_readable() leaves nothing behind that could already be handled:
\* the readiness event for those bytes will not come again.
ParsedToTheEnd ==
  (conn.call = "none" /\ conn.state \notin {"dead", "closing"})
    => conn.inbound < Need(conn)

\* on_transaction is only called on a connection whose handshake was
\* accepted since start(), although the parse loop goes on to the header
\* stage after every handshake, a refused one included.
DispatchOnlyEstablished ==
  [][conn'.call = "on_transaction" /\ conn.call = "parse"
       => conn.shook /\ conn.state = "established"]_conn

\* Only start() takes a connection out of "dead", and only a handshake that
\* was just decoded makes one "established".
DeathIsFinal ==
  [][/\ conn.state = "dead" =>
          conn'.state = "dead" \/ conn'.starts = conn.starts + 1
     /\ conn.state # "established" /\ conn'.state = "established" =>
          conn.state \in {"awaiting_handshake", "awaiting_handshake_reply"}
    ]_conn

\* parse_inbound() terminates, whatever sizes the peer's headers announce
\* and whatever the callbacks queue or close.
ParseReturns ==
  conn.call # "none" ~> conn.call = "none"

\* A transaction whose last part has arrived completely is dispatched before
\* the connection dies of what follows it ("multi-part reassembly dispatches
\* once the accumulated data reaches totalSize").
ArrivedIsHandled ==
  [][(/\ conn.call = "none" /\ conn.state = "established"
      /\ conn.stage = "data" /\ Completes(conn)
      /\ conn'.state = "dead")
       => conn'.inbound < conn.expected]_conn

===========================================================================
