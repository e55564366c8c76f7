-------------------------- MODULE ConnectionBase --------------------------
(***************************************************************************)
(* The handlers of hotline::net::ConnectionBase (framing, reassembly,      *)
(* receive policy, send queue) and of the establish paths of the classes   *)
(* derived from it, ClientConnection and ServerConnection.                 *)
(*                                                                         *)
(* A connection is a record, a handler an operator from a connection to    *)
(* the connection (or the set of connections) it can leave behind.         *)
(* Connection confronts one of them with an arbitrary peer, ConnectionPair *)
(* joins a client and a server.                                            *)
(*                                                                         *)
(* Bytes are counted, not represented.  parse_inbound() is a loop that     *)
(* calls back into the application, so its turns are operators of their    *)
(* own, and the field `call' says which code has control between them:     *)
(* the event loop ("none"), the loop ("parse"), or a callback.             *)
(***************************************************************************)
EXTENDS Naturals

CONSTANTS
  ClientHandshakeSize, \* kClientHandshakeSize, 12
  ServerReplySize,     \* kServerHandshakeReplySize, 8
  HeaderSize,          \* kTransactionHeaderSize, 20
  MaxReceive,          \* config_.max_receive_size
  Keys                 \* the (isReply, id) pairs a header may carry

ASSUME ConnectionBaseAssumption ==
  /\ ClientHandshakeSize \in Nat \ {0}
  /\ ServerReplySize \in Nat \ {0}
  /\ HeaderSize \in Nat \ {0}
  /\ MaxReceive \in Nat

Roles  == {"client", "server"}
States == {"idle", "awaiting_handshake_reply", "awaiting_handshake",
           "established", "closing", "dead"}
Stages == {"handshake", "header", "data"}
Calls  == {"none", "parse", "on_established", "on_transaction"}

Header  == [key : Keys, total : Nat, size : Nat]
Partial == [total : Nat, len : Nat]

\* A key that is not in the map partial_.
NoPartial == [total |-> 0, len |-> 0]

Connections ==
  [role        : Roles,             \* which derived class
   state       : States,            \* state_
   socket      : {"open", "closed"},
   stage       : Stages,            \* receive_stage_
   expected    : Nat,               \* expected_bytes_
   inbound     : Nat,               \* inbound_.size()
   header      : Header,            \* pending_header_
   partial     : [Keys -> Partial], \* partial_
   unsent      : Nat,               \* the bytes left in send_queue_
   call        : Calls,             \* the code in control
   message     : Partial,           \* the last thing on_transaction was given
   closedCalls : Nat,               \* calls of on_closed since start()
   shook       : BOOLEAN,           \* a handshake was accepted since start()
   starts      : Nat]               \* calls of start()

\* expected_bytes_ as the constructor sets it, and what start() (client) or
\* the accepted handshake (server) sends.
HandshakeSize(r) ==
  IF r = "client" THEN ServerReplySize ELSE ClientHandshakeSize
GreetingSize(r) ==
  IF r = "client" THEN ClientHandshakeSize ELSE ServerReplySize

NewConnection(r, h) ==
  [role |-> r, state |-> "idle", socket |-> "closed", stage |-> "handshake",
   expected |-> HandshakeSize(r), inbound |-> 0, header |-> h,
   partial |-> [k \in Keys |-> NoPartial], unsent |-> 0, call |-> "none",
   message |-> NoPartial, closedCalls |-> 0, shook |-> FALSE, starts |-> 0]

---------------------------------------------------------------------------
(* Helpers the handlers share.                                             *)

\* Faulty: on_closed is called again for a connection that is dead already.
MarkDeadAgain(c) ==
  [c EXCEPT !.state = "dead", !.socket = "closed", !.closedCalls = @ + 1]

\* mark_dead()
MarkDead(c) ==
  IF c.state = "dead" THEN c
  ELSE [c EXCEPT !.state = "dead", !.socket = "closed", !.closedCalls = @ + 1]

\* Faulty: nothing ends a connection that has flushed its last bytes.
DrainedStays(c) == c

\* The end of flush_sends(), when the queue is empty.
Drained(c) == IF c.state = "closing" THEN MarkDead(c) ELSE c

\* flush_sends(): all goes out; or the socket would block with some bytes
\* left; or a send fails, at once when the socket is closed.
FlushSends(c) ==
  IF c.unsent = 0 THEN {Drained(c)}
  ELSE IF c.socket = "closed" THEN {MarkDead(c)}
  ELSE {Drained([c EXCEPT !.unsent = 0])}
       \cup {[c EXCEPT !.unsent = left] : left \in 1..c.unsent}
       \cup {MarkDead([c EXCEPT !.unsent = left]) : left \in 1..c.unsent}

QueueBytes(c, n) == [c EXCEPT !.unsent = @ + n]

ExpectHeader(c) == [c EXCEPT !.stage = "header", !.expected = HeaderSize]

\* Faulty: the total of a transaction is not checked.
RefusedBySize(h) == h.total = 0 \/ h.size = 0 \/ h.size > MaxReceive

\* Faulty: the size of a part is not checked.
RefusedByTotal(h) == h.total = 0 \/ h.size = 0 \/ h.total > MaxReceive

\* The receive policy: zero or oversized sizes kill the connection.
Refused(h) ==
  \/ h.total = 0
  \/ h.size = 0
  \/ h.total > MaxReceive
  \/ h.size > MaxReceive

---------------------------------------------------------------------------
(* Calls the application makes from its event loop.                        *)

Idle(c) == c.call = "none"

CanStart(c) == Idle(c) /\ c.state \in {"idle", "dead"}

\* start() moves the socket in and, for a client, sends its handshake.  It
\* resets neither the receive stage nor what is buffered.
Start(c) ==
  LET fresh == [c EXCEPT !.socket = "open", !.closedCalls = 0,
                         !.shook = FALSE, !.starts = @ + 1]
  IN  IF c.role = "client"
      THEN FlushSends(QueueBytes([fresh EXCEPT !.state = "awaiting_handshake_reply"],
                                 GreetingSize("client")))
      ELSE {[fresh EXCEPT !.state = "awaiting_handshake"]}

\* service_readable(), when n bytes arrive before the socket would block:
\* they are buffered, then parsed.
CanReceive(c) == Idle(c) /\ c.state # "dead"

\* Faulty: nothing is read while bytes wait to be sent.
ReceiveThenParseDrained(c, n) ==
  IF c.unsent = 0 THEN [c EXCEPT !.inbound = @ + n, !.call = "parse"] ELSE c

ReceiveThenParse(c, n) == [c EXCEPT !.inbound = @ + n, !.call = "parse"]

\* service_readable(), when the n bytes are followed by an error or by end of
\* file: mark_dead() and return.
ReceiveThenEnd(c, n) == MarkDead([c EXCEPT !.inbound = @ + n])

\* service_writable() on a connection that is not dead.
ServiceWritable(c) == FlushSends(c)

---------------------------------------------------------------------------
(* Calls the application may also make from inside a callback.             *)

ApplicationRuns(c) == c.call # "parse"

\* queue_transaction() and queue_keepalive(): never look at the state.
QueueTransaction(c, body) == FlushSends(QueueBytes(c, HeaderSize + body))

\* close() closes the socket and nothing else.
Close(c) == [c EXCEPT !.socket = "closed"]

---------------------------------------------------------------------------
(* The turns of parse_inbound().                                           *)

Need(c) == IF c.stage = "header" THEN HeaderSize ELSE c.expected

\* Faulty: a stage is entered before its bytes have arrived.
CanParseEarly(c, s) ==
  /\ c.call = "parse"
  /\ c.state \notin {"dead", "closing"}
  /\ c.stage = s

CanParse(c, s) ==
  /\ c.call = "parse"
  /\ c.state \notin {"dead", "closing"}
  /\ c.stage = s
  /\ c.inbound >= Need(c)

MustStop(c) ==
  /\ c.call = "parse"
  /\ c.state \in {"dead", "closing"} \/ c.inbound < Need(c)

StopParsing(c) == [c EXCEPT !.call = "none"]

\* Faulty: what was handled stays in inbound_.
ConsumeNothing(c) == c

Consume(c) == [c EXCEPT !.inbound = @ - Need(c)]

\* Faulty: the refusal of a handshake does not end the connection.
RefuseHandshakeSoftly(c) == ExpectHeader(Consume(c))

\* Wrong magic (server), or a reply with an error (client).
RefuseHandshake(c) == ExpectHeader(MarkDead(Consume(c)))

\* Faulty: the server closes without a reply.
RejectSilently(c) == {ExpectHeader(MarkDead(Consume(c)))}

\* Server only: version # 1 is answered with reason 1 before closing.
RejectVersion(c) ==
  LET rejected == QueueBytes(Consume(c), GreetingSize("server"))
  IN  {ExpectHeader(d) : d \in FlushSends([rejected EXCEPT !.state = "closing"])}

\* The server queues its reply, and flushes it only after on_established.
AcceptHandshake(c) ==
  LET accepted == [Consume(c) EXCEPT !.state = "established",
                                     !.call = "on_established", !.shook = TRUE]
  IN  IF c.role = "server"
      THEN QueueBytes(accepted, GreetingSize("server"))
      ELSE accepted

\* Faulty: the state is set once on_established has returned.
EstablishedReturnsLate(c) ==
  LET back == ExpectHeader([c EXCEPT !.state = "established", !.call = "parse"])
  IN  {back}

EstablishedReturns(c) ==
  LET back == ExpectHeader([c EXCEPT !.call = "parse"])
  IN  IF c.role = "server" THEN FlushSends(back) ELSE {back}

RefuseHeader(c, h) ==
  MarkDead([Consume(c) EXCEPT !.header = h, !.call = "none"])

AcceptHeader(c, h) ==
  [Consume(c) EXCEPT !.header = h, !.stage = "data", !.expected = h.size]

SinglePart(c) == c.header.total = c.header.size

\* What the reassembly map holds for this key once the part is added.
Reassembled(c) ==
  [total |-> c.header.total,
   len   |-> c.partial[c.header.key].len + c.header.size]

Completes(c) == SinglePart(c) \/ Reassembled(c).len >= c.header.total

\* A part that does not complete its transaction is kept.
KeepPart(c) ==
  ExpectHeader([Consume(c) EXCEPT !.partial[c.header.key] = Reassembled(c)])

\* A whole transaction, or the part that completes one, is dispatched.  The
\* map entry outlives the callback, emptied.
Dispatch(c) ==
  IF SinglePart(c)
  THEN [Consume(c) EXCEPT !.call = "on_transaction",
                          !.message = [total |-> c.header.total,
                                       len |-> c.header.size]]
  ELSE [Consume(c) EXCEPT !.call = "on_transaction",
                          !.message = Reassembled(c),
                          !.partial[c.header.key] = NoPartial]

\* Faulty: the loop handles one transaction and returns.
TransactionReturnsOut(c) == ExpectHeader([c EXCEPT !.call = "none"])

\* Faulty: the loop stays in the data stage.
TransactionReturnsForgets(c) == [c EXCEPT !.call = "parse"]

TransactionReturns(c) == ExpectHeader([c EXCEPT !.call = "parse"])

===========================================================================
