-------------------------- MODULE ConnectionProofs --------------------------
(***************************************************************************)
(* Safety of one connection against an arbitrary peer, for every size,     *)
(* policy and set of keys, and however often start() is called.            *)
(***************************************************************************)
EXTENDS Connection, TLAPS

---------------------------------------------------------------------------
(* The inductive invariant, by parts.                                      *)

\* PartialWithinPolicy, of any connection.
PartialFits(c) ==
  \A k \in Keys :
    c.partial[k] # NoPartial =>
      /\ 0 < c.partial[k].len
      /\ c.partial[k].len < c.partial[k].total
      /\ c.partial[k].total <= MaxReceive

\* OnClosedOnce, of any connection.
ReportedOnce(c) ==
  /\ c.closedCalls = IF c.state = "dead" THEN 1 ELSE 0
  /\ c.state \in {"idle", "dead"} => c.socket = "closed"

\* A connection in the data stage has a header that the policy let through,
\* and waits for exactly the part it announces.
StageFits(c) ==
  /\ c.stage = "data" => ~Refused(c.header) /\ c.expected = c.header.size
  /\ c.stage = "header" => c.expected = HeaderSize

\* DispatchWithinPolicy, of any connection.
MessageFits(c) ==
  c.call = "on_transaction" =>
    /\ 0 < c.message.total
    /\ c.message.total <= c.message.len
    /\ c.message.total <= MaxReceive
    /\ c.message.len < 2 * MaxReceive

\* The handshake is parsed only while it is awaited.
HandshakeFits(c) ==
  /\ c.state = "idle" => c.call = "none"
  /\ c.state = "established" /\ c.stage = "handshake" => c.call = "on_established"

\* All of this holds in the middle of a handler; between handlers a
\* connection in "closing" has bytes to flush as well (ClosingHasBytes).
Sound(c) ==
  /\ c \in Connections
  /\ PartialFits(c)
  /\ ReportedOnce(c)
  /\ StageFits(c)
  /\ MessageFits(c)
  /\ HandshakeFits(c)

Good(c) == Sound(c) /\ (c.state = "closing" => c.unsent > 0)

IInv == Good(conn)

---------------------------------------------------------------------------
(* The helpers the handlers share.                                         *)

\* Changing how much is unsent does not matter to Sound.
LEMMA UnsentSound ==
  ASSUME NEW c, Sound(c), NEW n \in Nat
  PROVE  /\ Sound([c EXCEPT !.unsent = n])
         /\ [c EXCEPT !.unsent = n].unsent = n
         /\ [c EXCEPT !.unsent = n].state = c.state
         /\ [c EXCEPT !.unsent = n].stage = c.stage
         /\ [c EXCEPT !.unsent = n].call = c.call
         /\ [c EXCEPT !.unsent = n].starts = c.starts
<1> DEFINE d == [c EXCEPT !.unsent = n]
<1>1. c \in Connections
  BY DEF Sound
<1>2. /\ d \in Connections
      /\ d.unsent = n
      /\ d.state = c.state /\ d.socket = c.socket /\ d.stage = c.stage
      /\ d.expected = c.expected /\ d.header = c.header
      /\ d.partial = c.partial /\ d.call = c.call /\ d.message = c.message
      /\ d.closedCalls = c.closedCalls /\ d.starts = c.starts
  BY <1>1 DEF Connections
<1>3. PartialFits(d) /\ ReportedOnce(d) /\ StageFits(d) /\ MessageFits(d)
        /\ HandshakeFits(d)
  BY <1>2 DEF Sound, PartialFits, ReportedOnce, StageFits, MessageFits, HandshakeFits
<1>. QED BY <1>2, <1>3 DEF Sound

\* mark_dead() may be called from anywhere, and leaves a dead connection.
LEMMA MarkDeadGood ==
  ASSUME NEW c, Sound(c)
  PROVE  /\ Good(MarkDead(c))
         /\ MarkDead(c).state = "dead"
         /\ MarkDead(c).stage = c.stage
         /\ MarkDead(c).call = c.call
         /\ MarkDead(c).starts = c.starts
<1>1. CASE c.state = "dead"
  BY <1>1 DEF MarkDead, Good
<1>2. CASE c.state # "dead"
  <2> DEFINE n == c.closedCalls + 1
             d == [c EXCEPT !.state = "dead", !.socket = "closed", !.closedCalls = n]
  <2>1. MarkDead(c) = d
    BY <1>2 DEF MarkDead
  <2>2. c \in Connections /\ c.closedCalls = 0
    BY <1>2 DEF Sound, ReportedOnce
  <2>3. n = 1 /\ n \in Nat
    BY <2>2
  <2> HIDE DEF n
  <2>4. d \in Connections
    BY <2>2, <2>3 DEF Connections, States
  <2>5. /\ d.partial = c.partial /\ d.stage = c.stage /\ d.expected = c.expected
        /\ d.header = c.header /\ d.call = c.call /\ d.message = c.message
        /\ d.state = "dead" /\ d.socket = "closed" /\ d.closedCalls = n
        /\ d.starts = c.starts
    BY <2>2 DEF Connections
  <2>6. PartialFits(d) /\ StageFits(d) /\ MessageFits(d) /\ ReportedOnce(d)
          /\ HandshakeFits(d)
    BY <2>3, <2>5 DEF Sound, PartialFits, StageFits, MessageFits, ReportedOnce,
                      HandshakeFits
  <2>. QED BY <2>1, <2>4, <2>5, <2>6 DEF Good, Sound
<1>. QED BY <1>1, <1>2

\* flush_sends() leaves a good connection whatever the socket does.
LEMMA FlushGood ==
  ASSUME NEW c, Sound(c), NEW d \in FlushSends(c)
  PROVE  /\ Good(d)
         /\ d.state \in {c.state, "dead"}
         /\ d.stage = c.stage
         /\ d.call = c.call
         /\ d.starts = c.starts
<1>0. c \in Connections /\ c.unsent \in Nat
  BY DEF Sound, Connections
<1>1. ASSUME NEW e, Sound(e), e.state = c.state, e.stage = c.stage, e.call = c.call,
             e.starts = c.starts, d = Drained(e)
      PROVE  Good(d) /\ d.state \in {c.state, "dead"} /\ d.stage = c.stage
               /\ d.call = c.call /\ d.starts = c.starts
  <2>1. CASE e.state = "closing"
    BY <1>1, <2>1, MarkDeadGood DEF Drained
  <2>2. CASE e.state # "closing"
    BY <1>1, <2>2 DEF Drained, Good
  <2>. QED BY <2>1, <2>2
<1>2. CASE c.unsent = 0
  BY <1>1, <1>2 DEF FlushSends
<1>3. CASE c.unsent # 0 /\ c.socket = "closed"
  BY <1>3, MarkDeadGood DEF FlushSends
<1>4. CASE c.unsent # 0 /\ c.socket # "closed"
  <2>1. \/ d = Drained([c EXCEPT !.unsent = 0])
        \/ \E left \in 1..c.unsent : d = [c EXCEPT !.unsent = left]
        \/ \E left \in 1..c.unsent : d = MarkDead([c EXCEPT !.unsent = left])
    BY <1>4 DEF FlushSends
  <2>2. CASE d = Drained([c EXCEPT !.unsent = 0])
    BY <1>1, <2>2, UnsentSound
  <2>3. ASSUME NEW left \in 1..c.unsent, d = [c EXCEPT !.unsent = left]
        PROVE  Good(d) /\ d.state = c.state /\ d.stage = c.stage /\ d.call = c.call
                 /\ d.starts = c.starts
    <3>1. left \in Nat /\ left > 0
      BY <1>0
    <3>. QED BY <2>3, <3>1, UnsentSound DEF Good
  <2>4. ASSUME NEW left \in 1..c.unsent, d = MarkDead([c EXCEPT !.unsent = left])
        PROVE  Good(d) /\ d.state = "dead" /\ d.stage = c.stage /\ d.call = c.call
                 /\ d.starts = c.starts
    <3> DEFINE e == [c EXCEPT !.unsent = left]
    <3>1. left \in Nat
      BY <1>0
    <3>2. Sound(e) /\ e.stage = c.stage /\ e.call = c.call /\ e.starts = c.starts
      BY <3>1, UnsentSound
    <3> HIDE DEF e
    <3>3. d = MarkDead(e)
      BY <2>4 DEF e
    <3>. QED BY <3>2, <3>3, MarkDeadGood
  <2>. QED BY <2>1, <2>2, <2>3, <2>4
<1>. QED BY <1>2, <1>3, <1>4

---------------------------------------------------------------------------
(* The handlers, each from a good connection.                              *)

\* queue_transaction(), in any state and from any callback.
LEMMA QueueGood ==
  ASSUME NEW c, Sound(c), NEW n \in Nat, NEW d \in FlushSends(QueueBytes(c, n))
  PROVE  Good(d) /\ d.starts = c.starts /\ d.state \in {c.state, "dead"}
<1>1. c.unsent + n \in Nat
  BY DEF Sound, Connections
<1>2. /\ Sound(QueueBytes(c, n))
      /\ QueueBytes(c, n).starts = c.starts /\ QueueBytes(c, n).state = c.state
  BY <1>1, UnsentSound DEF QueueBytes
<1>. QED BY <1>2, FlushGood

\* What start() sets before it sends anything.
LEMMA StartGood ==
  ASSUME Good(conn), CanStart(conn), NEW d \in Start(conn)
  PROVE  Good(d) /\ d.starts = conn.starts + 1 /\ d.state # "established"
<1> DEFINE n == conn.starts + 1
           e(st) == [conn EXCEPT !.state = st, !.socket = "open", !.closedCalls = 0,
                                 !.shook = FALSE, !.starts = n]
<1>1. conn \in Connections /\ n \in Nat
  BY DEF Good, Sound, Connections
<1> HIDE DEF n
<1>2. ASSUME NEW st \in {"awaiting_handshake_reply", "awaiting_handshake"}
      PROVE  Good(e(st)) /\ e(st).starts = n /\ e(st).state = st
  <2>1. e(st) \in Connections
    BY <1>1 DEF Connections, States
  <2>2. /\ e(st).partial = conn.partial /\ e(st).stage = conn.stage
        /\ e(st).expected = conn.expected /\ e(st).header = conn.header
        /\ e(st).call = conn.call /\ e(st).message = conn.message
        /\ e(st).state = st /\ e(st).closedCalls = 0
        /\ e(st).starts = n
    BY <1>1 DEF Connections
  <2>3. PartialFits(e(st)) /\ StageFits(e(st)) /\ MessageFits(e(st))
          /\ ReportedOnce(e(st)) /\ HandshakeFits(e(st))
    BY <2>2 DEF Good, Sound, PartialFits, StageFits, MessageFits, ReportedOnce,
                HandshakeFits
  <2>. QED BY <2>1, <2>2, <2>3 DEF Good, Sound
<1>3. CASE conn.role = "client"
  <2>1. d \in FlushSends(QueueBytes(e("awaiting_handshake_reply"), GreetingSize("client")))
    BY <1>1, <1>3 DEF Start, n, Connections
  <2>2. GreetingSize("client") \in Nat
    BY ConnectionBaseAssumption DEF GreetingSize
  <2>3. /\ Sound(e("awaiting_handshake_reply"))
        /\ e("awaiting_handshake_reply").state = "awaiting_handshake_reply"
        /\ e("awaiting_handshake_reply").starts = n
    BY <1>2 DEF Good
  <2> HIDE DEF e
  <2>4. Good(d) /\ d.starts = n /\ d.state \in {"awaiting_handshake_reply", "dead"}
    BY <2>1, <2>2, <2>3, QueueGood
  <2>. QED BY <2>4 DEF n
<1>4. CASE conn.role # "client"
  <2>1. d = e("awaiting_handshake")
    BY <1>1, <1>4 DEF Start, n, Connections
  <2>. QED BY <1>2, <2>1 DEF n
<1>. QED BY <1>3, <1>4

\* service_readable(), in both its outcomes.
LEMMA ReceiveGood ==
  ASSUME Good(conn), CanReceive(conn), NEW n \in Nat
  PROVE  /\ conn.socket = "open" => Good(ReceiveThenParse(conn, n))
         /\ Good(ReceiveThenEnd(conn, n))
<1> DEFINE m == conn.inbound + n
           p == [conn EXCEPT !.inbound = m, !.call = "parse"]
           e == [conn EXCEPT !.inbound = m]
<1>1. conn \in Connections /\ m \in Nat
  BY DEF Good, Sound, Connections
<1>2. ReceiveThenParse(conn, n) = p /\ ReceiveThenEnd(conn, n) = MarkDead(e)
  BY <1>1 DEF ReceiveThenParse, ReceiveThenEnd, Connections
<1> HIDE DEF m
<1>3. p \in Connections /\ e \in Connections
  BY <1>1 DEF Connections, Calls
<1>4. /\ p.partial = conn.partial /\ p.stage = conn.stage
      /\ p.expected = conn.expected /\ p.header = conn.header
      /\ p.state = conn.state /\ p.message = conn.message
      /\ p.socket = conn.socket /\ p.closedCalls = conn.closedCalls
      /\ p.call = "parse" /\ p.unsent = conn.unsent
  BY <1>1 DEF Connections
<1>5. /\ e.partial = conn.partial /\ e.stage = conn.stage
      /\ e.expected = conn.expected /\ e.header = conn.header
      /\ e.state = conn.state /\ e.message = conn.message
      /\ e.socket = conn.socket /\ e.closedCalls = conn.closedCalls
      /\ e.call = conn.call /\ e.unsent = conn.unsent
  BY <1>1 DEF Connections
<1>6. Sound(e)
  BY <1>3, <1>5 DEF Good, Sound, PartialFits, StageFits, MessageFits, ReportedOnce,
                    HandshakeFits
<1>7. ASSUME conn.socket = "open"
      PROVE  Good(p)
  <2>1. PartialFits(p) /\ StageFits(p) /\ MessageFits(p) /\ ReportedOnce(p)
    BY <1>4 DEF Good, Sound, PartialFits, StageFits, MessageFits, ReportedOnce
  <2>2. HandshakeFits(p)
    BY <1>4, <1>7 DEF Good, Sound, HandshakeFits, ReportedOnce, CanReceive, Idle
  <2>. QED BY <1>3, <1>4, <2>1, <2>2 DEF Good, Sound
<1>. QED BY <1>2, <1>6, <1>7, MarkDeadGood

\* close(), from the event loop or a callback.
LEMMA CloseGood ==
  ASSUME Good(conn)
  PROVE  Good(Close(conn))
<1> DEFINE d == [conn EXCEPT !.socket = "closed"]
<1>1. conn \in Connections
  BY DEF Good, Sound
<1>2. /\ d \in Connections
      /\ d.partial = conn.partial /\ d.stage = conn.stage
      /\ d.expected = conn.expected /\ d.header = conn.header
      /\ d.state = conn.state /\ d.message = conn.message
      /\ d.socket = "closed" /\ d.closedCalls = conn.closedCalls
      /\ d.call = conn.call /\ d.unsent = conn.unsent
  BY <1>1 DEF Connections
<1>3. PartialFits(d) /\ StageFits(d) /\ MessageFits(d) /\ ReportedOnce(d)
        /\ HandshakeFits(d)
  BY <1>2 DEF Good, Sound, PartialFits, StageFits, MessageFits, ReportedOnce,
              HandshakeFits
<1>. QED BY <1>2, <1>3 DEF Good, Sound, Close

---------------------------------------------------------------------------
(* The turns of parse_inbound().                                           *)

\* Only the count of buffered bytes changes, and does not fall below zero.
LEMMA ConsumeFacts ==
  ASSUME NEW c, Sound(c), NEW s, CanParse(c, s)
  PROVE  \E m \in Nat : Consume(c) = [c EXCEPT !.inbound = m]
<1>1. c \in Connections /\ Need(c) \in Nat /\ c.inbound \in Nat
  BY ConnectionBaseAssumption DEF Sound, Connections, Need
<1>2. c.inbound - Need(c) \in Nat
  BY <1>1 DEF CanParse
<1>3. Consume(c) = [c EXCEPT !.inbound = c.inbound - Need(c)]
  BY <1>1 DEF Consume, Connections
<1>. QED BY <1>2, <1>3

\* ExpectHeader() undoes what a stage has set up.
LEMMA ExpectHeaderGood ==
  ASSUME NEW c, c \in Connections, PartialFits(c), ReportedOnce(c),
         c.call # "on_transaction", c.state # "idle",
         c.state = "closing" => c.unsent > 0
  PROVE  /\ Good(ExpectHeader(c))
         /\ ExpectHeader(c).call = c.call
         /\ ExpectHeader(c).state = c.state
<1> DEFINE d == [c EXCEPT !.stage = "header", !.expected = HeaderSize]
<1>1. /\ d \in Connections
      /\ d.partial = c.partial /\ d.stage = "header" /\ d.expected = HeaderSize
      /\ d.state = c.state /\ d.socket = c.socket /\ d.closedCalls = c.closedCalls
      /\ d.call = c.call /\ d.unsent = c.unsent
  BY ConnectionBaseAssumption DEF Connections, Stages
<1>2. PartialFits(d) /\ StageFits(d) /\ MessageFits(d) /\ ReportedOnce(d)
        /\ HandshakeFits(d)
  BY <1>1 DEF PartialFits, StageFits, MessageFits, ReportedOnce, HandshakeFits
<1>. QED BY <1>1, <1>2 DEF Good, Sound, ExpectHeader

LEMMA StopGood ==
  ASSUME Good(conn), MustStop(conn)
  PROVE  Good(StopParsing(conn))
<1> DEFINE d == [conn EXCEPT !.call = "none"]
<1>1. conn \in Connections
  BY DEF Good, Sound
<1>2. /\ d \in Connections
      /\ d.partial = conn.partial /\ d.stage = conn.stage
      /\ d.expected = conn.expected /\ d.header = conn.header
      /\ d.state = conn.state /\ d.message = conn.message
      /\ d.socket = conn.socket /\ d.closedCalls = conn.closedCalls
      /\ d.call = "none" /\ d.unsent = conn.unsent
  BY <1>1 DEF Connections, Calls
<1>3. PartialFits(d) /\ StageFits(d) /\ MessageFits(d) /\ ReportedOnce(d)
  BY <1>2 DEF Good, Sound, PartialFits, StageFits, MessageFits, ReportedOnce
<1>4. HandshakeFits(d)
  BY <1>2 DEF Good, Sound, HandshakeFits, MustStop
<1>. QED BY <1>2, <1>3, <1>4 DEF Good, Sound, StopParsing

\* The three outcomes of the handshake.
LEMMA HandshakeGood ==
  ASSUME Good(conn), CanParse(conn, "handshake")
  PROVE  /\ Good(RefuseHandshake(conn))
         /\ \A d \in RejectVersion(conn) : Good(d)
         /\ Good(AcceptHandshake(conn))
<1>1. conn \in Connections /\ conn.call = "parse" /\ conn.stage = "handshake"
        /\ conn.state \notin {"idle", "dead", "closing", "established"}
  BY DEF Good, Sound, CanParse, HandshakeFits
<1>2. PICK m \in Nat : Consume(conn) = [conn EXCEPT !.inbound = m]
  BY ConsumeFacts DEF Good
<1> DEFINE b == [conn EXCEPT !.inbound = m]
<1>3. /\ b \in Connections
      /\ b.partial = conn.partial /\ b.stage = conn.stage
      /\ b.expected = conn.expected /\ b.header = conn.header
      /\ b.state = conn.state /\ b.message = conn.message
      /\ b.socket = conn.socket /\ b.closedCalls = conn.closedCalls
      /\ b.call = conn.call /\ b.unsent = conn.unsent /\ b.role = conn.role
  BY <1>1 DEF Connections
<1>4. PartialFits(b) /\ StageFits(b) /\ MessageFits(b) /\ ReportedOnce(b)
        /\ HandshakeFits(b)
  BY <1>3 DEF Good, Sound, PartialFits, StageFits, MessageFits, ReportedOnce,
              HandshakeFits
<1>5. Sound(b)
  BY <1>3, <1>4 DEF Sound
<1> HIDE DEF b
<1>6. Good(RefuseHandshake(conn))
  <2>1. Good(MarkDead(b)) /\ MarkDead(b).state = "dead" /\ MarkDead(b).call = "parse"
    BY <1>1, <1>3, <1>5, MarkDeadGood
  <2>2. Good(ExpectHeader(MarkDead(b)))
    BY <2>1, ExpectHeaderGood DEF Good, Sound
  <2>. QED BY <1>2, <2>2 DEF RefuseHandshake, b
<1>7. ASSUME NEW d \in RejectVersion(conn)
      PROVE  Good(d)
  <2> DEFINE q == QueueBytes(b, GreetingSize("server"))
             e == [q EXCEPT !.state = "closing"]
  <2>1. b.unsent + GreetingSize("server") \in Nat
    BY <1>3, ConnectionBaseAssumption DEF GreetingSize, Connections
  <2>2. Sound(q) /\ q.state = b.state /\ q.call = b.call
    BY <1>5, <2>1, UnsentSound DEF QueueBytes
  <2> HIDE DEF q
  <2>3. q \in Connections
    BY <2>2 DEF Sound
  <2>4. /\ e \in Connections
        /\ e.partial = q.partial /\ e.stage = q.stage
        /\ e.expected = q.expected /\ e.header = q.header
        /\ e.state = "closing" /\ e.message = q.message
        /\ e.socket = q.socket /\ e.closedCalls = q.closedCalls
        /\ e.call = q.call
    BY <2>3 DEF Connections, States
  <2>5. PartialFits(e) /\ StageFits(e) /\ MessageFits(e) /\ ReportedOnce(e)
          /\ HandshakeFits(e)
    BY <1>1, <1>3, <2>2, <2>4 DEF Sound, PartialFits, StageFits, MessageFits,
                                  ReportedOnce, HandshakeFits
  <2>6. Sound(e)
    BY <2>4, <2>5 DEF Sound
  <2>7. PICK f \in FlushSends(e) : d = ExpectHeader(f)
    BY <1>2 DEF RejectVersion, b, q
  <2> HIDE DEF e
  <2>8. Good(f) /\ f.state \in {"closing", "dead"} /\ f.call = "parse"
    BY <1>1, <1>3, <2>2, <2>4, <2>6, FlushGood
  <2>. QED BY <2>7, <2>8, ExpectHeaderGood DEF Good, Sound
<1>8. Good(AcceptHandshake(conn))
  <2> DEFINE a == [b EXCEPT !.state = "established", !.call = "on_established",
                            !.shook = TRUE]
  <2>1. /\ a \in Connections
        /\ a.partial = b.partial /\ a.stage = b.stage
        /\ a.expected = b.expected /\ a.header = b.header
        /\ a.state = "established" /\ a.message = b.message
        /\ a.closedCalls = b.closedCalls
        /\ a.call = "on_established"
    BY <1>3 DEF Connections, States, Calls
  <2>2. PartialFits(a) /\ StageFits(a) /\ MessageFits(a) /\ ReportedOnce(a)
          /\ HandshakeFits(a)
    BY <1>1, <1>3, <1>5, <2>1 DEF Sound, PartialFits, StageFits, MessageFits,
                                  ReportedOnce, HandshakeFits
  <2>3. Sound(a) /\ a.unsent + GreetingSize("server") \in Nat
    <3>1. a.unsent \in Nat
      BY <2>1 DEF Connections
    <3>2. GreetingSize("server") \in Nat
      BY ConnectionBaseAssumption DEF GreetingSize
    <3>3. Sound(a)
      BY <2>1, <2>2 DEF Sound
    <3> HIDE DEF a
    <3>. QED BY <3>1, <3>2, <3>3
  <2>4. AcceptHandshake(conn) = IF a.role = "server"
                                THEN QueueBytes(a, GreetingSize("server")) ELSE a
    BY <1>2 DEF AcceptHandshake, b
  <2> HIDE DEF a
  <2>5. /\ Sound(QueueBytes(a, GreetingSize("server")))
        /\ QueueBytes(a, GreetingSize("server")).state = "established"
    BY <2>1, <2>3, UnsentSound DEF QueueBytes
  <2>. QED BY <2>1, <2>3, <2>4, <2>5 DEF Good
<1>. QED BY <1>6, <1>7, <1>8

\* The return of on_established: the server flushes its reply only now, on
\* a connection the callback may have killed or closed.
LEMMA EstablishedReturnsGood ==
  ASSUME Good(conn), conn.call = "on_established", NEW d \in EstablishedReturns(conn)
  PROVE  Good(d) /\ d.state \in {conn.state, "dead"}
<1> DEFINE e == [conn EXCEPT !.call = "parse"]
<1>1. conn \in Connections /\ conn.state # "idle"
  BY DEF Good, Sound, HandshakeFits
<1>2. /\ e \in Connections
      /\ e.partial = conn.partial /\ e.state = conn.state
      /\ e.socket = conn.socket /\ e.closedCalls = conn.closedCalls
      /\ e.call = "parse" /\ e.unsent = conn.unsent
  BY <1>1 DEF Connections, Calls
<1>3. PartialFits(e) /\ ReportedOnce(e)
  BY <1>2 DEF Good, Sound, PartialFits, ReportedOnce
<1>4. Good(ExpectHeader(e)) /\ ExpectHeader(e).state = conn.state
  BY <1>1, <1>2, <1>3, ExpectHeaderGood DEF Good
<1>5. d = ExpectHeader(e) \/ d \in FlushSends(ExpectHeader(e))
  BY DEF EstablishedReturns
<1> HIDE DEF e
<1>. QED BY <1>4, <1>5, FlushGood DEF Good

LEMMA TransactionReturnsGood ==
  ASSUME Good(conn), conn.call = "on_transaction"
  PROVE  Good(TransactionReturns(conn))
<1> DEFINE e == [conn EXCEPT !.call = "parse"]
<1>1. conn \in Connections /\ conn.state # "idle"
  BY DEF Good, Sound, HandshakeFits
<1>2. /\ e \in Connections
      /\ e.partial = conn.partial /\ e.state = conn.state
      /\ e.socket = conn.socket /\ e.closedCalls = conn.closedCalls
      /\ e.call = "parse" /\ e.unsent = conn.unsent
  BY <1>1 DEF Connections, Calls
<1>3. PartialFits(e) /\ ReportedOnce(e)
  BY <1>2 DEF Good, Sound, PartialFits, ReportedOnce
<1>. QED BY <1>1, <1>2, <1>3, ExpectHeaderGood DEF Good, TransactionReturns

\* A header, refused or accepted by the policy.
LEMMA HeaderGood ==
  ASSUME Good(conn), CanParse(conn, "header"), NEW h \in Header
  PROVE  /\ Refused(h) => Good(RefuseHeader(conn, h))
         /\ ~Refused(h) => Good(AcceptHeader(conn, h))
<1>1. /\ conn \in Connections /\ conn.call = "parse" /\ conn.stage = "header"
      /\ conn.state \notin {"idle", "dead", "closing"}
  BY DEF Good, Sound, CanParse, HandshakeFits
<1>2. PICK m \in Nat : Consume(conn) = [conn EXCEPT !.inbound = m]
  BY ConsumeFacts DEF Good
<1> DEFINE r == [[conn EXCEPT !.inbound = m] EXCEPT !.header = h, !.call = "none"]
           a == [[conn EXCEPT !.inbound = m] EXCEPT !.header = h, !.stage = "data",
                                                    !.expected = h.size]
<1>3. /\ r \in Connections
      /\ r.partial = conn.partial /\ r.stage = "header"
      /\ r.expected = conn.expected /\ r.state = conn.state
      /\ r.socket = conn.socket /\ r.closedCalls = conn.closedCalls
      /\ r.call = "none"
  BY <1>1 DEF Connections, Calls
<1>4. Sound(r)
  <2>1. PartialFits(r) /\ StageFits(r) /\ MessageFits(r) /\ ReportedOnce(r)
          /\ HandshakeFits(r)
    BY <1>1, <1>3 DEF Good, Sound, PartialFits, StageFits, MessageFits, ReportedOnce,
                      HandshakeFits
  <2>. QED BY <1>3, <2>1 DEF Sound
<1>5. Good(MarkDead(r))
  BY <1>4, MarkDeadGood
<1>6. h.size \in Nat
  BY DEF Header
<1>7. /\ a \in Connections
      /\ a.partial = conn.partial /\ a.stage = "data"
      /\ a.expected = h.size /\ a.header = h /\ a.state = conn.state
      /\ a.socket = conn.socket /\ a.closedCalls = conn.closedCalls
      /\ a.call = "parse"
  BY <1>1, <1>6 DEF Connections, Stages
<1>8. ASSUME ~Refused(h)
      PROVE  Good(a)
  <2>1. PartialFits(a) /\ StageFits(a) /\ MessageFits(a) /\ ReportedOnce(a)
          /\ HandshakeFits(a)
    BY <1>1, <1>7, <1>8 DEF Good, Sound, PartialFits, StageFits, MessageFits,
                            ReportedOnce, HandshakeFits
  <2>. QED BY <1>1, <1>7, <2>1 DEF Good, Sound
<1>. QED BY <1>2, <1>5, <1>8 DEF RefuseHeader, AcceptHeader

\* What a part makes of its transaction stays below twice the policy.
LEMMA ReassembledFits ==
  ASSUME Good(conn), conn.stage = "data"
  PROVE  /\ conn.header \in Header
         /\ Reassembled(conn) \in Partial
         /\ 0 < conn.header.size
         /\ 0 < Reassembled(conn).total
         /\ Reassembled(conn).total = conn.header.total
         /\ 0 < Reassembled(conn).len
         /\ Reassembled(conn).total <= MaxReceive
         /\ conn.header.size <= MaxReceive
         /\ Reassembled(conn).len < 2 * MaxReceive
<1> DEFINE h == conn.header
           p == conn.partial[conn.header.key]
<1>1. h \in Header /\ conn.partial \in [Keys -> Partial]
  BY DEF Good, Sound, Connections
<1>2. h.key \in Keys /\ h.total \in Nat /\ h.size \in Nat /\ MaxReceive \in Nat
  BY <1>1, ConnectionBaseAssumption DEF Header
<1>3. p \in Partial /\ p.len \in Nat /\ p.total \in Nat
  BY <1>1, <1>2 DEF Partial
<1>4. 0 < h.total /\ 0 < h.size /\ h.total <= MaxReceive /\ h.size <= MaxReceive
  BY <1>2 DEF Good, Sound, StageFits, Refused
<1>5. p.len < MaxReceive
  <2>1. CASE p = NoPartial
    BY <1>2, <1>4, <2>1 DEF NoPartial
  <2>2. CASE p # NoPartial
    BY <1>2, <1>3, <2>2 DEF Good, Sound, PartialFits
  <2>. QED BY <2>1, <2>2
<1> DEFINE n == p.len + h.size
<1>6. Reassembled(conn) = [total |-> h.total, len |-> n]
  BY DEF Reassembled
<1>7. n \in Nat /\ 0 < n /\ n < 2 * MaxReceive
  BY <1>2, <1>3, <1>4, <1>5
<1> HIDE DEF n
<1>8. Reassembled(conn) \in Partial
  BY <1>2, <1>6, <1>7 DEF Partial
<1>. QED BY <1>1, <1>4, <1>6, <1>7, <1>8

\* Replacing one entry of the reassembly map by nothing, or by an unfinished
\* transaction, keeps the map within the policy.
LEMMA PartialUpdate ==
  ASSUME NEW c, NEW d, c \in Connections, PartialFits(c), NEW k \in Keys,
         NEW p \in Partial,
         p # NoPartial => 0 < p.len /\ p.len < p.total /\ p.total <= MaxReceive,
         d.partial = [c.partial EXCEPT ![k] = p]
  PROVE  PartialFits(d)
<1>1. c.partial \in [Keys -> Partial]
  BY DEF Connections
<1>. QED BY <1>1 DEF PartialFits

\* A part is kept, or completes a transaction that is dispatched.
LEMMA DataGood ==
  ASSUME Good(conn), CanParse(conn, "data")
  PROVE  /\ ~Completes(conn) => Good(KeepPart(conn))
         /\ Completes(conn) => Good(Dispatch(conn))
<1>1. /\ conn \in Connections /\ conn.call = "parse" /\ conn.stage = "data"
      /\ conn.state \notin {"idle", "dead", "closing"}
  BY DEF Good, Sound, CanParse, HandshakeFits
<1>2. PICK m \in Nat : Consume(conn) = [conn EXCEPT !.inbound = m]
  BY ConsumeFacts DEF Good
<1> DEFINE k == conn.header.key
           p == Reassembled(conn)
           single == [total |-> conn.header.total, len |-> conn.header.size]
<1>3. k \in Keys /\ p \in Partial /\ NoPartial \in Partial
  BY <1>1, ReassembledFits DEF Header, Partial, NoPartial
<1>4. conn.header.total \in Nat /\ conn.header.size \in Nat /\ MaxReceive \in Nat
        /\ p.len \in Nat
  BY <1>1, <1>3, ReassembledFits, ConnectionBaseAssumption DEF Header, Partial
<1>5. ASSUME ~Completes(conn)
      PROVE  Good(KeepPart(conn))
  <2> DEFINE d == [[conn EXCEPT !.inbound = m] EXCEPT !.partial[k] = p]
  <2>1. p.len < p.total
    BY <1>1, <1>4, <1>5, ReassembledFits DEF Completes
  <2> HIDE DEF k, p
  <2>2. /\ d \in Connections
        /\ d.partial = [conn.partial EXCEPT ![k] = p] /\ d.state = conn.state
        /\ d.socket = conn.socket /\ d.closedCalls = conn.closedCalls
        /\ d.call = "parse"
    BY <1>1, <1>3 DEF Connections
  <2>3. PartialFits(d)
    <3>1. 0 < p.len /\ p.total <= MaxReceive
      BY <1>1, ReassembledFits DEF p
    <3> HIDE DEF d
    <3>. QED BY <1>1, <1>3, <2>1, <2>2, <3>1, PartialUpdate DEF Good, Sound
  <2>4. ReportedOnce(d)
    BY <2>2 DEF Good, Sound, ReportedOnce
  <2>5. KeepPart(conn) = ExpectHeader(d)
    BY <1>2 DEF KeepPart, k, p
  <2> HIDE DEF d
  <2>. QED BY <1>1, <2>2, <2>3, <2>4, <2>5, ExpectHeaderGood
<1>6. ASSUME SinglePart(conn)
      PROVE  Good(Dispatch(conn))
  <2> DEFINE d == [[conn EXCEPT !.inbound = m] EXCEPT !.call = "on_transaction",
                                                      !.message = single]
  <2>1. single \in Partial /\ single.total = conn.header.total
          /\ single.len = conn.header.total
    BY <1>4, <1>6 DEF Partial, SinglePart
  <2>2. 0 < single.total /\ single.total <= MaxReceive /\ single.len < 2 * MaxReceive
    BY <1>1, <1>4, <2>1, ReassembledFits
  <2>3. Dispatch(conn) = d
    BY <1>2, <1>6 DEF Dispatch
  <2> HIDE DEF single
  <2>4. /\ d \in Connections
        /\ d.partial = conn.partial /\ d.stage = "data"
        /\ d.expected = conn.expected /\ d.header = conn.header
        /\ d.state = conn.state /\ d.message = single
        /\ d.socket = conn.socket /\ d.closedCalls = conn.closedCalls
        /\ d.call = "on_transaction"
    BY <1>1, <2>1 DEF Connections, Calls
  <2>5. PartialFits(d) /\ StageFits(d) /\ ReportedOnce(d) /\ HandshakeFits(d)
    BY <1>1, <2>4 DEF Good, Sound, PartialFits, StageFits, ReportedOnce, HandshakeFits
  <2>6. MessageFits(d)
    BY <1>4, <2>1, <2>2, <2>4 DEF MessageFits
  <2>. QED BY <1>1, <2>3, <2>4, <2>5, <2>6 DEF Good, Sound
<1>7. ASSUME Completes(conn), ~SinglePart(conn)
      PROVE  Good(Dispatch(conn))
  <2> DEFINE d == [[conn EXCEPT !.inbound = m] EXCEPT !.call = "on_transaction",
                                !.message = p, !.partial[k] = NoPartial]
  <2>1. /\ 0 < p.total /\ p.total <= p.len /\ p.total <= MaxReceive
        /\ p.len < 2 * MaxReceive
    BY <1>1, <1>4, <1>7, ReassembledFits DEF Completes
  <2>2. Dispatch(conn) = d
    BY <1>2, <1>7 DEF Dispatch
  <2> HIDE DEF k, p
  <2>3. /\ d \in Connections
        /\ d.partial = [conn.partial EXCEPT ![k] = NoPartial] /\ d.stage = "data"
        /\ d.expected = conn.expected /\ d.header = conn.header
        /\ d.state = conn.state /\ d.message = p
        /\ d.socket = conn.socket /\ d.closedCalls = conn.closedCalls
        /\ d.call = "on_transaction"
    BY <1>1, <1>3 DEF Connections, Calls
  <2> HIDE DEF d
  <2>4. PartialFits(d)
    BY <1>1, <1>3, <2>3, PartialUpdate DEF Good, Sound
  <2>5. StageFits(d) /\ ReportedOnce(d) /\ HandshakeFits(d) /\ MessageFits(d)
    BY <1>1, <2>1, <2>3 DEF Good, Sound, StageFits, ReportedOnce, HandshakeFits,
                            MessageFits
  <2>. QED BY <1>1, <2>2, <2>3, <2>4, <2>5 DEF Good, Sound
<1>. QED BY <1>5, <1>6, <1>7

---------------------------------------------------------------------------
(* The invariant of the specification.                                     *)

LEMMA InitGood == Init => IInv
<1> SUFFICES ASSUME NEW r \in Roles, NEW k \in Keys,
                    conn = NewConnection(r, [key |-> k, total |-> 0, size |-> 0])
             PROVE  IInv
  BY DEF Init
<1>1. HandshakeSize(r) \in Nat /\ NoPartial \in Partial
  BY ConnectionBaseAssumption DEF HandshakeSize, NoPartial, Partial
<1>2. [key |-> k, total |-> 0, size |-> 0] \in Header
  BY DEF Header
<1>3. [kk \in Keys |-> NoPartial] \in [Keys -> Partial]
  BY <1>1
<1>4. conn \in Connections
  BY <1>1, <1>2, <1>3 DEF NewConnection, Connections, States, Stages, Calls
<1>5. PartialFits(conn) /\ ReportedOnce(conn) /\ StageFits(conn) /\ MessageFits(conn)
        /\ HandshakeFits(conn)
  BY DEF NewConnection, PartialFits, ReportedOnce, StageFits, MessageFits, HandshakeFits
<1>6. conn.state = "idle"
  BY DEF NewConnection
<1>. QED BY <1>4, <1>5, <1>6 DEF IInv, Good, Sound

LEMMA StepGood == IInv /\ [Next]_conn => IInv'
<1> SUFFICES ASSUME Good(conn), [Next]_conn
             PROVE  Good(conn')
  BY DEF IInv
<1>1. ASSUME AppStart
      PROVE  Good(conn')
  BY <1>1, StartGood DEF AppStart
<1>2. ASSUME AppQueueTransaction
      PROVE  Good(conn')
  <2>1. PICK body \in Bodies : conn' \in QueueTransaction(conn, body)
    BY <1>2 DEF AppQueueTransaction
  <2>2. HeaderSize + body \in Nat
    BY <2>1, ConnectionAssumption, ConnectionBaseAssumption
  <2>. QED BY <2>1, <2>2, QueueGood DEF QueueTransaction, Good
<1>3. ASSUME AppClose
      PROVE  Good(conn')
  BY <1>3, CloseGood DEF AppClose
<1>4. conn.inbound \in Nat /\ Arriving \subseteq Nat
  BY ConnectionAssumption DEF Good, Sound, Connections, Arriving
<1>5. ASSUME Readable
      PROVE  Good(conn')
  BY <1>4, <1>5, ReceiveGood DEF Readable
<1>6. ASSUME ReadableEnd
      PROVE  Good(conn')
  BY <1>4, <1>6, ReceiveGood DEF ReadableEnd
<1>7. ASSUME Writable
      PROVE  Good(conn')
  BY <1>7, FlushGood DEF Writable, ServiceWritable, Good
<1>8. ASSUME ParseStop
      PROVE  Good(conn')
  BY <1>8, StopGood DEF ParseStop
<1>9. ASSUME ParseHandshake
      PROVE  Good(conn')
  BY <1>9, HandshakeGood DEF ParseHandshake
<1>10. ASSUME ParseHeader
       PROVE  Good(conn')
  <2>1. Headers \subseteq Header
    BY ConnectionAssumption DEF Headers, Header
  <2>. QED BY <1>10, <2>1, HeaderGood DEF ParseHeader
<1>11. ASSUME ParseData
       PROVE  Good(conn')
  BY <1>11, DataGood DEF ParseData
<1>12. ASSUME CallbackReturn
       PROVE  Good(conn')
  BY <1>12, EstablishedReturnsGood, TransactionReturnsGood DEF CallbackReturn
<1>13. CASE UNCHANGED conn
  BY <1>13
<1>. QED BY <1>1, <1>2, <1>3, <1>5, <1>6, <1>7, <1>8, <1>9, <1>10, <1>11, <1>12, <1>13
         DEF Next, ParseTurn

\* The inductive invariant holds in every reachable state of a connection.
LEMMA Inductive == Spec => []IInv
<1>. QED BY InitGood, StepGood, PTL DEF Spec

---------------------------------------------------------------------------
(* What follows from it.                                                   *)

\* Every field of a connection stays in its type, in particular the count of
\* buffered bytes never falls below zero.
THEOREM TypeCorrect == Spec => []TypeOK
<1>1. IInv => TypeOK
  BY DEF IInv, Good, Sound, TypeOK
<1>. QED BY <1>1, Inductive, PTL

\* An unfinished transaction in the reassembly map holds less than it
\* announced and never more than the receive policy allows.
THEOREM PartialsBounded == Spec => []PartialWithinPolicy
<1>1. IInv => PartialWithinPolicy
  BY DEF IInv, Good, Sound, PartialFits, PartialWithinPolicy
<1>. QED BY <1>1, Inductive, PTL

\* on_transaction is given at least what was announced and less than twice
\* the receive policy.
THEOREM DispatchBounded == Spec => []DispatchWithinPolicy
<1>1. IInv => DispatchWithinPolicy
  BY DEF IInv, Good, Sound, MessageFits, DispatchWithinPolicy
<1>. QED BY <1>1, Inductive, PTL

\* on_closed is called exactly once per life, and the dead hold no socket.
THEOREM ClosedOnce == Spec => []OnClosedOnce
<1>1. IInv => OnClosedOnce
  BY DEF IInv, Good, Sound, ReportedOnce, OnClosedOnce
<1>. QED BY <1>1, Inductive, PTL

\* A connection in "closing" has bytes to flush, so a writable event ends it.
THEOREM ClosingIsNotEmpty == Spec => []ClosingHasBytes
<1>1. IInv => ClosingHasBytes
  BY DEF IInv, Good, Sound, ClosingHasBytes
<1>. QED BY <1>1, Inductive, PTL

\* Death is final until start(), and "established" is entered only from a
\* handshake that is awaited: no callback, flush or later turn of the parse
\* loop revives a connection.
THEOREM DeadStaysDead == Spec => DeathIsFinal
<1> DEFINE Kept(c, d) ==
      /\ c.state = "dead" => d.state = "dead" \/ d.starts = c.starts + 1
      /\ c.state # "established" /\ d.state = "established" =>
           c.state \in {"awaiting_handshake", "awaiting_handshake_reply"}
<1>1. ASSUME IInv, [Next]_conn
      PROVE  Kept(conn, conn')
  <2>1. Sound(conn) /\ Good(conn) /\ conn \in Connections
    BY <1>1 DEF IInv, Good, Sound
  <2>2. ASSUME AppStart
        PROVE  Kept(conn, conn')
    BY <2>1, <2>2, StartGood DEF AppStart
  <2>3. ASSUME AppQueueTransaction
        PROVE  Kept(conn, conn')
    <3>1. PICK body \in Bodies : conn' \in QueueTransaction(conn, body)
      BY <2>3 DEF AppQueueTransaction
    <3>2. HeaderSize + body \in Nat
      BY <3>1, ConnectionAssumption, ConnectionBaseAssumption
    <3>. QED BY <2>1, <3>1, <3>2, QueueGood DEF QueueTransaction
  <2>4. ASSUME AppClose
        PROVE  Kept(conn, conn')
    BY <2>1, <2>4 DEF AppClose, Close, Connections
  <2>5. ASSUME Readable \/ ReadableEnd
        PROVE  Kept(conn, conn')
    <3>1. conn.state # "dead" /\ conn'.state \in {conn.state, "dead"}
      BY <2>1, <2>5 DEF Readable, ReadableEnd, CanReceive, ReceiveThenParse,
                        ReceiveThenEnd, MarkDead, Connections
    <3>. QED BY <3>1
  <2>6. ASSUME Writable
        PROVE  Kept(conn, conn')
    BY <2>1, <2>6, FlushGood DEF Writable, ServiceWritable
  <2>7. ASSUME ParseStop
        PROVE  Kept(conn, conn')
    BY <2>1, <2>7 DEF ParseStop, StopParsing, Connections
  <2>8. ASSUME ParseHandshake
        PROVE  Kept(conn, conn')
    BY <2>1, <2>8 DEF ParseHandshake, CanParse, Sound, HandshakeFits, Connections, States
  <2>9. ASSUME ParseHeader \/ ParseData
        PROVE  Kept(conn, conn')
    <3>1. PICK m \in Nat : Consume(conn) = [conn EXCEPT !.inbound = m]
      BY <2>1, <2>9, ConsumeFacts DEF ParseHeader, ParseData
    <3>2. conn.state # "dead" /\ Consume(conn) \in Connections
            /\ Consume(conn).state = conn.state
      BY <2>1, <2>9, <3>1 DEF ParseHeader, ParseData, CanParse, Connections
    <3>3. conn'.state \in {conn.state, "dead"}
      BY <2>9, <3>2 DEF ParseHeader, ParseData, RefuseHeader, AcceptHeader, Dispatch,
                        KeepPart, ExpectHeader, MarkDead, Connections
    <3>. QED BY <3>2, <3>3
  <2>10. ASSUME CallbackReturn
         PROVE  Kept(conn, conn')
    <3>1. CASE conn.call = "on_established" /\ conn' \in EstablishedReturns(conn)
      BY <2>1, <3>1, EstablishedReturnsGood
    <3>2. CASE conn' = TransactionReturns(conn)
      BY <2>1, <3>2 DEF TransactionReturns, ExpectHeader, Connections
    <3>. QED BY <2>10, <3>1, <3>2 DEF CallbackReturn
  <2>11. CASE UNCHANGED conn
    BY <2>11
  <2>. QED BY <1>1, <2>2, <2>3, <2>4, <2>5, <2>6, <2>7, <2>8, <2>9, <2>10, <2>11
           DEF Next, ParseTurn
<1>. QED BY <1>1, Inductive, PTL DEF Spec, DeathIsFinal

---------------------------------------------------------------------------
(***************************************************************************)
(* What a connection keeps as long as its object is started once, as all   *)
(* callers do: start() resets neither the receive stage nor what is        *)
(* buffered, so that a second life begins in the middle of the first.      *)
(***************************************************************************)
(* The inductive invariant, by parts.                                      *)

\* Before start() nothing was received, and nothing runs.
Unstarted(c) ==
  c.starts = 0 =>
    /\ c.state \in {"idle", "dead"}
    /\ c.inbound = 0
    /\ c.stage = "handshake"
    /\ c.expected = HandshakeSize(c.role)
    /\ c.call = "none"

Over(c) == c.state \in {"dead", "closing"}

Accepted(c) == c.shook /\ c.state = "established"

\* Behind the handshake, and in callbacks, a connection is over or its handshake was accepted.
AcceptedOrOver(c) ==
  c.stage # "handshake" \/ c.call \in {"on_established", "on_transaction"} =>
    Over(c) \/ Accepted(c)

\* ParsedToTheEnd, of any connection.
Parsed(c) == c.call = "none" /\ ~Over(c) => c.inbound < Need(c)

OneLife(c) == Unstarted(c) /\ AcceptedOrOver(c) /\ Parsed(c)

LifeInv == IInv /\ OneLife(conn)

---------------------------------------------------------------------------
(* What sending leaves alone.                                              *)

Undisturbed(c, d) ==
  /\ d.role = c.role /\ d.starts = c.starts /\ d.shook = c.shook
  /\ d.inbound = c.inbound /\ d.expected = c.expected /\ d.stage = c.stage
  /\ d.call = c.call
  /\ d.state \in {c.state, "dead"}

LEMMA MarkDeadKeeps ==
  ASSUME NEW c \in Connections
  PROVE  /\ MarkDead(c) \in Connections
         /\ MarkDead(c).state = "dead"
         /\ Undisturbed(c, MarkDead(c))
<1> DEFINE n == c.closedCalls + 1
<1>1. n \in Nat
  BY DEF Connections
<1>2. MarkDead(c) = IF c.state = "dead" THEN c
                    ELSE [c EXCEPT !.state = "dead", !.socket = "closed", !.closedCalls = n]
  BY DEF MarkDead
<1> HIDE DEF n
<1>3. MarkDead(c) \in Connections
  <2>1. [c EXCEPT !.state = "dead", !.socket = "closed", !.closedCalls = n] \in Connections
    <3>1. "dead" \in States /\ "closed" \in {"open", "closed"}
      BY DEF States
    <3>. QED BY <1>1, <3>1 DEF Connections
  <2>. QED BY <1>2, <2>1
<1>4. MarkDead(c).state = "dead" /\ Undisturbed(c, MarkDead(c))
  BY <1>2 DEF Connections, Undisturbed
<1>. QED BY <1>3, <1>4

LEMMA FlushKeeps ==
  ASSUME NEW c \in Connections, NEW d \in FlushSends(c)
  PROVE  d \in Connections /\ Undisturbed(c, d)
<1>1. ASSUME NEW n \in Nat
      PROVE  /\ [c EXCEPT !.unsent = n] \in Connections
             /\ Undisturbed(c, [c EXCEPT !.unsent = n])
  BY DEF Connections, Undisturbed
<1>2. ASSUME NEW n \in Nat
      PROVE  /\ MarkDead([c EXCEPT !.unsent = n]) \in Connections
             /\ Undisturbed(c, MarkDead([c EXCEPT !.unsent = n]))
             /\ Drained([c EXCEPT !.unsent = n]) \in Connections
             /\ Undisturbed(c, Drained([c EXCEPT !.unsent = n]))
  <2> DEFINE e == [c EXCEPT !.unsent = n]
  <2>1. e \in Connections /\ Undisturbed(c, e)
    BY <1>1
  <2> HIDE DEF e
  <2>2. /\ MarkDead(e) \in Connections /\ Undisturbed(c, MarkDead(e))
        /\ Drained(e) \in Connections /\ Undisturbed(c, Drained(e))
    BY <2>1, MarkDeadKeeps DEF Undisturbed, Drained
  <2>. QED BY <2>2 DEF e
<1>3. /\ Undisturbed(c, MarkDead(c)) /\ Undisturbed(c, Drained(c))
      /\ MarkDead(c) \in Connections /\ Drained(c) \in Connections
  BY MarkDeadKeeps DEF Undisturbed, Drained
<1>4. \A left \in 1..c.unsent : left \in Nat
  BY DEF Connections
<1>. QED BY <1>1, <1>2, <1>3, <1>4 DEF FlushSends

LEMMA QueueKeeps ==
  ASSUME NEW c \in Connections, NEW n \in Nat, NEW d \in FlushSends(QueueBytes(c, n))
  PROVE  d \in Connections /\ Undisturbed(c, d)
<1> DEFINE u == c.unsent + n
<1>1. u \in Nat
  BY DEF Connections
<1>2. QueueBytes(c, n) = [c EXCEPT !.unsent = u]
  BY DEF QueueBytes
<1> HIDE DEF u
<1>3. QueueBytes(c, n) \in Connections /\ Undisturbed(c, QueueBytes(c, n))
  BY <1>1, <1>2 DEF Connections, Undisturbed
<1>. QED BY <1>3, FlushKeeps DEF Undisturbed

\* So sending, from wherever, keeps the invariant.
LEMMA UndisturbedLife ==
  ASSUME NEW c, NEW d, OneLife(c), Undisturbed(c, d)
  PROVE  OneLife(d)
BY DEF Undisturbed, OneLife, Unstarted, AcceptedOrOver, Parsed, Over, Accepted, Need

---------------------------------------------------------------------------
(* The handlers.                                                           *)

\* start(), the first and only one.
LEMMA StartLife ==
  ASSUME LifeInv, CanStart(conn), conn.starts = 0,
         NEW d \in Start(conn)
  PROVE  OneLife(d)
<1> DEFINE first == conn.starts + 1
           fresh == [conn EXCEPT !.socket = "open", !.closedCalls = 0,
                                 !.shook = FALSE, !.starts = first]
<1>0. conn \in Connections /\ OneLife(conn)
  BY DEF LifeInv, IInv, Good, Sound
<1>3. first = 1 /\ first \in Nat
  BY <1>0
<1>4. Start(conn) =
        IF conn.role = "client"
        THEN FlushSends(QueueBytes([fresh EXCEPT !.state = "awaiting_handshake_reply"],
                                   GreetingSize("client")))
        ELSE {[fresh EXCEPT !.state = "awaiting_handshake"]}
  BY DEF Start
<1> HIDE DEF first
<1>1. ASSUME NEW st \in {"awaiting_handshake_reply", "awaiting_handshake"}
      PROVE  /\ [fresh EXCEPT !.state = st] \in Connections
             /\ OneLife([fresh EXCEPT !.state = st])
  <2> DEFINE e == [fresh EXCEPT !.state = st]
  <2>1. e \in Connections
    BY <1>0, <1>3 DEF Connections, States
  <2>2. /\ e.starts = 1 /\ e.inbound = 0 /\ e.stage = "handshake" /\ e.call = "none"
        /\ e.expected = HandshakeSize(e.role)
    BY <1>0, <1>3 DEF Connections, OneLife, Unstarted
  <2>3. HandshakeSize(e.role) > 0
    BY ConnectionBaseAssumption DEF HandshakeSize
  <2> HIDE DEF e
  <2>4. OneLife(e)
    BY <2>2, <2>3 DEF OneLife, Unstarted, AcceptedOrOver, Parsed, Need
  <2>. QED BY <2>1, <2>4 DEF e
<1>2. GreetingSize("client") \in Nat
  BY ConnectionBaseAssumption DEF GreetingSize
<1>. QED BY <1>1, <1>2, <1>4, QueueKeeps, UndisturbedLife

\* The handshake stage: whatever comes of it, only acceptance leads to headers.
LEMMA HandshakeLife ==
  ASSUME LifeInv, ParseHandshake
  PROVE  OneLife(conn') /\ conn'.call # "on_transaction"
<1>0. Sound(conn) /\ conn \in Connections /\ OneLife(conn)
  BY DEF LifeInv, IInv, Good, Sound
<1>1. PICK m \in Nat : Consume(conn) = [conn EXCEPT !.inbound = m]
  BY <1>0, ConsumeFacts DEF ParseHandshake
<1>2. Consume(conn) \in Connections /\ conn.starts # 0
      /\ Consume(conn).starts = conn.starts /\ Consume(conn).call = "parse"
  BY <1>0, <1>1 DEF Connections, ParseHandshake, CanParse, OneLife, Unstarted
<1> DEFINE c == Consume(conn)
<1> HIDE DEF c
<1>3. c \in Connections /\ c.starts # 0 /\ c.call = "parse"
  BY <1>2 DEF c
<1>4. GreetingSize("server") \in Nat
  BY ConnectionBaseAssumption DEF GreetingSize
<1>5. CASE conn' = RefuseHandshake(conn)
  <2>1. MarkDead(c) \in Connections
    BY <1>3, MarkDeadKeeps
  <2>2. /\ MarkDead(c).state = "dead" /\ MarkDead(c).starts # 0
        /\ MarkDead(c).call = "parse"
    BY <1>3, MarkDeadKeeps DEF Undisturbed
  <2>3. conn' = ExpectHeader(MarkDead(c))
    BY <1>5 DEF RefuseHandshake, c
  <2>4. conn'.state = "dead" /\ conn'.starts # 0 /\ conn'.call = "parse"
    BY <2>1, <2>2, <2>3 DEF ExpectHeader, Connections
  <2>. QED BY <2>4 DEF OneLife, Unstarted, AcceptedOrOver, Parsed, Over
<1>6. CASE conn' \in RejectVersion(conn)
  <2> DEFINE e == [QueueBytes(c, GreetingSize("server")) EXCEPT !.state = "closing"]
  <2>1. e \in Connections /\ e.state = "closing" /\ e.starts # 0 /\ e.call = "parse"
    <3> DEFINE u == c.unsent + GreetingSize("server")
    <3>1. u \in Nat
      BY <1>3, <1>4 DEF Connections
    <3>2. e = [c EXCEPT !.unsent = u, !.state = "closing"]
      BY <1>3 DEF QueueBytes, Connections
    <3> HIDE DEF u, e
    <3>. QED BY <1>3, <3>1, <3>2 DEF Connections, States
  <2>2. PICK d \in FlushSends(e) : conn' = ExpectHeader(d)
    BY <1>6 DEF RejectVersion, c
  <2> HIDE DEF e
  <2>3. Over(d) /\ d.starts # 0 /\ d.call = "parse"
    BY <2>1, <2>2, FlushKeeps DEF Undisturbed, Over
  <2>4. conn'.state = d.state /\ conn'.starts = d.starts /\ conn'.call = d.call
    BY <2>1, <2>2, FlushKeeps DEF ExpectHeader, Connections
  <2>. QED BY <2>3, <2>4 DEF OneLife, Unstarted, AcceptedOrOver, Parsed, Over
<1>7. CASE conn' = AcceptHandshake(conn)
  <2>1. /\ conn'.state = "established" /\ conn'.shook /\ conn'.starts # 0
        /\ conn'.call = "on_established"
    BY <1>3, <1>4, <1>7 DEF AcceptHandshake, QueueBytes, Connections, c
  <2>. QED BY <2>1 DEF OneLife, Unstarted, AcceptedOrOver, Parsed, Accepted
<1>. QED BY <1>5, <1>6, <1>7 DEF ParseHandshake

\* service_readable(), up to the parse loop or to the end of the connection.
LEMMA ReceiveLife ==
  ASSUME LifeInv, Readable \/ ReadableEnd
  PROVE  OneLife(conn')
<1>0. conn \in Connections /\ OneLife(conn) /\ ReportedOnce(conn)
  BY DEF LifeInv, IInv, Good, Sound
<1>1. CASE Readable
  <2>1. conn.starts # 0
    BY <1>0, <1>1 DEF Readable, CanReceive, OneLife, Unstarted, ReportedOnce
  <2>2. /\ conn'.state = conn.state /\ conn'.stage = conn.stage /\ conn'.shook = conn.shook
        /\ conn'.starts = conn.starts /\ conn'.call = "parse"
    BY <1>0, <1>1 DEF Readable, ReceiveThenParse, Connections
  <2>. QED BY <1>0, <2>1, <2>2
           DEF OneLife, Unstarted, AcceptedOrOver, Parsed, Over, Accepted
<1>2. CASE ReadableEnd
  <2>1. PICK n \in Arriving : conn' = MarkDead([conn EXCEPT !.inbound = @ + n])
    BY <1>2 DEF ReadableEnd, ReceiveThenEnd
  <2>2. n \in Nat /\ (conn.starts = 0 => n = 0)
    BY <1>0, <1>2, ConnectionAssumption
    DEF Arriving, Connections, ReadableEnd, CanReceive, OneLife, Unstarted, ReportedOnce
  <2> DEFINE c == [conn EXCEPT !.inbound = @ + n]
  <2>3. /\ c \in Connections /\ c.inbound = conn.inbound + n
        /\ c.role = conn.role /\ c.starts = conn.starts /\ c.stage = conn.stage
        /\ c.expected = conn.expected /\ c.call = conn.call
    BY <1>0, <2>2 DEF Connections
  <2> HIDE DEF c
  <2>4. Undisturbed(c, conn') /\ conn'.state = "dead"
    BY <2>1, <2>3, MarkDeadKeeps DEF c
  <2>5. Unstarted(conn')
    BY <1>0, <2>2, <2>3, <2>4 DEF OneLife, Unstarted, Undisturbed
  <2>. QED BY <2>4, <2>5 DEF OneLife, AcceptedOrOver, Parsed, Over
<1>. QED BY <1>1, <1>2

\* A header or a part is only taken on a connection that was accepted.
LEMMA TransactionLife ==
  ASSUME LifeInv, ParseHeader \/ ParseData
  PROVE  OneLife(conn') /\ Accepted(conn)
<1>0. Sound(conn) /\ conn \in Connections /\ OneLife(conn)
  BY DEF LifeInv, IInv, Good, Sound
<1>1. PICK m \in Nat : Consume(conn) = [conn EXCEPT !.inbound = m]
  BY <1>0, ConsumeFacts DEF ParseHeader, ParseData
<1>2. /\ Consume(conn) \in Connections /\ Consume(conn).starts = conn.starts
      /\ Consume(conn).shook = conn.shook /\ Consume(conn).state = conn.state
      /\ Consume(conn).call = "parse"
  BY <1>0, <1>1 DEF Connections, ParseHeader, ParseData, CanParse
<1>3. conn.starts # 0 /\ Accepted(conn)
  BY <1>0 DEF ParseHeader, ParseData, CanParse, OneLife, Unstarted, AcceptedOrOver, Over
<1>4. CASE \E h \in Headers : conn' = RefuseHeader(conn, h)
  <2>1. PICK h \in Headers : conn' = RefuseHeader(conn, h)
    BY <1>4
  <2> DEFINE c == [Consume(conn) EXCEPT !.header = h, !.call = "none"]
  <2>2. h \in Header
    BY ConnectionAssumption DEF Headers, Header
  <2>3. c \in Connections /\ c.starts # 0
    BY <1>2, <1>3, <2>2 DEF Connections, Calls
  <2> HIDE DEF c
  <2>4. conn'.state = "dead" /\ conn'.starts # 0
    BY <2>1, <2>3, MarkDeadKeeps DEF RefuseHeader, Undisturbed, c
  <2>. QED BY <1>3, <2>4 DEF OneLife, Unstarted, AcceptedOrOver, Parsed, Over
<1>5. CASE \/ \E h \in Headers : conn' = AcceptHeader(conn, h)
           \/ conn' = Dispatch(conn)
           \/ conn' = KeepPart(conn)
  <2>1. /\ conn'.starts = conn.starts /\ conn'.shook = conn.shook
        /\ conn'.state = conn.state /\ conn'.call \in {"parse", "on_transaction"}
    BY <1>2, <1>5 DEF AcceptHeader, Dispatch, KeepPart, ExpectHeader, Connections
  <2>. QED BY <1>3, <2>1 DEF OneLife, Unstarted, AcceptedOrOver, Parsed, Accepted
<1>. QED BY <1>3, <1>4, <1>5 DEF ParseHeader, ParseData

\* A callback returns to the parse loop, or to a connection it has killed.
LEMMA CallbackLife ==
  ASSUME LifeInv, CallbackReturn
  PROVE  OneLife(conn')
<1>0. conn \in Connections /\ OneLife(conn) /\ HandshakeFits(conn) /\ StageFits(conn)
  BY DEF LifeInv, IInv, Good, Sound
<1>1. conn.starts # 0
  BY <1>0 DEF CallbackReturn, OneLife, Unstarted
<1> DEFINE back == ExpectHeader([conn EXCEPT !.call = "parse"])
<1>2. /\ back \in Connections /\ back.starts = conn.starts /\ back.shook = conn.shook
      /\ back.state = conn.state /\ back.call = "parse"
  BY <1>0, ConnectionBaseAssumption DEF ExpectHeader, Connections, Stages, Calls
<1>3. CASE conn.call = "on_established" /\ conn' \in EstablishedReturns(conn)
  <2>1. OneLife(back)
    BY <1>0, <1>1, <1>2, <1>3
    DEF OneLife, Unstarted, AcceptedOrOver, Parsed, Over, Accepted
  <2>2. conn' = back \/ conn' \in FlushSends(back)
    BY <1>3 DEF EstablishedReturns
  <2> HIDE DEF back
  <2>. QED BY <1>2, <2>1, <2>2, FlushKeeps, UndisturbedLife
<1>4. CASE conn.call = "on_transaction" /\ conn' = TransactionReturns(conn)
  <2>1. Over(conn) \/ Accepted(conn)
    BY <1>0, <1>4 DEF OneLife, AcceptedOrOver
  <2>2. conn' = back
    BY <1>4 DEF TransactionReturns, ExpectHeader
  <2>. QED BY <1>1, <1>2, <2>1, <2>2
           DEF OneLife, Unstarted, AcceptedOrOver, Parsed, Over, Accepted
<1>. QED BY <1>3, <1>4 DEF CallbackReturn

---------------------------------------------------------------------------
(* The invariant of the specification.                                     *)

LEMMA InitLife == Init => LifeInv
<1> SUFFICES ASSUME Init PROVE OneLife(conn)
  BY InitGood DEF LifeInv
<1>1. HandshakeSize("client") > 0 /\ HandshakeSize("server") > 0
  BY ConnectionBaseAssumption DEF HandshakeSize
<1>. QED BY <1>1 DEF Init, NewConnection, OneLife, Unstarted, AcceptedOrOver, Parsed,
                     Need, Roles

LEMMA StepLife == MaxStarts <= 1 /\ LifeInv /\ [Next]_conn => LifeInv'
<1> SUFFICES ASSUME MaxStarts <= 1, LifeInv, [Next]_conn
             PROVE  OneLife(conn')
  BY StepGood DEF LifeInv
<1>0. conn \in Connections /\ OneLife(conn)
  BY DEF LifeInv, IInv, Good, Sound
<1>1. ASSUME AppStart PROVE OneLife(conn')
  <2>1. conn.starts = 0
    BY <1>0, <1>1, ConnectionAssumption DEF AppStart, Connections
  <2>. QED BY <1>1, <2>1, StartLife DEF AppStart
<1>2. ASSUME AppQueueTransaction PROVE OneLife(conn')
  <2>1. PICK body \in Bodies : conn' \in QueueTransaction(conn, body)
    BY <1>2 DEF AppQueueTransaction
  <2>2. HeaderSize + body \in Nat
    BY <2>1, ConnectionAssumption, ConnectionBaseAssumption
  <2>. QED BY <1>0, <2>1, <2>2, QueueKeeps, UndisturbedLife DEF QueueTransaction
<1>3. ASSUME AppClose PROVE OneLife(conn')
  <2>1. Undisturbed(conn, conn')
    BY <1>0, <1>3 DEF AppClose, Close, Undisturbed, Connections
  <2>. QED BY <1>0, <2>1, UndisturbedLife
<1>4. ASSUME Writable PROVE OneLife(conn')
  BY <1>0, <1>4, FlushKeeps, UndisturbedLife DEF Writable, ServiceWritable
<1>5. ASSUME ParseStop PROVE OneLife(conn')
  <2>1. /\ conn'.starts = conn.starts /\ conn'.shook = conn.shook
        /\ conn'.inbound = conn.inbound /\ conn'.stage = conn.stage
        /\ conn'.expected = conn.expected /\ conn'.state = conn.state
        /\ conn'.call = "none" /\ conn.call = "parse"
    BY <1>0, <1>5 DEF ParseStop, MustStop, StopParsing, Connections
  <2>2. Over(conn) \/ conn.inbound < Need(conn)
    BY <1>0, <1>5 DEF ParseStop, MustStop, Connections, Need, Over
  <2>. QED BY <1>0, <2>1, <2>2 DEF OneLife, Unstarted, AcceptedOrOver, Parsed, Over,
                                   Accepted, Need
<1>6. CASE UNCHANGED conn
  BY <1>0, <1>6
<1>. QED BY <1>1, <1>2, <1>3, <1>4, <1>5, <1>6, ReceiveLife, HandshakeLife,
            TransactionLife, CallbackLife
         DEF Next, ParseTurn

---------------------------------------------------------------------------
(* What follows from it.                                                   *)

\* service_readable() leaves nothing behind that could be handled: whatever
\* has arrived on an open connection is less than its next stage needs.
THEOREM NothingLeftBehind ==
  ASSUME MaxStarts <= 1
  PROVE  Spec => []ParsedToTheEnd
<1>1. LifeInv => ParsedToTheEnd
  BY DEF LifeInv, OneLife, Parsed, Over, ParsedToTheEnd
<1>2. LifeInv /\ [Next]_conn => LifeInv'
  BY StepLife
<1>. QED BY <1>1, <1>2, InitLife, PTL DEF Spec

\* on_transaction is called on established connections only, although the
\* parse loop goes on to headers after a handshake that was refused.
THEOREM EstablishedBeforeDispatch ==
  ASSUME MaxStarts <= 1
  PROVE  Spec => DispatchOnlyEstablished
<1>1. ASSUME LifeInv, [Next]_conn, conn'.call = "on_transaction", conn.call = "parse"
      PROVE  conn.shook /\ conn.state = "established"
  <2>1. conn \in Connections
    BY <1>1 DEF LifeInv, IInv, Good, Sound
  <2>2. CASE ParseHeader \/ ParseData
    BY <1>1, <2>2, TransactionLife DEF Accepted
  <2>3. CASE ParseHandshake
    BY <1>1, <2>3, HandshakeLife
  <2>4. CASE ParseStop
    BY <1>1, <2>1, <2>4 DEF ParseStop, StopParsing, Connections
  <2>5. CASE CallbackReturn \/ UNCHANGED conn
    BY <1>1, <2>5 DEF CallbackReturn
  <2>6. ~(AppStart \/ AppQueueTransaction \/ AppClose \/ Readable \/ ReadableEnd \/ Writable)
    BY <1>1 DEF AppStart, CanStart, Idle, AppQueueTransaction, AppClose, ApplicationRuns,
                Readable, ReadableEnd, Writable, CanReceive
  <2>. QED BY <1>1, <2>2, <2>3, <2>4, <2>5, <2>6 DEF Next, ParseTurn
<1>2. LifeInv /\ [Next]_conn => LifeInv'
  BY StepLife
<1>. QED BY <1>1, <1>2, InitLife, PTL DEF Spec, DispatchOnlyEstablished

=============================================================================
