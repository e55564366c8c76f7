----------------------------- MODULE PairProofs -----------------------------
(* A client and a server over one socket pair, for every capacity, size and  *)
(* number of transactions: what the one is given is what the other queued,   *)
(* and the pair implements TransactionChannel.                               *)
(*                                                                           *)
(* FramesAligned looks at the front of a stream.  What makes it inductive is *)
(* where the frames behind it begin: a stream is laid out frame after frame  *)
(* from the one the receiver waits for to the last one that was queued, and  *)
(* the receiver's stage says how much of the first one it has parsed.        *)
EXTENDS ConnectionPair, SequenceTheorems, TLAPS

-----------------------------------------------------------------------------
(* The layout of a stream.                                                 *)

Bytes == (0..RejectFrame) \X (Nat \ {0})

\* w holds the frames lo to hi, frame f behind position off[f], of which the
\* first may have begun before w does.
Laid(w, off, lo, hi, sizes) ==
  /\ off[hi + 1] = Len(w)
  /\ \A f \in lo..hi :
       /\ off[f + 1] = off[f] + sizes[f] /\ off[f + 1] <= Len(w)
       /\ \A i \in 1..sizes[f] : off[f] + i >= 1 => w[off[f] + i] = <<f, i>>

\* w holds the frames lo to hi, all but the first `parsed' bytes of frame lo.
Holds(w, lo, hi, sizes, parsed) ==
  \E off \in [0..(hi + 1) -> Int] : off[lo] = 0 - parsed /\ Laid(w, off, lo, hi, sizes)

LEMMA WithinSum ==
  ASSUME NEW start \in Int, NEW size \in Nat, NEW i \in 1..size
  PROVE  start + i \in Int /\ start + i <= start + size
OBVIOUS

LEMMA BelowLonger ==
  ASSUME NEW end \in Int, NEW len \in Nat, NEW n \in Nat, end <= len
  PROVE  end <= len + n
OBVIOUS

LEMMA MovedEnd ==
  ASSUME NEW start \in Int, NEW size \in Int, NEW k \in Int
  PROVE  (start + size) - k = (start - k) + size
OBVIOUS

\* Queueing a frame lays it out behind the others.
LEMMA HoldsAppend ==
  ASSUME NEW w \in Seq(Bytes), NEW lo \in Nat, NEW hi \in Int, lo <= hi + 1, hi >= -1,
         NEW sizes \in [0..hi -> Nat], NEW parsed \in Nat,
         Holds(w, lo, hi, sizes, parsed),
         NEW n \in Nat, NEW larger \in [0..(hi + 1) -> Nat],
         larger[hi + 1] = n, \A f \in 0..hi : larger[f] = sizes[f]
  PROVE  Holds(w \o FrameBytes(hi + 1, n), lo, hi + 1, larger, parsed)
<1>1. PICK off \in [0..(hi + 1) -> Int] :
        off[lo] = 0 - parsed /\ Laid(w, off, lo, hi, sizes)
  BY DEF Holds
<1> DEFINE bytes == FrameBytes(hi + 1, n)
           v == w \o bytes
           next == [f \in 0..(hi + 2) |-> IF f <= hi + 1 THEN off[f] ELSE Len(w) + n]
<1>2. /\ Len(bytes) = n /\ bytes \in Seq(Int \X Int)
      /\ \A i \in 1..n : bytes[i] = <<hi + 1, i>>
  BY DEF FrameBytes
<1>3. w \in Seq(Int \X Int) /\ Len(w) \in Nat
  BY DEF Bytes
<1> HIDE DEF bytes
<1>4. /\ Len(v) = Len(w) + n
      /\ \A i \in 1..Len(w) : v[i] = w[i]
      /\ \A i \in 1..n : v[Len(w) + i] = <<hi + 1, i>>
  <2>1. /\ Len(v) = Len(w) + Len(bytes)
        /\ \A i \in 1..(Len(w) + Len(bytes)) :
             v[i] = IF i <= Len(w) THEN w[i] ELSE bytes[i - Len(w)]
    BY <1>2, <1>3, ConcatProperties
  <2> HIDE DEF v
  <2>2. ASSUME NEW i \in 1..Len(w)
        PROVE  v[i] = w[i]
    <3>1. i \in 1..(Len(w) + Len(bytes)) /\ i <= Len(w)
      BY <1>2, <1>3
    <3>. QED BY <2>1, <3>1
  <2>3. ASSUME NEW i \in 1..n
        PROVE  v[Len(w) + i] = bytes[i]
    <3>1. /\ Len(w) + i \in 1..(Len(w) + Len(bytes))
          /\ ~(Len(w) + i <= Len(w)) /\ (Len(w) + i) - Len(w) = i
      BY <1>2, <1>3
    <3>. QED BY <2>1, <3>1
  <2>. QED BY <1>2, <2>1, <2>2, <2>3
<1> HIDE DEF v
<1>5. next \in [0..((hi + 1) + 1) -> Int] /\ next[lo] = 0 - parsed
  BY <1>1, <1>3
<1>6. next[(hi + 1) + 1] = Len(v) /\ next[hi + 1] = Len(w)
  BY <1>1, <1>4 DEF Laid
<1>7. ASSUME NEW f \in lo..(hi + 1)
      PROVE  /\ next[f + 1] = next[f] + larger[f] /\ next[f + 1] <= Len(v)
             /\ \A i \in 1..larger[f] : next[f] + i >= 1 => v[next[f] + i] = <<f, i>>
  <2>1. CASE f = hi + 1
    <3>1. next[f + 1] = Len(v) /\ next[f] = Len(w) /\ larger[f] = n
      BY <1>6, <2>1
    <3> HIDE DEF next
    <3>2. next[f + 1] = next[f] + larger[f] /\ next[f + 1] <= Len(v)
      <4>1. Len(v) = Len(w) + n /\ Len(w) \in Nat
        BY <1>3, <1>4
      <4>. QED BY <3>1, <4>1
    <3>3. ASSUME NEW i \in 1..larger[f]
          PROVE  v[next[f] + i] = <<f, i>>
      <4>1. i \in 1..n
        BY <3>1
      <4>2. v[Len(w) + i] = <<hi + 1, i>>
        BY <1>4, <4>1
      <4>. QED BY <2>1, <3>1, <4>2, Zenon
    <3>. QED BY <3>2, <3>3
  <2>2. CASE f # hi + 1
    <3>1. f \in lo..hi /\ f \in 0..hi /\ larger[f] = sizes[f] /\ sizes[f] \in Nat
      BY <2>2
    <3>2. next[f] = off[f] /\ next[f + 1] = off[f + 1] /\ off[f] \in Int
      BY <1>1, <3>1
    <3>3. off[f + 1] = off[f] + sizes[f] /\ off[f] + sizes[f] <= Len(w)
      BY <1>1, <3>1 DEF Laid
    <3>4. \A i \in 1..sizes[f] : off[f] + i >= 1 => w[off[f] + i] = <<f, i>>
      BY <1>1, <3>1 DEF Laid
    <3> HIDE DEF next
    <3>5. ASSUME NEW i \in 1..sizes[f], off[f] + i >= 1
          PROVE  v[off[f] + i] = <<f, i>>
      <4>1. off[f] + i \in Int /\ off[f] + i <= off[f] + sizes[f]
        BY <3>1, <3>2, WithinSum
      <4>2. off[f] + i \in 1..Len(w)
        <5> HIDE DEF Laid
        <5>1. off[f] + sizes[f] \in Int /\ Len(w) \in Int
          <6>1. off[f] \in Int /\ sizes[f] \in Nat
            BY <3>1, <3>2
          <6>. QED BY <1>3, <6>1
        <5>. QED BY <3>3, <3>5, <4>1, <5>1
      <4>. QED BY <1>4, <3>4, <3>5, <4>2
    <3>6. off[f] + sizes[f] <= Len(w) + n
      <4>1. off[f] + sizes[f] \in Int
        BY <3>1, <3>2
      <4>. QED BY <1>3, <3>3, <4>1, BelowLonger
    <3>7. next[f + 1] = next[f] + larger[f] /\ next[f + 1] <= Len(v)
      BY <1>4, <3>1, <3>2, <3>3, <3>6
    <3>. QED BY <3>1, <3>2, <3>5, <3>7
  <2>. QED BY <2>1, <2>2
<1>8. Laid(v, next, lo, hi + 1, larger)
  BY <1>6, <1>7 DEF Laid
<1>9. Holds(v, lo, hi + 1, larger, parsed)
  <2> HIDE DEF next
  <2>. QED BY <1>5, <1>8 DEF Holds
<1>. QED BY <1>9 DEF v, bytes

LEMMA MovedByte ==
  ASSUME NEW start \in Int, NEW size \in Nat, NEW i \in 1..size,
         NEW len \in Nat, start + size <= len,
         NEW k \in Nat, (start - k) + i >= 1
  PROVE  /\ (start - k) + i \in 1..(len - k)
         /\ ((start - k) + i) + k = start + i /\ start + i >= 1
OBVIOUS

\* Parsing moves every frame towards the front.
LEMMA HoldsConsume ==
  ASSUME NEW w \in Seq(Bytes), NEW lo \in Nat, NEW hi \in Int, lo <= hi + 1, hi >= -1,
         NEW sizes \in [0..hi -> Nat], NEW parsed \in Nat,
         Holds(w, lo, hi, sizes, parsed),
         NEW k \in 0..Len(w)
  PROVE  Holds(SubSeq(w, k + 1, Len(w)), lo, hi, sizes, parsed + k)
<1>1. PICK off \in [0..(hi + 1) -> Int] :
        off[lo] = 0 - parsed /\ Laid(w, off, lo, hi, sizes)
  BY DEF Holds
<1> DEFINE v == SubSeq(w, k + 1, Len(w))
           next == [f \in 0..(hi + 1) |-> off[f] - k]
<1>2. /\ Len(w) \in Nat /\ Len(v) = Len(w) - k
      /\ \A i \in 1..(Len(w) - k) : v[i] = w[i + k]
  OBVIOUS
<1> HIDE DEF v
<1>3. next \in [0..(hi + 1) -> Int] /\ next[lo] = 0 - (parsed + k) /\ next[hi + 1] = Len(v)
  <2>1. off[hi + 1] = Len(w) /\ lo \in 0..(hi + 1) /\ hi + 1 \in 0..(hi + 1)
    BY <1>1 DEF Laid
  <2>2. next \in [0..(hi + 1) -> Int]
    BY <1>1
  <2>3. off[lo] - k = 0 - (parsed + k)
    BY <1>1
  <2>4. next[lo] = off[lo] - k /\ next[hi + 1] = off[hi + 1] - k
    BY <2>1
  <2> HIDE DEF next
  <2>. QED BY <1>2, <2>1, <2>2, <2>3, <2>4
<1>4. ASSUME NEW f \in lo..hi
      PROVE  /\ next[f + 1] = next[f] + sizes[f] /\ next[f + 1] <= Len(v)
             /\ \A i \in 1..sizes[f] : next[f] + i >= 1 => v[next[f] + i] = <<f, i>>
  <2>1. /\ off[f] \in Int /\ off[f + 1] \in Int /\ sizes[f] \in Nat /\ k \in Int
        /\ next[f] = off[f] - k /\ next[f + 1] = off[f + 1] - k
    <3>1. f \in 0..hi /\ f \in 0..(hi + 1) /\ f + 1 \in 0..(hi + 1)
      OBVIOUS
    <3>2. off[f] \in Int /\ off[f + 1] \in Int /\ sizes[f] \in Nat /\ k \in Int
      BY <1>1, <1>2, <3>1
    <3>. QED BY <3>1, <3>2
  <2>2. off[f + 1] = off[f] + sizes[f] /\ off[f] + sizes[f] <= Len(w)
    BY <1>1 DEF Laid
  <2>3. \A i \in 1..sizes[f] : off[f] + i >= 1 => w[off[f] + i] = <<f, i>>
    BY <1>1 DEF Laid
  <2> HIDE DEF next
  <2>4. ASSUME NEW i \in 1..sizes[f], next[f] + i >= 1
        PROVE  v[next[f] + i] = <<f, i>>
    <3>1. /\ next[f] + i \in 1..(Len(w) - k) /\ (next[f] + i) + k = off[f] + i
          /\ off[f] + i >= 1
      <4>1. off[f] \in Int /\ sizes[f] \in Nat /\ Len(w) \in Nat /\ k \in Nat
        BY <1>2, <2>1
      <4>2. (off[f] - k) + i >= 1
        BY <2>1, <2>4
      <4>3. /\ (off[f] - k) + i \in 1..(Len(w) - k)
            /\ ((off[f] - k) + i) + k = off[f] + i /\ off[f] + i >= 1
        BY <2>2, <4>1, <4>2, MovedByte
      <4>. QED BY <2>1, <4>3
    <3>. QED BY <1>2, <2>3, <3>1
  <2>5. next[f + 1] = next[f] + sizes[f] /\ next[f + 1] <= Len(v)
    <3>1. Len(w) \in Int /\ Len(v) = Len(w) - k
      BY <1>2
    <3>2. off[f + 1] <= Len(w)
      BY <2>2
    <3>3. (off[f] + sizes[f]) - k = (off[f] - k) + sizes[f]
      <4>1. off[f] \in Int /\ sizes[f] \in Int /\ k \in Int
        BY <2>1
      <4>. QED BY <4>1, MovedEnd
    <3>4. off[f + 1] - k <= Len(w) - k
      BY <2>1, <3>1, <3>2
    <3>5. next[f + 1] = next[f] + sizes[f]
      BY <2>1, <2>2, <3>3, Zenon
    <3>6. next[f + 1] <= Len(v)
      BY <2>1, <3>1, <3>4, Zenon
    <3>. QED BY <3>5, <3>6
  <2>. QED BY <2>4, <2>5
<1>5. Laid(v, next, lo, hi, sizes)
  BY <1>3, <1>4 DEF Laid
<1> HIDE DEF next
<1>. QED BY <1>3, <1>5 DEF Holds, v

\* A frame that is parsed to its end leaves the next one untouched.
LEMMA HoldsNext ==
  ASSUME NEW w, NEW lo \in Nat, NEW hi \in Nat, lo <= hi,
         NEW sizes \in [0..hi -> Nat],
         Holds(w, lo, hi, sizes, sizes[lo])
  PROVE  Holds(w, lo + 1, hi, sizes, 0)
<1>1. PICK off \in [0..(hi + 1) -> Int] :
        off[lo] = 0 - sizes[lo] /\ Laid(w, off, lo, hi, sizes)
  BY DEF Holds
<1>2. off[lo + 1] = 0
  BY <1>1 DEF Laid
<1>3. Laid(w, off, lo + 1, hi, sizes)
  <2>1. \A f \in (lo + 1)..hi : f \in lo..hi
    OBVIOUS
  <2>. QED BY <1>1, <2>1, Zenon DEF Laid
<1>4. off[lo + 1] = 0 - 0
  BY <1>2
<1>. QED BY <1>1, <1>3, <1>4, Zenon DEF Holds

\* What the receiver finds at the front is the rest of the frame it is in.
LEMMA HoldsFront ==
  ASSUME NEW w \in Seq(Bytes), NEW lo \in Nat, NEW hi \in Int, lo <= hi + 1, hi >= -1,
         NEW sizes \in [0..hi -> Nat], NEW parsed \in Nat,
         Holds(w, lo, hi, sizes, parsed),
         NEW k \in 1..Len(w), lo <= hi => parsed + k <= sizes[lo]
  PROVE  /\ lo <= hi
         /\ SubSeq(w, 1, k) = [i \in 1..k |-> <<lo, parsed + i>>]
         /\ Head(w) = <<lo, parsed + 1>>
<1>1. PICK off \in [0..(hi + 1) -> Int] :
        off[lo] = 0 - parsed /\ Laid(w, off, lo, hi, sizes)
  BY DEF Holds
<1>2. lo <= hi
  BY <1>1 DEF Laid
<1>3. ASSUME NEW i \in 1..k
      PROVE  w[i] = <<lo, parsed + i>>
  <2> DEFINE at == parsed + i
  <2>1. at \in 1..sizes[lo] /\ off[lo] + at = i /\ lo \in lo..hi
    BY <1>1, <1>2
  <2> HIDE DEF at
  <2>2. \A j \in 1..sizes[lo] : off[lo] + j >= 1 => w[off[lo] + j] = <<lo, j>>
    BY <1>1, <2>1 DEF Laid
  <2>3. off[lo] + at >= 1
    BY <2>1
  <2>4. w[off[lo] + at] = <<lo, at>>
    BY <2>1, <2>2, <2>3
  <2>. QED BY <2>1, <2>4 DEF at
<1>4. /\ Len(SubSeq(w, 1, k)) = k /\ SubSeq(w, 1, k) \in Seq(Bytes)
      /\ \A i \in 1..k : SubSeq(w, 1, k)[i] = w[i]
      /\ Head(w) = w[1]
  OBVIOUS
<1>5. SubSeq(w, 1, k) = [i \in 1..k |-> <<lo, parsed + i>>]
  BY <1>3, <1>4
<1>6. Head(w) = <<lo, parsed + 1>>
  <2>1. 1 \in 1..k
    OBVIOUS
  <2>2. w[1] = <<lo, parsed + 1>>
    BY <1>3, <2>1, Zenon
  <2>. QED BY <1>4, <2>2, Zenon
<1>. QED BY <1>2, <1>5, <1>6, Zenon

-----------------------------------------------------------------------------
(* The inductive invariant.                                                *)

Live(c) == c.state \notin {"dead", "closing"}

\* The handshake of the peer is still to be parsed.
Awaits(c) == c.stage = "handshake" /\ c.call # "on_established"

\* The side has queued its handshake, or the reply that accepts one.
Told(c) == IF c.role = "client" THEN c.starts > 0 ELSE c.shook

\* What a side knows by itself.
Own(c, s) ==
  /\ c \in Connections /\ c.role = s
  /\ c.state = "idle" <=> c.starts = 0
  /\ c.state = "idle" => c.socket = "closed" /\ c.call = "none" /\ ~c.shook
  /\ c.state = "awaiting_handshake_reply" => s = "client"
  /\ Live(c) =>
       /\ c.shook <=> ~Awaits(c)
       /\ c.shook <=> c.state = "established"
       /\ c.call = "on_transaction" => c.stage = "data"
       /\ c.call = "on_established" => c.stage = "handshake"
       /\ c.stage = "handshake" => c.expected = HandshakeSize(s)
       /\ c.stage = "data" => c.expected = c.header.size /\ c.header.size > 0

\* The sizes of the frames side s has queued, frame 0 first.
FrameSizes(s) ==
  [f \in 0..Len(sent[s]) |-> IF f = 0 THEN GreetingSize(s) ELSE HeaderSize + sent[s][f].size]

\* The frame of side s its peer is in, and how much of it was parsed.
Due(s) == IF Awaits(conn[Peer(s)]) THEN 0 ELSE Len(delivered[Peer(s)]) + 1
Parsed(s) ==
  IF conn[Peer(s)].stage = "data" /\ conn[Peer(s)].call # "on_transaction"
  THEN HeaderSize ELSE 0

\* The direction from s to its peer.
Counted(s) == conn[s].unsent + conn[Peer(s)].inbound <= Len(stream[s])

Silent(s) ==
  ~Told(conn[s]) =>
    /\ sent[s] = <<>>
    /\ Live(conn[s]) => stream[s] = <<>>
    /\ \A i \in 1..Len(stream[s]) : stream[s][i][1] = RejectFrame

Framed(s) ==
  Told(conn[s]) /\ Live(conn[Peer(s)]) =>
    /\ Due(s) <= Len(sent[s]) + 1
    /\ Holds(stream[s], Due(s), Len(sent[s]), FrameSizes(s), Parsed(s))

HeaderFits(s) ==
  LET c == conn[Peer(s)]
  IN  Live(c) /\ c.stage = "data" /\ c.call # "on_transaction" =>
        /\ c.header.key = Len(delivered[Peer(s)]) + 1
        /\ c.header.key <= Len(sent[s])
        /\ c.header.size = sent[s][c.header.key].size

Fresh(s) ==
  Live(conn[Peer(s)]) /\ Awaits(conn[Peer(s)]) => delivered[Peer(s)] = <<>>

Prefix(s) ==
  /\ Len(delivered[Peer(s)]) <= Len(sent[s])
  /\ \A i \in 1..Len(delivered[Peer(s)]) : delivered[Peer(s)][i] = sent[s][i]

Direction(s) ==
  Counted(s) /\ Silent(s) /\ Framed(s) /\ HeaderFits(s) /\ Fresh(s) /\ Prefix(s)

Typed ==
  /\ conn \in [Roles -> Connections]
  /\ stream \in [Roles -> Seq(Bytes)]
  /\ sent \in [Roles -> Seq(Transaction)]
  /\ delivered \in [Roles -> Seq(Transaction)]
  /\ compatible \in BOOLEAN
  /\ \A s \in Roles : Len(sent[s]) <= MaxMessages
  /\ \A s \in Roles : \A i \in 1..Len(sent[s]) : sent[s][i].key = i

Agreed ==
  /\ \A s \in Roles : conn[s].shook => Told(conn[Peer(s)])
  /\ conn["server"].shook => compatible

IInv == Typed /\ Agreed /\ \A s \in Roles : Own(conn[s], s) /\ Direction(s)

-----------------------------------------------------------------------------
(* The handlers.                                                           *)

\* What flushing, dying and closing leave alone.
Kept(c, d) ==
  /\ d \in Connections
  /\ d.role = c.role /\ d.stage = c.stage /\ d.expected = c.expected
  /\ d.inbound = c.inbound /\ d.header = c.header /\ d.call = c.call
  /\ d.shook = c.shook /\ d.starts = c.starts
  /\ d.state = c.state \/ d.state = "dead"

LEMMA MarkDeadFacts ==
  ASSUME NEW c \in Connections
  PROVE  Kept(c, MarkDead(c)) /\ MarkDead(c).state = "dead" /\ MarkDead(c).unsent = c.unsent
<1>1. CASE c.state = "dead"
  BY <1>1 DEF MarkDead, Kept
<1>2. CASE c.state # "dead"
  <2> DEFINE calls == c.closedCalls + 1
             d == [c EXCEPT !.state = "dead", !.socket = "closed", !.closedCalls = calls]
  <2>1. calls \in Nat /\ MarkDead(c) = d
    BY <1>2 DEF MarkDead, Connections
  <2> HIDE DEF calls
  <2>2. d \in Connections
    BY <2>1 DEF Connections, States
  <2>3. Kept(c, d) /\ d.state = "dead" /\ d.unsent = c.unsent
    BY <2>2 DEF Kept, Connections
  <2>. QED BY <2>1, <2>3
<1>. QED BY <1>1, <1>2

LEMMA UnsentFacts ==
  ASSUME NEW c \in Connections, NEW n \in Nat
  PROVE  /\ [c EXCEPT !.unsent = n] \in Connections
         /\ Kept(c, [c EXCEPT !.unsent = n]) /\ [c EXCEPT !.unsent = n].unsent = n
         /\ [c EXCEPT !.unsent = n].state = c.state
         /\ [c EXCEPT !.unsent = n].socket = c.socket
BY DEF Kept, Connections

LEMMA DrainedFacts ==
  ASSUME NEW c \in Connections
  PROVE  Kept(c, Drained(c)) /\ Drained(c).unsent = c.unsent
BY MarkDeadFacts DEF Drained, Kept

LEMMA FlushFacts ==
  ASSUME NEW c \in Connections, NEW d \in FlushSends(c)
  PROVE  Kept(c, d) /\ d.unsent <= c.unsent
<1>1. c.unsent \in Nat
  BY DEF Connections
<1>2. CASE d = Drained(c) \/ d = MarkDead(c)
  BY <1>1, <1>2, DrainedFacts, MarkDeadFacts
<1>3. ASSUME NEW left \in 0..c.unsent,
             \/ d = Drained([c EXCEPT !.unsent = left])
             \/ d = [c EXCEPT !.unsent = left]
             \/ d = MarkDead([c EXCEPT !.unsent = left])
      PROVE  Kept(c, d) /\ d.unsent <= c.unsent
  <2> DEFINE e == [c EXCEPT !.unsent = left]
  <2>1. e \in Connections /\ Kept(c, e) /\ e.unsent = left
    BY <1>1, UnsentFacts
  <2> HIDE DEF e
  <2>2. Kept(e, d) /\ d.unsent = e.unsent
    <3>1. d = Drained(e) \/ d = e \/ d = MarkDead(e)
      BY <1>3 DEF e
    <3>2. Kept(e, e)
      BY <2>1 DEF Kept
    <3>. QED BY <2>1, <3>1, <3>2, DrainedFacts, MarkDeadFacts
  <2>. QED BY <1>1, <2>1, <2>2 DEF Kept
<1>4. \/ d = Drained(c) \/ d = MarkDead(c)
      \/ \E left \in 0..c.unsent :
           \/ d = Drained([c EXCEPT !.unsent = left])
           \/ d = [c EXCEPT !.unsent = left]
           \/ d = MarkDead([c EXCEPT !.unsent = left])
  BY <1>1 DEF FlushSends
<1>. QED BY <1>2, <1>3, <1>4

\* A side that was started keeps what it knows.
LEMMA KeptOwn ==
  ASSUME NEW s \in Roles, NEW c, Own(c, s), c.state # "idle", NEW d, Kept(c, d)
  PROVE  /\ Own(d, s) /\ d.state # "idle" /\ (Live(d) => Live(c))
         /\ Told(d) <=> Told(c)
         /\ Awaits(d) <=> Awaits(c)
BY DEF Own, Kept, Live, Awaits, Told

LEMMA QueueFacts ==
  ASSUME NEW c \in Connections, NEW n \in Nat, NEW d \in FlushSends(QueueBytes(c, n))
  PROVE  Kept(c, d) /\ d.unsent <= c.unsent + n
<1>1. c.unsent + n \in Nat
  BY DEF Connections
<1>2. QueueBytes(c, n) = [c EXCEPT !.unsent = c.unsent + n]
  BY DEF QueueBytes
<1>3. /\ QueueBytes(c, n) \in Connections /\ Kept(c, QueueBytes(c, n))
      /\ QueueBytes(c, n).unsent = c.unsent + n
  BY <1>1, <1>2, UnsentFacts
<1>4. Kept(QueueBytes(c, n), d) /\ d.unsent <= c.unsent + n
  BY <1>3, FlushFacts
<1>. QED BY <1>3, <1>4 DEF Kept

(* The turns of the parse loop.                                            *)

\* All but the inbound bytes.
SameButInbound(c, d) ==
  /\ d \in Connections
  /\ d.role = c.role /\ d.stage = c.stage /\ d.expected = c.expected
  /\ d.unsent = c.unsent /\ d.header = c.header /\ d.call = c.call
  /\ d.shook = c.shook /\ d.starts = c.starts /\ d.state = c.state
  /\ d.socket = c.socket

LEMMA ConsumeFacts ==
  ASSUME NEW c \in Connections, c.inbound >= Need(c)
  PROVE  /\ SameButInbound(c, Consume(c)) /\ Consume(c).inbound = c.inbound - Need(c)
         /\ c.inbound - Need(c) \in Nat /\ Need(c) \in Nat
<1> DEFINE left == c.inbound - Need(c)
<1>1. left \in Nat /\ Need(c) \in Nat
  BY ConnectionBaseAssumption DEF Need, Connections
<1>2. Consume(c) = [c EXCEPT !.inbound = left]
  BY DEF Consume
<1> HIDE DEF left
<1>3. SameButInbound(c, Consume(c)) /\ Consume(c).inbound = left
  BY <1>1, <1>2 DEF SameButInbound, Connections
<1>. QED BY <1>1, <1>3 DEF left

LEMMA ExpectHeaderFacts ==
  ASSUME NEW c \in Connections
  PROVE  LET d == ExpectHeader(c)
         IN  /\ d \in Connections /\ d.stage = "header" /\ d.expected = HeaderSize
             /\ d.role = c.role /\ d.state = c.state /\ d.unsent = c.unsent
             /\ d.inbound = c.inbound /\ d.call = c.call /\ d.socket = c.socket
             /\ d.shook = c.shook /\ d.starts = c.starts
BY ConnectionBaseAssumption DEF ExpectHeader, Connections, Stages

\* A connection that ended knows nothing else.
LEMMA EndedOwn ==
  ASSUME NEW s \in Roles, NEW d \in Connections, d.role = s, ~Live(d), d.starts # 0
  PROVE  Own(d, s)
BY DEF Own, Live

LEMMA RefuseHandshakeFacts ==
  ASSUME NEW s \in Roles, NEW c, Own(c, s), CanParse(c, "handshake")
  PROVE  LET d == RefuseHandshake(c)
         IN  /\ Own(d, s) /\ d.state = "dead" /\ d.unsent = c.unsent
             /\ d.inbound = c.inbound - Need(c)
             /\ d.shook = c.shook /\ (Told(d) <=> Told(c))
<1>1. c \in Connections /\ c.role = s /\ c.starts # 0 /\ c.inbound >= Need(c)
  BY DEF Own, CanParse
<1> DEFINE e == Consume(c)
           f == MarkDead(e)
           d == ExpectHeader(f)
<1>2. SameButInbound(c, e) /\ e.inbound = c.inbound - Need(c)
  BY <1>1, ConsumeFacts
<1> HIDE DEF e
<1>3. Kept(e, f) /\ f.state = "dead" /\ f.unsent = e.unsent
  BY <1>2, MarkDeadFacts DEF SameButInbound
<1> HIDE DEF f
<1>4. /\ d \in Connections /\ d.state = f.state /\ d.unsent = f.unsent
      /\ d.inbound = f.inbound /\ d.role = f.role /\ d.shook = f.shook /\ d.starts = f.starts
  BY <1>3, ExpectHeaderFacts DEF Kept
<1>5. RefuseHandshake(c) = d
  BY DEF RefuseHandshake, d, e, f
<1> HIDE DEF d
<1>6. Own(d, s)
  BY <1>1, <1>2, <1>3, <1>4, EndedOwn DEF Kept, SameButInbound, Live
<1>. QED BY <1>1, <1>2, <1>3, <1>4, <1>5, <1>6 DEF Kept, SameButInbound, Told

LEMMA RejectFacts ==
  ASSUME NEW c, Own(c, "server"), CanParse(c, "handshake"), NEW d \in RejectVersion(c)
  PROVE  /\ Own(d, "server") /\ ~Live(d)
         /\ d.unsent <= c.unsent + ServerReplySize
         /\ d.inbound = c.inbound - Need(c)
         /\ d.shook = c.shook /\ (Told(d) <=> Told(c))
<1>1. c \in Connections /\ c.role = "server" /\ c.starts # 0 /\ c.inbound >= Need(c)
  BY DEF Own, CanParse
<1> DEFINE e == QueueBytes(Consume(c), GreetingSize("server"))
           f == [e EXCEPT !.state = "closing"]
<1>2. SameButInbound(c, Consume(c)) /\ Consume(c).inbound = c.inbound - Need(c)
  BY <1>1, ConsumeFacts
<1>3. GreetingSize("server") = ServerReplySize /\ ServerReplySize \in Nat
  BY ConnectionBaseAssumption DEF GreetingSize
<1>4. /\ e \in Connections /\ Kept(Consume(c), e)
      /\ e.unsent = c.unsent + ServerReplySize
  <2> DEFINE n == c.unsent + ServerReplySize
  <2>1. n \in Nat /\ Consume(c) \in Connections /\ Consume(c).unsent = c.unsent
    BY <1>1, <1>2, <1>3 DEF Connections, SameButInbound
  <2>2. e = [Consume(c) EXCEPT !.unsent = n]
    BY <1>3, <2>1 DEF QueueBytes
  <2> HIDE DEF n, e
  <2>. QED BY <2>1, <2>2, UnsentFacts DEF n
<1> HIDE DEF e
<1>5. /\ f \in Connections /\ f.state = "closing" /\ f.unsent = e.unsent
      /\ f.inbound = e.inbound /\ f.role = e.role /\ f.shook = e.shook /\ f.starts = e.starts
  BY <1>4 DEF Connections, States
<1>6. PICK g \in FlushSends(f) : d = ExpectHeader(g)
  BY DEF RejectVersion, e, f
<1> HIDE DEF f
<1>7. Kept(f, g) /\ g.unsent <= f.unsent
  BY <1>5, FlushFacts
<1>8. /\ d \in Connections /\ d.state = g.state /\ d.unsent = g.unsent
      /\ d.inbound = g.inbound /\ d.role = g.role /\ d.shook = g.shook /\ d.starts = g.starts
  BY <1>6, <1>7, ExpectHeaderFacts DEF Kept
<1>9. ~Live(d) /\ d.role = "server" /\ d.starts # 0
  BY <1>1, <1>2, <1>4, <1>5, <1>7, <1>8 DEF Kept, SameButInbound, Live
<1>10. Own(d, "server")
  BY <1>8, <1>9, EndedOwn DEF Roles
<1>. QED BY <1>1, <1>2, <1>4, <1>5, <1>7, <1>8, <1>9, <1>10 DEF Kept, SameButInbound, Told

LEMMA AcceptHandshakeFacts ==
  ASSUME NEW s \in Roles, NEW c, Own(c, s), CanParse(c, "handshake")
  PROVE  LET d == AcceptHandshake(c)
         IN  /\ Own(d, s) /\ Live(d) /\ ~Awaits(d) /\ d.shook /\ Told(d)
             /\ d.stage = "handshake"
             /\ d.unsent = c.unsent + (IF s = "server" THEN GreetingSize(s) ELSE 0)
             /\ d.inbound = c.inbound - Need(c)
<1>1. /\ c \in Connections /\ c.role = s /\ c.starts # 0 /\ c.inbound >= Need(c)
      /\ c.stage = "handshake" /\ Live(c) /\ c.starts \in Nat
  BY DEF Own, CanParse, Live, Connections
<1> DEFINE e == Consume(c)
           f == [e EXCEPT !.state = "established", !.call = "on_established", !.shook = TRUE]
           n == GreetingSize("server")
<1>2. SameButInbound(c, e) /\ e.inbound = c.inbound - Need(c)
  BY <1>1, ConsumeFacts
<1> HIDE DEF e
<1>3. /\ f \in Connections /\ f.state = "established" /\ f.call = "on_established" /\ f.shook
      /\ f.stage = "handshake" /\ f.expected = c.expected /\ f.header = c.header
      /\ f.role = s /\ f.starts = c.starts /\ f.socket = c.socket
      /\ f.unsent = c.unsent /\ f.inbound = e.inbound
  BY <1>1, <1>2 DEF SameButInbound, Connections, States, Calls
<1>4. AcceptHandshake(c) = IF s = "server" THEN QueueBytes(f, n) ELSE f
  BY <1>1, <1>3 DEF AcceptHandshake, e, n
<1> HIDE DEF f
<1>5. n \in Nat
  BY ConnectionBaseAssumption DEF GreetingSize
<1>6. c.expected = HandshakeSize(s)
  BY <1>1 DEF Own
<1>7. Own(f, s) /\ Live(f) /\ ~Awaits(f) /\ Told(f)
  BY <1>1, <1>3, <1>6 DEF Own, Live, Awaits, Told
<1>8. CASE s = "server"
  <2> DEFINE m == f.unsent + n
  <2>1. m \in Nat /\ QueueBytes(f, n) = [f EXCEPT !.unsent = m]
    BY <1>3, <1>5 DEF Connections, QueueBytes
  <2> HIDE DEF m, n
  <2>2. /\ Kept(f, QueueBytes(f, n)) /\ QueueBytes(f, n).unsent = m
        /\ QueueBytes(f, n).state = "established"
    BY <1>3, <2>1, UnsentFacts
  <2>3. f.state # "idle"
    BY <1>3
  <2>4. /\ Own(QueueBytes(f, n), s)
        /\ Told(QueueBytes(f, n)) <=> Told(f)
        /\ Awaits(QueueBytes(f, n)) <=> Awaits(f)
    <3> DEFINE g == QueueBytes(f, n)
    <3>1. Kept(f, g)
      BY <2>2
    <3> HIDE DEF g
    <3>2. Own(g, s) /\ (Told(g) <=> Told(f)) /\ (Awaits(g) <=> Awaits(f))
      BY <1>7, <2>3, <3>1, KeptOwn
    <3>. QED BY <3>2 DEF g
  <2>5. Live(QueueBytes(f, n))
    BY <2>2 DEF Live
  <2>. QED BY <1>2, <1>3, <1>4, <1>7, <1>8, <2>2, <2>4, <2>5 DEF Kept, m, n
<1>9. CASE s # "server"
  BY <1>1, <1>2, <1>3, <1>4, <1>7, <1>9 DEF Connections
<1>. QED BY <1>8, <1>9

LEMMA EstablishedReturnsFacts ==
  ASSUME NEW s \in Roles, NEW c, Own(c, s), c.call = "on_established",
         NEW d \in EstablishedReturns(c)
  PROVE  /\ Own(d, s) /\ (Told(d) <=> Told(c)) /\ d.shook = c.shook
         /\ d.unsent <= c.unsent /\ d.inbound = c.inbound
         /\ c.state = "dead" => d.state = "dead"
         /\ Live(d) => Live(c) /\ d.stage = "header" /\ d.call = "parse"
<1> DEFINE e == [c EXCEPT !.call = "parse"]
           f == ExpectHeader(e)
<1>1. /\ c \in Connections /\ c.role = s /\ c.state # "idle" /\ c.starts # 0
      /\ c.unsent \in Nat
  BY DEF Own, Connections
<1>2. /\ e \in Connections /\ e.call = "parse" /\ e.role = s /\ e.state = c.state
      /\ e.unsent = c.unsent /\ e.inbound = c.inbound /\ e.socket = c.socket
      /\ e.shook = c.shook /\ e.starts = c.starts
  BY <1>1 DEF Connections, Calls
<1> HIDE DEF e
<1>3. /\ f \in Connections /\ f.stage = "header" /\ f.call = "parse" /\ f.role = s
      /\ f.state = c.state /\ f.unsent = c.unsent /\ f.inbound = c.inbound
      /\ f.socket = c.socket /\ f.shook = c.shook /\ f.starts = c.starts
  BY <1>2, ExpectHeaderFacts
<1>4. d = f \/ d \in FlushSends(f)
  BY DEF EstablishedReturns, e, f
<1> HIDE DEF f
<1>5. Live(c) => c.shook /\ c.state = "established"
  BY DEF Own, Awaits
<1>6. Own(f, s) /\ f.state # "idle" /\ (Told(f) <=> Told(c))
  BY <1>1, <1>3, <1>5 DEF Own, Live, Awaits, Told
<1>7. Kept(f, d) /\ d.unsent <= f.unsent
  <2>1. Kept(f, f) /\ f.unsent <= f.unsent
    BY <1>1, <1>3 DEF Kept
  <2>. QED BY <1>3, <1>4, <2>1, FlushFacts
<1>8. Own(d, s) /\ (Told(d) <=> Told(f)) /\ (Live(d) => Live(f))
  BY <1>6, <1>7, KeptOwn
<1>9. Live(f) <=> Live(c)
  BY <1>3 DEF Live
<1>10. /\ d.shook = c.shook /\ d.unsent <= c.unsent /\ d.inbound = c.inbound
       /\ c.state = "dead" => d.state = "dead"
       /\ d.stage = "header" /\ d.call = "parse"
  BY <1>3, <1>7 DEF Kept
<1>. QED BY <1>6, <1>8, <1>9, <1>10

LEMMA RefuseHeaderFacts ==
  ASSUME NEW s \in Roles, NEW c, Own(c, s), CanParse(c, "header"), NEW h \in Header
  PROVE  LET d == RefuseHeader(c, h)
         IN  /\ Own(d, s) /\ d.state = "dead" /\ d.unsent = c.unsent
             /\ d.inbound = c.inbound - HeaderSize
             /\ d.shook = c.shook /\ (Told(d) <=> Told(c))
<1>1. /\ c \in Connections /\ c.role = s /\ c.starts # 0 /\ c.inbound >= Need(c)
      /\ Need(c) = HeaderSize
  BY DEF Own, CanParse, Need
<1> DEFINE e == [Consume(c) EXCEPT !.header = h, !.call = "none"]
           d == MarkDead(e)
<1>2. SameButInbound(c, Consume(c)) /\ Consume(c).inbound = c.inbound - HeaderSize
  BY <1>1, ConsumeFacts
<1>3. /\ e \in Connections /\ e.role = s /\ e.unsent = c.unsent /\ e.starts = c.starts
      /\ e.inbound = c.inbound - HeaderSize /\ e.shook = c.shook
  BY <1>1, <1>2 DEF SameButInbound, Connections, Calls
<1>4. RefuseHeader(c, h) = d
  BY DEF RefuseHeader
<1> HIDE DEF e
<1>5. Kept(e, d) /\ d.state = "dead" /\ d.unsent = e.unsent
  BY <1>3, MarkDeadFacts
<1> HIDE DEF d
<1>6. Own(d, s)
  BY <1>1, <1>3, <1>5, EndedOwn DEF Kept, Live
<1>. QED BY <1>1, <1>3, <1>4, <1>5, <1>6 DEF Kept, Told

LEMMA AcceptHeaderFacts ==
  ASSUME NEW s \in Roles, NEW c, Own(c, s), CanParse(c, "header"),
         NEW h \in Header, ~Refused(h)
  PROVE  LET d == AcceptHeader(c, h)
         IN  /\ Own(d, s) /\ Live(d) /\ d.stage = "data" /\ d.call = "parse" /\ d.header = h
             /\ d.unsent = c.unsent /\ d.inbound = c.inbound - HeaderSize
             /\ d.shook = c.shook /\ (Told(d) <=> Told(c)) /\ d.state = c.state
<1>1. /\ c \in Connections /\ c.role = s /\ c.starts # 0 /\ c.inbound >= Need(c)
      /\ Need(c) = HeaderSize /\ c.call = "parse" /\ c.stage = "header" /\ Live(c)
  BY DEF Own, CanParse, Need, Live
<1> DEFINE d == [Consume(c) EXCEPT !.header = h, !.stage = "data", !.expected = h.size]
<1>2. SameButInbound(c, Consume(c)) /\ Consume(c).inbound = c.inbound - HeaderSize
  BY <1>1, ConsumeFacts
<1>3. h.size \in Nat /\ h.size # 0
  BY DEF Header, Refused
<1>4. /\ d \in Connections /\ d.role = s /\ d.unsent = c.unsent /\ d.starts = c.starts
      /\ d.inbound = c.inbound - HeaderSize /\ d.shook = c.shook /\ d.call = "parse"
      /\ d.stage = "data" /\ d.header = h /\ d.expected = h.size /\ d.state = c.state
      /\ d.socket = c.socket
  BY <1>1, <1>2, <1>3 DEF SameButInbound, Connections, Stages
<1>5. AcceptHeader(c, h) = d
  BY DEF AcceptHeader
<1> HIDE DEF d
<1>6. c.shook /\ c.state = "established"
  BY <1>1 DEF Own, Awaits
<1>7. Own(d, s) /\ Live(d)
  BY <1>1, <1>3, <1>4, <1>6 DEF Own, Live, Awaits
<1>. QED BY <1>1, <1>4, <1>5, <1>7 DEF Told

LEMMA DispatchFacts ==
  ASSUME NEW s \in Roles, NEW c, Own(c, s), CanParse(c, "data")
  PROVE  LET d == Dispatch(c)
         IN  /\ Own(d, s) /\ Live(d) /\ d.stage = "data" /\ d.call = "on_transaction"
             /\ d.unsent = c.unsent /\ d.inbound = c.inbound - c.header.size
             /\ d.shook = c.shook /\ (Told(d) <=> Told(c)) /\ d.state = c.state
<1>1. /\ c \in Connections /\ c.role = s /\ c.starts # 0 /\ c.inbound >= Need(c)
      /\ c.call = "parse" /\ c.stage = "data" /\ Live(c)
      /\ c.expected = c.header.size /\ Need(c) = c.header.size
      /\ c.header.size \in Nat /\ c.header.size > 0
  BY DEF Own, CanParse, Need, Live, Connections, Header
<1> DEFINE d == Dispatch(c)
<1>2. SameButInbound(c, Consume(c)) /\ Consume(c).inbound = c.inbound - c.header.size
  BY <1>1, ConsumeFacts
<1>3. [total |-> c.header.total, len |-> c.header.size] \in Partial
  BY <1>1 DEF Connections, Header, Partial
<1>4. Reassembled(c) \in Partial
  <2> DEFINE len == c.partial[c.header.key].len + c.header.size
  <2>1. len \in Nat /\ c.header.total \in Nat
    BY <1>1 DEF Connections, Header, Partial
  <2> HIDE DEF len
  <2>. QED BY <2>1 DEF Reassembled, Partial, len
<1>5. /\ d \in Connections /\ d.role = s /\ d.unsent = c.unsent /\ d.starts = c.starts
      /\ d.inbound = c.inbound - c.header.size /\ d.shook = c.shook
      /\ d.call = "on_transaction" /\ d.stage = "data" /\ d.header = c.header
      /\ d.expected = c.expected /\ d.state = c.state /\ d.socket = c.socket
  <2>1. CASE SinglePart(c)
    <3> DEFINE got == [total |-> c.header.total, len |-> c.header.size]
    <3>1. d = [Consume(c) EXCEPT !.call = "on_transaction", !.message = got]
      BY <2>1 DEF Dispatch
    <3>2. got \in Partial
      BY <1>3
    <3> HIDE DEF got, d
    <3>. QED BY <1>1, <1>2, <3>1, <3>2 DEF SameButInbound, Connections, Calls
  <2>2. CASE ~SinglePart(c)
    <3> DEFINE got == Reassembled(c)
               key == c.header.key
               after == [Consume(c).partial EXCEPT ![key] = NoPartial]
    <3>1. d = [Consume(c) EXCEPT !.call = "on_transaction", !.message = got, !.partial = after]
      BY <2>2 DEF Dispatch
    <3>2. after \in [Keys -> Partial]
      BY <1>2 DEF SameButInbound, Connections, NoPartial, Partial
    <3>3. got \in Partial
      BY <1>4
    <3> HIDE DEF got, after, d
    <3>. QED BY <1>1, <1>2, <3>1, <3>2, <3>3 DEF SameButInbound, Connections, Calls
  <2>. QED BY <2>1, <2>2
<1> HIDE DEF d
<1>6. c.shook /\ c.state = "established"
  BY <1>1 DEF Own, Awaits
<1>7. Own(d, s) /\ Live(d)
  BY <1>1, <1>5, <1>6 DEF Own, Live, Awaits
<1>. QED BY <1>1, <1>5, <1>7 DEF Told, d

LEMMA TransactionReturnsFacts ==
  ASSUME NEW s \in Roles, NEW c, Own(c, s), c.call = "on_transaction"
  PROVE  LET d == TransactionReturns(c)
         IN  /\ Own(d, s) /\ (Told(d) <=> Told(c)) /\ d.shook = c.shook
             /\ d.unsent = c.unsent /\ d.inbound = c.inbound /\ d.state = c.state
             /\ d.stage = "header" /\ d.call = "parse"
<1> DEFINE e == [c EXCEPT !.call = "parse"]
           d == ExpectHeader(e)
<1>1. c \in Connections /\ c.role = s /\ c.state # "idle" /\ c.starts # 0
  BY DEF Own
<1>2. /\ e \in Connections /\ e.call = "parse" /\ e.role = s /\ e.state = c.state
      /\ e.unsent = c.unsent /\ e.inbound = c.inbound /\ e.socket = c.socket
      /\ e.shook = c.shook /\ e.starts = c.starts
  BY <1>1 DEF Connections, Calls
<1> HIDE DEF e
<1>3. /\ d \in Connections /\ d.stage = "header" /\ d.call = "parse" /\ d.role = s
      /\ d.state = c.state /\ d.unsent = c.unsent /\ d.inbound = c.inbound
      /\ d.socket = c.socket /\ d.shook = c.shook /\ d.starts = c.starts
  BY <1>2, ExpectHeaderFacts
<1>4. TransactionReturns(c) = d
  BY DEF TransactionReturns, e
<1> HIDE DEF d
<1>5. Live(c) => c.shook /\ c.state = "established"
  BY DEF Own, Awaits
<1>6. Own(d, s) /\ (Told(d) <=> Told(c))
  BY <1>1, <1>3, <1>5 DEF Own, Live, Awaits, Told
<1>. QED BY <1>3, <1>4, <1>6

(* The other events.                                                       *)

LEMMA CloseFacts ==
  ASSUME NEW c \in Connections
  PROVE  Kept(c, Close(c)) /\ Close(c).unsent = c.unsent /\ Close(c).state = c.state
BY DEF Close, Kept, Connections

\* Bytes were buffered, and parsing begins.
LEMMA ReceiveFacts ==
  ASSUME NEW s \in Roles, NEW c, Own(c, s), CanReceive(c), c.socket = "open", NEW n \in Nat
  PROVE  LET d == ReceiveThenParse(c, n)
         IN  /\ Own(d, s) /\ (Told(d) <=> Told(c)) /\ d.shook = c.shook
             /\ d.unsent = c.unsent /\ d.inbound = c.inbound + n
             /\ d.stage = c.stage /\ d.call = "parse" /\ d.header = c.header
             /\ d.state = c.state
<1> DEFINE m == c.inbound + n
           d == ReceiveThenParse(c, n)
<1>1. /\ c \in Connections /\ c.role = s /\ c.state # "idle" /\ c.starts # 0
      /\ c.call = "none" /\ m \in Nat
  BY DEF Own, Connections, CanReceive, Idle
<1> HIDE DEF m
<1>2. d = [c EXCEPT !.inbound = m, !.call = "parse"]
  BY DEF ReceiveThenParse, m
<1> HIDE DEF d
<1>3. /\ d \in Connections /\ d.role = s /\ d.unsent = c.unsent /\ d.starts = c.starts
      /\ d.inbound = m /\ d.shook = c.shook /\ d.call = "parse" /\ d.stage = c.stage
      /\ d.header = c.header /\ d.expected = c.expected /\ d.state = c.state
      /\ d.socket = c.socket
  BY <1>1, <1>2 DEF Connections, Calls
<1>4. Own(d, s) /\ (Told(d) <=> Told(c))
  BY <1>1, <1>3 DEF Own, Live, Awaits, Told
<1>. QED BY <1>3, <1>4 DEF d, m

\* Bytes were buffered, and the connection ends.
LEMMA ReceiveEndFacts ==
  ASSUME NEW s \in Roles, NEW c, Own(c, s), CanReceive(c), c.socket = "open", NEW n \in Nat
  PROVE  LET d == ReceiveThenEnd(c, n)
         IN  /\ Own(d, s) /\ (Told(d) <=> Told(c)) /\ d.shook = c.shook
             /\ d.unsent = c.unsent /\ d.inbound = c.inbound + n /\ d.state = "dead"
<1> DEFINE m == c.inbound + n
           e == [c EXCEPT !.inbound = m]
           f == MarkDead(e)
<1>1. c \in Connections /\ c.role = s /\ c.state # "idle" /\ c.starts # 0 /\ m \in Nat
  BY DEF Own, Connections
<1> HIDE DEF m
<1>2. ReceiveThenEnd(c, n) = f
  BY DEF ReceiveThenEnd, m
<1>3. /\ e \in Connections /\ e.role = s /\ e.unsent = c.unsent /\ e.starts = c.starts
      /\ e.inbound = m /\ e.shook = c.shook
  BY <1>1 DEF Connections
<1> HIDE DEF e
<1>4. Kept(e, f) /\ f.state = "dead" /\ f.unsent = e.unsent
  BY <1>3, MarkDeadFacts
<1> HIDE DEF f
<1>5. Own(f, s)
  BY <1>1, <1>3, <1>4, EndedOwn DEF Kept, Live
<1>6. Told(f) <=> Told(c)
  BY <1>1, <1>3, <1>4 DEF Kept, Told
<1>. QED BY <1>2, <1>3, <1>4, <1>5, <1>6 DEF Kept, m

LEMMA StopParsingFacts ==
  ASSUME NEW s \in Roles, NEW c, Own(c, s), c.call = "parse"
  PROVE  LET d == StopParsing(c)
         IN  /\ Own(d, s) /\ (Told(d) <=> Told(c)) /\ d.shook = c.shook
             /\ d.unsent = c.unsent /\ d.inbound = c.inbound
             /\ d.stage = c.stage /\ d.call = "none" /\ d.header = c.header
             /\ d.state = c.state
<1> DEFINE d == StopParsing(c)
<1>1. c \in Connections /\ c.role = s /\ c.state # "idle" /\ c.starts # 0
  BY DEF Own
<1>2. /\ d \in Connections /\ d.role = s /\ d.unsent = c.unsent /\ d.starts = c.starts
      /\ d.inbound = c.inbound /\ d.shook = c.shook /\ d.call = "none" /\ d.stage = c.stage
      /\ d.header = c.header /\ d.expected = c.expected /\ d.state = c.state
      /\ d.socket = c.socket
  BY <1>1 DEF StopParsing, Connections, Calls
<1> HIDE DEF d
<1>3. Own(d, s) /\ (Told(d) <=> Told(c))
  BY <1>1, <1>2 DEF Own, Live, Awaits, Told
<1>. QED BY <1>2, <1>3 DEF d

\* start(): the client has queued its handshake, the server nothing.
LEMMA StartFacts ==
  ASSUME NEW s \in Roles, NEW c, Own(c, s), c.state = "idle", NEW d \in Start(c)
  PROVE  /\ Own(d, s) /\ ~d.shook /\ (Told(d) <=> s = "client")
         /\ d.unsent <= c.unsent + (IF s = "client" THEN GreetingSize(s) ELSE 0)
         /\ d.inbound = c.inbound /\ Awaits(d)
<1> DEFINE starts == c.starts + 1
           e == [c EXCEPT !.socket = "open", !.closedCalls = 0, !.shook = FALSE,
                          !.starts = starts,
                          !.state = IF s = "client" THEN "awaiting_handshake_reply"
                                    ELSE "awaiting_handshake"]
           n == GreetingSize("client")
<1>1. /\ c \in Connections /\ c.role = s /\ c.call = "none" /\ ~c.shook /\ Live(c)
      /\ c.unsent \in Nat /\ starts \in Nat /\ starts > 0 /\ n \in Nat
  BY ConnectionBaseAssumption DEF Own, Connections, Live, GreetingSize
<1>2. c.stage = "handshake" /\ c.expected = HandshakeSize(s)
  BY <1>1 DEF Own, Awaits
<1> HIDE DEF starts, n
<1>3. /\ e \in Connections /\ e.role = s /\ e.unsent = c.unsent /\ e.starts = starts
      /\ e.inbound = c.inbound /\ ~e.shook /\ e.call = "none" /\ e.stage = "handshake"
      /\ e.expected = HandshakeSize(s) /\ Live(e) /\ e.state # "idle"
      /\ e.state = "awaiting_handshake_reply" => s = "client"
      /\ e.state # "established"
  BY <1>1, <1>2 DEF Connections, States, Live
<1>4. d \in IF s = "client" THEN FlushSends(QueueBytes(e, n)) ELSE {e}
  <2>1. CASE s = "client"
    BY <1>1, <2>1, Zenon DEF Start, starts, n
  <2>2. CASE s # "client"
    BY <1>1, <2>2 DEF Start, starts
  <2>. QED BY <2>1, <2>2
<1> HIDE DEF e
<1>5. Own(e, s) /\ Awaits(e) /\ (Told(e) <=> s = "client")
  BY <1>1, <1>3 DEF Own, Awaits, Told
<1>6. CASE s = "client"
  <2>1. Kept(e, d) /\ d.unsent <= e.unsent + n
    BY <1>1, <1>3, <1>4, <1>6, QueueFacts
  <2>2. Own(d, s) /\ (Told(d) <=> Told(e)) /\ (Awaits(d) <=> Awaits(e))
    BY <1>3, <1>5, <2>1, KeptOwn
  <2>. QED BY <1>3, <1>5, <1>6, <2>1, <2>2 DEF Kept, n
<1>7. CASE s # "client"
  BY <1>1, <1>3, <1>4, <1>5, <1>7
<1>. QED BY <1>6, <1>7

-----------------------------------------------------------------------------
(* One direction, seen from the side that acts.                            *)

LEMMA PeerFacts ==
  /\ \A s \in Roles : Peer(s) \in Roles /\ Peer(Peer(s)) = s /\ Peer(s) # s
  /\ Peer("client") = "server" /\ Peer("server") = "client"
  /\ "client" \in Roles /\ "server" \in Roles
  /\ \A s \in Roles : s = "client" \/ s = "server"
BY DEF Roles, Peer

LEMMA SizeFacts ==
  /\ \A s \in Roles : GreetingSize(s) \in Nat \ {0} /\ HandshakeSize(s) = GreetingSize(Peer(s))
  /\ HeaderSize \in Nat \ {0} /\ ServerReplySize \in Nat \ {0}
  /\ MaxMessages \in Nat \ {0} /\ RejectFrame = MaxMessages + 1
  /\ Keys = 1..MaxMessages
BY ConnectionBaseAssumption, ConnectionPairAssumption
   DEF GreetingSize, HandshakeSize, Roles, Peer, RejectFrame

\* The sizes of the frames, which number as many as were sent, and frame 0.
LEMMA FrameSizeFacts ==
  ASSUME Typed, NEW s \in Roles
  PROVE  /\ FrameSizes(s) \in [0..Len(sent[s]) -> Nat] /\ FrameSizes(s)[0] = GreetingSize(s)
         /\ \A f \in 1..Len(sent[s]) :
              /\ FrameSizes(s)[f] = HeaderSize + sent[s][f].size
              /\ sent[s][f].size \in Nat /\ sent[s][f] \in Transaction
         /\ Len(sent[s]) \in Nat /\ Len(sent[s]) <= MaxMessages
<1>1. sent[s] \in Seq(Transaction) /\ Len(sent[s]) \in Nat /\ Len(sent[s]) <= MaxMessages
  BY DEF Typed
<1>2. \A f \in 1..Len(sent[s]) : sent[s][f] \in Transaction
  BY <1>1
<1>3. \A f \in 1..Len(sent[s]) : sent[s][f].size \in Nat
  BY <1>2, ConnectionPairAssumption DEF Transaction
<1>4. GreetingSize(s) \in Nat /\ HeaderSize \in Nat
  BY SizeFacts
<1>. QED BY <1>1, <1>2, <1>3, <1>4 DEF FrameSizes

LEMMA StreamFacts ==
  ASSUME NEW w \in Seq(Bytes), NEW k \in 0..Len(w)
  PROVE  /\ SubSeq(w, k + 1, Len(w)) \in Seq(Bytes)
         /\ Len(SubSeq(w, k + 1, Len(w))) = Len(w) - k
         /\ \A i \in 1..(Len(w) - k) : SubSeq(w, k + 1, Len(w))[i] = w[i + k]
         /\ k = 0 => SubSeq(w, k + 1, Len(w)) = w
<1>1. /\ SubSeq(w, k + 1, Len(w)) \in Seq(Bytes)
      /\ Len(SubSeq(w, k + 1, Len(w))) = Len(w) - k
      /\ \A i \in 1..(Len(w) - k) : SubSeq(w, k + 1, Len(w))[i] = w[i + k]
  OBVIOUS
<1>2. ASSUME k = 0
      PROVE  SubSeq(w, k + 1, Len(w)) = w
  <2> DEFINE v == SubSeq(w, k + 1, Len(w))
  <2>1. v \in Seq(Bytes) /\ Len(v) = Len(w) /\ \A i \in 1..Len(w) : v[i] = w[i]
    BY <1>1, <1>2
  <2> HIDE DEF v
  <2>2. v = w
    BY <2>1, SeqEqual
  <2>. QED BY <2>2 DEF v
<1>. QED BY <1>1, <1>2

LEMMA FrameBytesFacts ==
  ASSUME NEW f \in 0..RejectFrame, NEW n \in Nat
  PROVE  /\ FrameBytes(f, n) \in Seq(Bytes) /\ Len(FrameBytes(f, n)) = n
         /\ \A i \in 1..n : FrameBytes(f, n)[i] = <<f, i>>
BY DEF FrameBytes, Bytes

\* What a step leaves of the connections and the streams.
LEMMA StepParts ==
  ASSUME Typed, NEW s \in Roles, NEW d \in Connections,
         NEW queued \in Seq(Bytes), NEW k \in 0..Len(stream[Peer(s)]),
         Step(s, d, queued, k)
  PROVE  /\ conn' \in [Roles -> Connections] /\ stream' \in [Roles -> Seq(Bytes)]
         /\ conn'[s] = d /\ conn'[Peer(s)] = conn[Peer(s)]
         /\ stream'[s] = stream[s] \o queued
         /\ stream'[Peer(s)] = SubSeq(stream[Peer(s)], k + 1, Len(stream[Peer(s)]))
         /\ queued = <<>> => stream'[s] = stream[s]
         /\ k = 0 => stream'[Peer(s)] = stream[Peer(s)]
<1> DEFINE p == Peer(s)
           more == stream[s] \o queued
           less == SubSeq(stream[p], k + 1, Len(stream[p]))
<1>1. /\ s \in Roles /\ p \in Roles /\ p # s
      /\ conn \in [Roles -> Connections] /\ stream \in [Roles -> Seq(Bytes)]
      /\ stream[s] \in Seq(Bytes) /\ stream[p] \in Seq(Bytes)
  BY PeerFacts DEF Typed
<1>2. more \in Seq(Bytes) /\ (queued = <<>> => more = stream[s])
  BY <1>1, ConcatProperties, ConcatEmptySeq
<1>3. less \in Seq(Bytes) /\ (k = 0 => less = stream[p])
  BY <1>1, StreamFacts
<1>4. conn' = [conn EXCEPT ![s] = d] /\ stream' = [stream EXCEPT ![s] = more, ![p] = less]
  BY <1>1 DEF Step
<1> HIDE DEF p, more, less
<1>5. conn' \in [Roles -> Connections] /\ conn'[s] = d /\ conn'[p] = conn[p]
  BY <1>1, <1>4
<1>6. stream'[s] = more /\ stream'[p] = less
  BY <1>1, <1>4
<1>7. stream' \in [Roles -> Seq(Bytes)]
  BY <1>1, <1>2, <1>3, <1>4
<1>. QED BY <1>2, <1>3, <1>5, <1>6, <1>7 DEF p, more, less

\* The same when nothing is queued.
LEMMA StepUnqueued ==
  ASSUME Typed, NEW s \in Roles, NEW d \in Connections, NEW k \in 0..Len(stream[Peer(s)]),
         Step(s, d, <<>>, k)
  PROVE  /\ conn' \in [Roles -> Connections] /\ stream' \in [Roles -> Seq(Bytes)]
         /\ conn'[s] = d /\ conn'[Peer(s)] = conn[Peer(s)] /\ stream'[s] = stream[s]
         /\ stream'[Peer(s)] = SubSeq(stream[Peer(s)], k + 1, Len(stream[Peer(s)]))
<1> DEFINE queued == <<>>
<1>1. queued \in Seq(Bytes) /\ queued = <<>> /\ Step(s, d, queued, k)
  BY EmptySeq
<1> HIDE DEF queued
<1>. QED BY <1>1, StepParts

LEMMA CountFacts ==
  \A c \in Connections : c.unsent \in Nat /\ c.inbound \in Nat
BY DEF Connections

\* A side that queues nothing.
LEMMA OutSame ==
  ASSUME Typed, NEW s \in Roles, Direction(s),
         stream'[s] = stream[s], sent'[s] = sent[s], delivered'[Peer(s)] = delivered[Peer(s)],
         conn'[Peer(s)] = conn[Peer(s)],
         conn'[s] \in Connections, conn'[s].unsent <= conn[s].unsent,
         Told(conn'[s]) <=> Told(conn[s]), Live(conn'[s]) => Live(conn[s])
  PROVE  Direction(s)'
<1>1. /\ conn[s].unsent \in Nat /\ conn'[s].unsent \in Nat /\ conn[Peer(s)].inbound \in Nat
      /\ Len(stream[s]) \in Nat
  <2>1. /\ Peer(s) \in Roles /\ conn[s] \in Connections /\ conn[Peer(s)] \in Connections
        /\ stream[s] \in Seq(Bytes)
    BY PeerFacts DEF Typed
  <2>2. Len(stream[s]) \in Nat
    BY <2>1
  <2>. QED BY <2>1, <2>2, CountFacts
<1>2. Counted(s)'
  BY <1>1 DEF Direction, Counted
<1>3. Silent(s)'
  BY DEF Direction, Silent
<1>4. FrameSizes(s)' = FrameSizes(s) /\ Due(s)' = Due(s) /\ Parsed(s)' = Parsed(s)
  BY DEF FrameSizes, Due, Parsed
<1>5. Framed(s)'
  BY <1>4 DEF Direction, Framed
<1>6. HeaderFits(s)' /\ Fresh(s)' /\ Prefix(s)'
  BY DEF Direction, HeaderFits, Fresh, Prefix
<1>. QED BY <1>2, <1>3, <1>5, <1>6 DEF Direction

\* A side that queues its handshake, the first thing it queues.
LEMMA OutGreets ==
  ASSUME IInv, NEW s \in Roles, ~Told(conn[s]), Live(conn[s]),
         stream'[s] = stream[s] \o Greeting(s),
         sent'[s] = sent[s], delivered'[Peer(s)] = delivered[Peer(s)],
         conn'[Peer(s)] = conn[Peer(s)],
         conn'[s] \in Connections, conn'[s].unsent <= conn[s].unsent + GreetingSize(s),
         Told(conn'[s])
  PROVE  Direction(s)'
<1> DEFINE n == GreetingSize(s)
           w == stream[s]
           p == Peer(s)
<1>1. /\ w = <<>> /\ sent[s] = <<>> /\ Typed /\ p \in Roles
      /\ Counted(s) /\ HeaderFits(s) /\ Fresh(s) /\ Prefix(s)
  BY PeerFacts DEF IInv, Direction, Silent
<1>2. n \in Nat \ {0}
  BY SizeFacts
<1>3. stream'[s] = FrameBytes(0, n) /\ Len(stream'[s]) = n
  <2>1. 0 \in 0..RejectFrame
    BY SizeFacts
  <2>2. Greeting(s) \in Seq(Bytes) /\ Len(Greeting(s)) = n
    BY <1>2, <2>1, FrameBytesFacts DEF Greeting
  <2>. QED BY <1>1, <2>2, ConcatEmptySeq DEF Greeting
<1>4. Counted(s)'
  <2>1. /\ conn[s].unsent \in Nat /\ conn'[s].unsent \in Nat /\ conn[p].inbound \in Nat
        /\ Len(w) = 0
    BY <1>1 DEF Typed, Connections
  <2>2. conn[s].unsent = 0 /\ conn[p].inbound = 0
    BY <1>1, <2>1 DEF Counted
  <2>. QED BY <1>2, <1>3, <2>1, <2>2 DEF Counted
<1>5. Silent(s)'
  BY DEF Silent
<1>6. Live(conn[p]) => Due(s)' = 0 /\ Parsed(s)' = 0
  <2> SUFFICES ASSUME Live(conn[p])
               PROVE  Due(s)' = 0 /\ Parsed(s)' = 0
    OBVIOUS
  <2>1. ~conn[p].shook
    BY <1>1, PeerFacts DEF IInv, Agreed
  <2>2. Awaits(conn[p])
    BY <1>1, <2>1 DEF IInv, Own
  <2>. QED BY <2>2 DEF Due, Parsed, Awaits
<1>7. FrameSizes(s)' = [f \in 0..0 |-> n]
  BY <1>1 DEF FrameSizes
<1>8. Holds(stream'[s], 0, 0, FrameSizes(s)', 0)
  <2> DEFINE v == stream'[s]
             sizes == FrameSizes(s)'
             off == [f \in 0..(0 + 1) |-> IF f = 0 THEN 0 ELSE n]
  <2>1. \A i \in 1..n : v[i] = <<0, i>>
    BY <1>3 DEF FrameBytes
  <2>2. Len(v) = n /\ sizes[0] = n
    BY <1>3, <1>7
  <2> HIDE DEF v, sizes
  <2>3. off \in [0..(0 + 1) -> Int] /\ off[0] = 0 - 0 /\ off[0 + 1] = n
    BY <1>2
  <2> HIDE DEF off
  <2>4. Laid(v, off, 0, 0, sizes)
    BY <1>2, <2>1, <2>2, <2>3 DEF Laid
  <2>5. Holds(v, 0, 0, sizes, 0)
    BY <2>3, <2>4 DEF Holds
  <2>. QED BY <2>5 DEF v, sizes
<1>9. Framed(s)'
  BY <1>1, <1>6, <1>8 DEF Framed
<1>10. HeaderFits(s)' /\ Fresh(s)' /\ Prefix(s)'
  BY <1>1 DEF HeaderFits, Fresh, Prefix
<1>. QED BY <1>4, <1>5, <1>9, <1>10 DEF Direction

\* A server that rejects the version queues nothing else.
LEMMA OutRejects ==
  ASSUME IInv, NEW s \in Roles, ~Told(conn[s]), Live(conn[s]),
         stream'[s] = stream[s] \o FrameBytes(RejectFrame, ServerReplySize),
         sent'[s] = sent[s], delivered'[Peer(s)] = delivered[Peer(s)],
         conn'[Peer(s)] = conn[Peer(s)],
         conn'[s] \in Connections, conn'[s].unsent <= conn[s].unsent + ServerReplySize,
         ~Told(conn'[s]), ~Live(conn'[s])
  PROVE  Direction(s)'
<1> DEFINE n == ServerReplySize
           w == stream[s]
           p == Peer(s)
<1>1. /\ w = <<>> /\ sent[s] = <<>> /\ Typed /\ p \in Roles
      /\ Counted(s) /\ HeaderFits(s) /\ Fresh(s) /\ Prefix(s)
  BY PeerFacts DEF IInv, Direction, Silent
<1>2. n \in Nat \ {0} /\ RejectFrame \in 0..RejectFrame
  BY SizeFacts
<1>3. stream'[s] = FrameBytes(RejectFrame, n) /\ Len(stream'[s]) = n
  <2>1. /\ FrameBytes(RejectFrame, n) \in Seq(Bytes) /\ Len(FrameBytes(RejectFrame, n)) = n
    BY <1>2, FrameBytesFacts
  <2>. QED BY <1>1, <2>1, ConcatEmptySeq
<1>4. Counted(s)'
  <2>1. /\ conn[s].unsent \in Nat /\ conn'[s].unsent \in Nat /\ conn[p].inbound \in Nat
        /\ Len(w) = 0
    BY <1>1, CountFacts DEF Typed
  <2>2. conn[s].unsent = 0 /\ conn[p].inbound = 0
    BY <1>1, <2>1 DEF Counted
  <2>. QED BY <1>2, <1>3, <2>1, <2>2 DEF Counted
<1>5. Silent(s)'
  <2>1. \A i \in 1..n : stream'[s][i] = <<RejectFrame, i>>
    BY <1>2, <1>3, FrameBytesFacts
  <2>. QED BY <1>1, <1>3, <2>1 DEF Silent
<1>6. Framed(s)'
  BY DEF Framed
<1>7. HeaderFits(s)' /\ Fresh(s)' /\ Prefix(s)'
  BY <1>1 DEF HeaderFits, Fresh, Prefix
<1>. QED BY <1>4, <1>5, <1>6, <1>7 DEF Direction

\* A side that queues a transaction.
LEMMA OutQueues ==
  ASSUME IInv, NEW s \in Roles, Told(conn[s]), Len(sent[s]) < MaxMessages,
         NEW body \in Bodies,
         stream'[s] = stream[s] \o FrameBytes(Len(sent[s]) + 1, HeaderSize + body),
         sent'[s] = Append(sent[s], [key |-> Len(sent[s]) + 1, size |-> body]),
         delivered'[Peer(s)] = delivered[Peer(s)],
         conn'[Peer(s)] = conn[Peer(s)],
         conn'[s] \in Connections,
         conn'[s].unsent <= conn[s].unsent + (HeaderSize + body),
         Told(conn'[s])
  PROVE  Direction(s)'
<1> DEFINE m == Len(sent[s])
           n == HeaderSize + body
           w == stream[s]
           p == Peer(s)
           message == [key |-> m + 1, size |-> body]
<1>1. /\ Typed /\ p \in Roles /\ Counted(s) /\ Framed(s) /\ HeaderFits(s) /\ Fresh(s) /\ Prefix(s)
      /\ w \in Seq(Bytes) /\ Len(w) \in Nat /\ sent[s] \in Seq(Transaction) /\ m \in Nat
      /\ delivered[p] \in Seq(Transaction) /\ Len(delivered[p]) \in Nat
  <2>1. Typed /\ p \in Roles /\ Direction(s)
    BY PeerFacts DEF IInv
  <2>2. /\ w \in Seq(Bytes) /\ sent[s] \in Seq(Transaction) /\ delivered[p] \in Seq(Transaction)
    BY <2>1 DEF Typed
  <2>3. Len(w) \in Nat /\ m \in Nat /\ Len(delivered[p]) \in Nat
    BY <2>2
  <2>. QED BY <2>1, <2>2, <2>3 DEF Direction
<1>2. body \in Nat /\ n \in Nat /\ m + 1 \in 0..RejectFrame
  BY <1>1, SizeFacts, ConnectionPairAssumption
<1>3. message \in Transaction
  BY <1>1, SizeFacts DEF Transaction
<1>4. /\ sent'[s] \in Seq(Transaction) /\ Len(sent'[s]) = m + 1
      /\ sent'[s][m + 1] = message /\ \A f \in 1..m : sent'[s][f] = sent[s][f]
  BY <1>1, <1>3, AppendProperties
<1> HIDE DEF message
<1>5. Counted(s)'
  <2>1. /\ FrameBytes(m + 1, n) \in Seq(Bytes) /\ Len(FrameBytes(m + 1, n)) = n
    BY <1>2, FrameBytesFacts
  <2>2. Len(stream'[s]) = Len(w) + n
    <3> DEFINE bytes == FrameBytes(m + 1, n)
    <3>1. stream'[s] = w \o bytes /\ bytes \in Seq(Bytes) /\ Len(bytes) = n
      BY <2>1
    <3> HIDE DEF bytes, n, w
    <3>2. w \in Seq(Bytes)
      BY <1>1 DEF w
    <3>. QED BY <3>1, <3>2, ConcatProperties
  <2>3. /\ conn[s].unsent \in Nat /\ conn'[s].unsent \in Nat /\ conn[p].inbound \in Nat
    BY <1>1, CountFacts DEF Typed
  <2> HIDE DEF n
  <2>4. /\ conn'[s].unsent <= conn[s].unsent + n /\ conn[s].unsent + conn[p].inbound <= Len(w)
        /\ n \in Nat
    BY <1>1, <1>2 DEF Counted, n
  <2>5. conn'[s].unsent + conn[p].inbound <= Len(w) + n
    BY <1>1, <2>3, <2>4
  <2>. QED BY <1>1, <2>2, <2>5 DEF Counted
<1>6. Silent(s)'
  BY DEF Silent
<1>7. Framed(s)'
  <2> SUFFICES ASSUME Live(conn[p])
               PROVE  /\ Due(s)' <= Len(sent'[s]) + 1
                      /\ Holds(stream'[s], Due(s)', Len(sent'[s]), FrameSizes(s)', Parsed(s)')
    BY DEF Framed
  <2>1. Due(s)' = Due(s) /\ Parsed(s)' = Parsed(s)
    BY DEF Due, Parsed
  <2>2. Due(s) \in Nat /\ Parsed(s) \in Nat
    BY <1>1, SizeFacts DEF Due, Parsed
  <2>3. Due(s) <= m + 1 /\ Holds(w, Due(s), m, FrameSizes(s), Parsed(s))
    BY <1>1 DEF Framed
  <2>4. FrameSizes(s) \in [0..m -> Nat] /\ \A f \in 1..m : FrameSizes(s)[f] = HeaderSize + sent[s][f].size
    BY <1>1, FrameSizeFacts
  <2>5. /\ FrameSizes(s)' \in [0..(m + 1) -> Nat]
        /\ FrameSizes(s)'[m + 1] = n
        /\ \A f \in 0..m : FrameSizes(s)'[f] = FrameSizes(s)[f]
    <3>1. FrameSizes(s)' = [f \in 0..(m + 1) |-> IF f = 0 THEN GreetingSize(s)
                                                 ELSE HeaderSize + sent'[s][f].size]
      BY <1>4 DEF FrameSizes
    <3>2. FrameSizes(s)'[m + 1] = n
      BY <1>1, <1>4, <3>1 DEF message
    <3>3. ASSUME NEW f \in 0..m
          PROVE  FrameSizes(s)'[f] = FrameSizes(s)[f] /\ FrameSizes(s)[f] \in Nat
      <4>1. FrameSizes(s)'[f] = IF f = 0 THEN GreetingSize(s) ELSE HeaderSize + sent'[s][f].size
        BY <1>1, <3>1
      <4>2. FrameSizes(s)[f] = IF f = 0 THEN GreetingSize(s) ELSE HeaderSize + sent[s][f].size
        BY DEF FrameSizes
      <4>3. f # 0 => sent'[s][f] = sent[s][f]
        BY <1>1, <1>4
      <4>. QED BY <2>4, <4>1, <4>2, <4>3
    <3>4. \A f \in 0..(m + 1) : FrameSizes(s)'[f] \in Nat
      BY <1>1, <1>2, <3>2, <3>3
    <3>. QED BY <3>1, <3>2, <3>3, <3>4
  <2>6. Holds(stream'[s], Due(s), m + 1, FrameSizes(s)', Parsed(s))
    <3> DEFINE larger == FrameSizes(s)'
    <3>1. larger \in [0..(m + 1) -> Nat] /\ larger[m + 1] = n
            /\ \A f \in 0..m : larger[f] = FrameSizes(s)[f]
      BY <2>5
    <3> HIDE DEF larger, m, n
    <3>2. m \in Int /\ m >= -1
      BY <1>1 DEF m
    <3>3. Holds(w \o FrameBytes(m + 1, n), Due(s), m + 1, larger, Parsed(s))
      BY <1>1, <1>2, <2>2, <2>3, <2>4, <3>1, <3>2, HoldsAppend
    <3>. QED BY <3>3 DEF larger, m, n
  <2>7. Due(s) <= (m + 1) + 1
    BY <1>1, <2>2, <2>3
  <2>. QED BY <1>4, <2>1, <2>6, <2>7
<1>8. HeaderFits(s)'
  <2> SUFFICES ASSUME Live(conn[p]), conn[p].stage = "data", conn[p].call # "on_transaction"
               PROVE  /\ conn[p].header.key = Len(delivered[p]) + 1
                      /\ conn[p].header.key <= Len(sent'[s])
                      /\ conn[p].header.size = sent'[s][conn[p].header.key].size
    BY DEF HeaderFits
  <2>1. /\ conn[p].header.key = Len(delivered[p]) + 1
        /\ conn[p].header.key <= m
        /\ conn[p].header.size = sent[s][conn[p].header.key].size
    BY <1>1 DEF HeaderFits
  <2>2. conn[p].header.key \in 1..m
    BY <1>1, <2>1
  <2>. QED BY <1>1, <1>4, <2>1, <2>2
<1>9. Fresh(s)'
  BY <1>1 DEF Fresh
<1>10. Prefix(s)'
  <2>1. Len(delivered[p]) <= m /\ \A i \in 1..Len(delivered[p]) : delivered[p][i] = sent[s][i]
    BY <1>1 DEF Prefix
  <2>2. \A i \in 1..Len(delivered[p]) : i \in 1..m
    BY <1>1, <2>1
  <2>3. \A i \in 1..Len(delivered[p]) : delivered[p][i] = sent'[s][i]
    BY <1>4, <2>1, <2>2
  <2>4. Len(delivered[p]) <= Len(sent'[s])
    BY <1>1, <1>4, <2>1
  <2>. QED BY <2>3, <2>4 DEF Prefix
<1>. QED BY <1>5, <1>6, <1>7, <1>8, <1>9, <1>10 DEF Direction

\* The receiver s of what q sends: q did nothing, and s parsed k bytes or
\* received some.
Took(s, q, k) ==
  /\ conn'[q] = conn[q] /\ sent'[q] = sent[q]
  /\ stream'[q] = SubSeq(stream[q], k + 1, Len(stream[q]))
  /\ conn'[s] \in Connections
  /\ conn[q].unsent + conn'[s].inbound <= Len(stream[q]) - k

LEMMA InCounts ==
  ASSUME Typed, NEW s \in Roles, NEW k \in 0..Len(stream[Peer(s)]),
         Direction(Peer(s)), Took(s, Peer(s), k)
  PROVE  /\ Counted(Peer(s))' /\ Silent(Peer(s))'
         /\ stream[Peer(s)] \in Seq(Bytes) /\ Len(stream[Peer(s)]) \in Nat
<1> DEFINE q == Peer(s)
           w == stream[q]
           v == SubSeq(w, k + 1, Len(w))
<1>1. q \in Roles /\ Peer(q) = s /\ w \in Seq(Bytes) /\ Len(w) \in Nat
  BY PeerFacts DEF Typed
<1>2. /\ v \in Seq(Bytes) /\ Len(v) = Len(w) - k
      /\ \A i \in 1..(Len(w) - k) : v[i] = w[i + k]
  BY <1>1, StreamFacts
<1>3. stream'[q] = v
  BY DEF Took
<1> HIDE DEF v
<1>4. Counted(q)'
  BY <1>1, <1>2, <1>3 DEF Took, Counted
<1>5. Silent(q)'
  <2> SUFFICES ASSUME ~Told(conn[q])
               PROVE  /\ sent[q] = <<>>
                      /\ Live(conn[q]) => v = <<>>
                      /\ \A i \in 1..Len(v) : v[i][1] = RejectFrame
    BY <1>3 DEF Silent, Took
  <2>1. /\ sent[q] = <<>> /\ (Live(conn[q]) => w = <<>>)
        /\ \A i \in 1..Len(w) : w[i][1] = RejectFrame
    BY DEF Direction, Silent
  <2>2. ASSUME Live(conn[q])
        PROVE  v = <<>>
    <3>1. Len(v) = 0
      BY <1>1, <1>2, <2>1, <2>2
    <3>. QED BY <1>2, <3>1
  <2>3. ASSUME NEW i \in 1..Len(v)
        PROVE  v[i][1] = RejectFrame
    <3>1. i \in 1..(Len(w) - k) /\ i + k \in 1..Len(w)
      BY <1>1, <1>2
    <3>. QED BY <1>2, <2>1, <3>1
  <2>. QED BY <2>1, <2>2, <2>3
<1>. QED BY <1>1, <1>4, <1>5

\* A receiver that is gone, whatever it parsed last.
LEMMA InEnds ==
  ASSUME Typed, NEW s \in Roles, NEW k \in 0..Len(stream[Peer(s)]),
         Direction(Peer(s)), Took(s, Peer(s), k),
         ~Live(conn'[s]), delivered'[s] = delivered[s]
  PROVE  Direction(Peer(s))'
<1>1. Peer(Peer(s)) = s
  BY PeerFacts
<1>2. Framed(Peer(s))' /\ HeaderFits(Peer(s))' /\ Fresh(Peer(s))'
  BY <1>1 DEF Framed, HeaderFits, Fresh
<1>3. Prefix(Peer(s))'
  BY <1>1 DEF Prefix, Direction, Took
<1>. QED BY <1>2, <1>3, InCounts DEF Direction

\* A receiver that parsed nothing and waits for the same bytes as before.
LEMMA InSame ==
  ASSUME Typed, NEW s \in Roles, Direction(Peer(s)), Took(s, Peer(s), 0),
         delivered'[s] = delivered[s],
         Live(conn'[s]) => Live(conn[s]),
         Live(conn'[s]) => (Awaits(conn'[s]) <=> Awaits(conn[s])),
         Live(conn'[s]) => Parsed(Peer(s))' = Parsed(Peer(s)),
         Live(conn'[s]) /\ conn'[s].stage = "data" /\ conn'[s].call # "on_transaction" =>
           /\ conn[s].stage = "data" /\ conn[s].call # "on_transaction"
           /\ conn'[s].header = conn[s].header
  PROVE  Direction(Peer(s))'
<1> DEFINE q == Peer(s)
<1>1. q \in Roles /\ Peer(q) = s /\ stream[q] \in Seq(Bytes) /\ Len(stream[q]) \in Nat
  BY PeerFacts DEF Typed
<1>2. 0 \in 0..Len(stream[q])
  BY <1>1
<1>3. Counted(q)' /\ Silent(q)'
  BY <1>2, InCounts
<1>4. stream'[q] = stream[q] /\ sent'[q] = sent[q] /\ conn'[q] = conn[q]
  BY <1>1, <1>2, StreamFacts DEF Took
<1>5. Framed(q)'
  <2> SUFFICES ASSUME Told(conn'[q]), Live(conn'[s])
               PROVE  /\ Due(q)' <= Len(sent'[q]) + 1
                      /\ Holds(stream'[q], Due(q)', Len(sent'[q]), FrameSizes(q)', Parsed(q)')
    BY <1>1 DEF Framed
  <2>1. Due(q)' = Due(q) /\ Parsed(q)' = Parsed(q) /\ FrameSizes(q)' = FrameSizes(q)
    BY <1>1, <1>4 DEF Due, FrameSizes
  <2>2. /\ Due(q) <= Len(sent[q]) + 1
        /\ Holds(stream[q], Due(q), Len(sent[q]), FrameSizes(q), Parsed(q))
    BY <1>1, <1>4 DEF Direction, Framed
  <2>. QED BY <1>4, <2>1, <2>2
<1>6. HeaderFits(q)'
  BY <1>1, <1>4 DEF Direction, HeaderFits
<1>7. Fresh(q)'
  BY <1>1 DEF Direction, Fresh
<1>8. Prefix(q)'
  BY <1>1, <1>4 DEF Direction, Prefix
<1>. QED BY <1>3, <1>5, <1>6, <1>7, <1>8 DEF Direction

\* A receiver that is not at its handshake any more was told by its peer.
LEMMA InTold ==
  ASSUME IInv, NEW s \in Roles, Live(conn[s]), ~Awaits(conn[s])
  PROVE  /\ Told(conn[Peer(s)]) /\ conn[s].shook
         /\ Due(Peer(s)) = Len(delivered[s]) + 1
         /\ Due(Peer(s)) <= Len(sent[Peer(s)]) + 1
         /\ Holds(stream[Peer(s)], Due(Peer(s)), Len(sent[Peer(s)]),
                  FrameSizes(Peer(s)), Parsed(Peer(s)))
<1>1. Peer(s) \in Roles /\ Peer(Peer(s)) = s
  BY PeerFacts
<1>2. Own(conn[s], s) /\ Framed(Peer(s))
  BY <1>1 DEF IInv, Direction
<1>3. conn[s].shook
  BY <1>2 DEF Own
<1>4. Told(conn[Peer(s)])
  BY <1>3 DEF IInv, Agreed
<1>. QED BY <1>1, <1>2, <1>3, <1>4 DEF Framed, Due

\* A receiver that parsed the handshake.
LEMMA InGreeted ==
  ASSUME IInv, NEW s \in Roles, Live(conn[s]), Awaits(conn[s]), Told(conn[Peer(s)]),
         NEW k \in 0..Len(stream[Peer(s)]), k = GreetingSize(Peer(s)),
         Took(s, Peer(s), k), delivered'[s] = delivered[s],
         ~Awaits(conn'[s]), conn'[s].stage = "handshake"
  PROVE  Direction(Peer(s))'
<1> DEFINE q == Peer(s)
           w == stream[q]
           hi == Len(sent[q])
           sizes == FrameSizes(q)
<1>1. /\ q \in Roles /\ Peer(q) = s /\ Typed /\ Direction(q)
      /\ w \in Seq(Bytes) /\ Len(w) \in Nat
  BY PeerFacts DEF IInv, Typed
<1>2. Counted(q)' /\ Silent(q)'
  BY <1>1, InCounts
<1>3. delivered[s] = <<>>
  BY <1>1 DEF Direction, Fresh
<1>4. /\ sizes \in [0..hi -> Nat] /\ sizes[0] = k /\ hi \in Nat
  BY <1>1, FrameSizeFacts
<1>5. Due(q) = 0 /\ Parsed(q) = 0
  BY <1>1 DEF Due, Parsed, Awaits
<1>6. Holds(w, 0, hi, sizes, 0)
  BY <1>1, <1>5 DEF Direction, Framed
<1>7. Holds(SubSeq(w, k + 1, Len(w)), 0, hi, sizes, k)
  <2> HIDE DEF w, hi, sizes
  <2>1. Holds(SubSeq(w, k + 1, Len(w)), 0, hi, sizes, 0 + k)
    <3>1. k \in 0..Len(w) /\ hi \in Int /\ 0 <= hi + 1 /\ hi >= -1
      BY <1>4 DEF w
    <3>. QED BY <1>1, <1>4, <1>6, <3>1, HoldsConsume
  <2>2. 0 + k = k
    BY <1>1 DEF w
  <2>. QED BY <2>1, <2>2
<1>8. Holds(SubSeq(w, k + 1, Len(w)), 1, hi, sizes, 0)
  <2> HIDE DEF hi, sizes
  <2>1. Holds(SubSeq(w, k + 1, Len(w)), 0 + 1, hi, sizes, 0)
    BY <1>4, <1>7, HoldsNext
  <2>2. 0 + 1 = 1
    OBVIOUS
  <2>. QED BY <2>1, <2>2
<1>9. /\ Due(q)' = 1 /\ Parsed(q)' = 0 /\ FrameSizes(q)' = sizes
      /\ stream'[q] = SubSeq(w, k + 1, Len(w)) /\ sent'[q] = sent[q]
  BY <1>1, <1>3 DEF Due, Parsed, FrameSizes, Took
<1>10. Framed(q)'
  <2>1. 1 <= hi + 1
    BY <1>4
  <2> HIDE DEF hi, sizes, w
  <2>2. Len(sent'[q]) = hi
    BY <1>9 DEF hi
  <2>3. Due(q)' <= Len(sent'[q]) + 1
    BY <1>9, <2>1, <2>2
  <2>4. Holds(stream'[q], Due(q)', Len(sent'[q]), FrameSizes(q)', Parsed(q)')
    BY <1>8, <1>9, <2>2
  <2>. QED BY <2>3, <2>4 DEF Framed
<1>11. HeaderFits(q)' /\ Fresh(q)'
  BY <1>1 DEF HeaderFits, Fresh
<1>12. Prefix(q)'
  BY <1>1 DEF Direction, Prefix, Took
<1>. QED BY <1>2, <1>10, <1>11, <1>12 DEF Direction

\* A receiver whose header has arrived finds the one of the next frame.
LEMMA HeaderAtFront ==
  ASSUME IInv, NEW s \in Roles, CanParse(conn[s], "header")
  PROVE  LET q == Peer(s)
             n == Len(delivered[s]) + 1
         IN  /\ n \in 1..Len(sent[q]) /\ n \in Keys
             /\ HeaderSize \in 0..Len(stream[q]) /\ HeaderSize <= conn[s].inbound
             /\ Front(q, HeaderSize) = FrameBytes(n, HeaderSize)
             /\ Head(stream[q]) = <<n, 1>>
             /\ sent[q][n] \in Transaction
<1> DEFINE q == Peer(s)
           n == Len(delivered[s]) + 1
           hi == Len(sent[q])
           sizes == FrameSizes(q)
           w == stream[q]
<1>1. /\ q \in Roles /\ Peer(q) = s /\ Typed /\ w \in Seq(Bytes) /\ Len(w) \in Nat
      /\ delivered[s] \in Seq(Transaction) /\ n \in Nat /\ n >= 1 /\ Counted(q)
      /\ conn[s] \in Connections /\ conn[q] \in Connections
  BY PeerFacts DEF IInv, Typed, Direction
<1>2. /\ Live(conn[s]) /\ ~Awaits(conn[s]) /\ conn[s].stage = "header"
      /\ conn[s].inbound >= HeaderSize
  BY DEF CanParse, Live, Awaits, Need
<1>3. /\ Due(q) = n /\ n <= hi + 1 /\ Holds(w, n, hi, sizes, Parsed(q))
  BY <1>2, InTold
<1>4. Parsed(q) = 0
  BY <1>1, <1>2 DEF Parsed
<1>5. /\ sizes \in [0..hi -> Nat] /\ hi \in Nat /\ hi <= MaxMessages
      /\ \A f \in 1..hi : /\ sizes[f] = HeaderSize + sent[q][f].size
                          /\ sent[q][f].size \in Nat /\ sent[q][f] \in Transaction
  BY <1>1, FrameSizeFacts
<1>6. HeaderSize \in Nat \ {0} /\ HeaderSize \in 1..Len(w)
  <2>1. conn[q].unsent \in Nat /\ conn[s].inbound \in Nat
    BY <1>1, CountFacts
  <2>. QED BY <1>1, <1>2, <2>1, SizeFacts DEF Counted
<1>7. ASSUME n <= hi
      PROVE  0 + HeaderSize <= sizes[n]
  <2>1. n \in 1..hi
    BY <1>1, <1>5, <1>7
  <2>. QED BY <1>5, <1>6, <2>1
<1>8. /\ n <= hi
      /\ SubSeq(w, 1, HeaderSize) = [i \in 1..HeaderSize |-> <<n, 0 + i>>]
      /\ Head(w) = <<n, 0 + 1>>
  <2> HIDE DEF n, hi, sizes, w
  <2>1. Holds(w, n, hi, sizes, 0) /\ hi \in Int /\ hi >= -1 /\ 0 \in Nat
    BY <1>3, <1>4, <1>5
  <2>2. w \in Seq(Bytes) /\ n \in Nat /\ n <= hi + 1 /\ HeaderSize \in 1..Len(w)
    BY <1>1, <1>3, <1>6
  <2>3. sizes \in [0..hi -> Nat] /\ (n <= hi => 0 + HeaderSize <= sizes[n])
    BY <1>5, <1>7
  <2>. QED BY <2>1, <2>2, <2>3, HoldsFront
<1>9. \A i \in 1..HeaderSize : <<n, 0 + i>> = <<n, i>>
  OBVIOUS
<1>10. Front(q, HeaderSize) = FrameBytes(n, HeaderSize) /\ Head(w) = <<n, 1>>
  BY <1>8, <1>9 DEF Front, FrameBytes
<1>11. n \in 1..hi /\ n \in Keys
  BY <1>1, <1>5, <1>8, SizeFacts
<1>. QED BY <1>2, <1>5, <1>6, <1>10, <1>11

\* A receiver whose data has arrived finds the body of the frame it is in.
LEMMA BodyAtFront ==
  ASSUME IInv, NEW s \in Roles, CanParse(conn[s], "data")
  PROVE  LET q == Peer(s)
             h == conn[s].header
         IN  /\ h.key = Len(delivered[s]) + 1 /\ h.key \in 1..Len(sent[q])
             /\ h.size = sent[q][h.key].size /\ h.size \in Nat \ {0}
             /\ h.size \in 0..Len(stream[q]) /\ h.size <= conn[s].inbound
             /\ Front(q, h.size) = [i \in 1..h.size |-> <<h.key, HeaderSize + i>>]
             /\ Head(stream[q]) = <<h.key, HeaderSize + 1>>
             /\ sent[q][h.key] = [key |-> h.key, size |-> h.size]
<1> DEFINE q == Peer(s)
           n == Len(delivered[s]) + 1
           hi == Len(sent[q])
           sizes == FrameSizes(q)
           w == stream[q]
           h == conn[s].header
           k == h.size
<1>1. /\ q \in Roles /\ Peer(q) = s /\ Typed /\ w \in Seq(Bytes) /\ Len(w) \in Nat
      /\ delivered[s] \in Seq(Transaction) /\ n \in Nat /\ n >= 1
      /\ Counted(q) /\ HeaderFits(q)
      /\ conn[s] \in Connections /\ conn[q] \in Connections
  BY PeerFacts DEF IInv, Typed, Direction
<1>2. /\ Live(conn[s]) /\ ~Awaits(conn[s]) /\ conn[s].stage = "data"
      /\ conn[s].call # "on_transaction" /\ conn[s].inbound >= conn[s].expected
  BY DEF CanParse, Live, Awaits, Need
<1>3. conn[s].expected = k /\ k > 0 /\ k \in Nat
  BY <1>1, <1>2 DEF IInv, Own, Connections, Header
<1>4. h.key = n /\ h.key <= hi /\ k = sent[q][h.key].size
  BY <1>1, <1>2 DEF HeaderFits
<1>5. /\ Due(q) = n /\ Holds(w, n, hi, sizes, Parsed(q)) /\ Parsed(q) = HeaderSize
  BY <1>1, <1>2, InTold DEF Parsed
<1>6. /\ sizes \in [0..hi -> Nat] /\ hi \in Nat
      /\ n \in 1..hi /\ sizes[n] = HeaderSize + k /\ sent[q][n] \in Transaction
  <2>1. n \in 1..hi
    BY <1>1, <1>4, FrameSizeFacts
  <2>. QED BY <1>1, <1>4, <2>1, FrameSizeFacts
<1>7. k \in 1..Len(w) /\ HeaderSize \in Nat
  <2>1. conn[q].unsent \in Nat /\ conn[s].inbound \in Nat
    BY <1>1, CountFacts
  <2>. QED BY <1>1, <1>2, <1>3, <2>1, SizeFacts DEF Counted
<1>8. /\ n <= hi
      /\ SubSeq(w, 1, k) = [i \in 1..k |-> <<n, HeaderSize + i>>]
      /\ Head(w) = <<n, HeaderSize + 1>>
  <2> HIDE DEF n, hi, sizes, w, k
  <2>1. /\ hi \in Int /\ hi >= -1 /\ n <= hi + 1 /\ n <= hi
        /\ n <= hi => HeaderSize + k <= sizes[n]
    BY <1>1, <1>6, <1>7
  <2>2. w \in Seq(Bytes) /\ n \in Nat /\ k \in 1..Len(w) /\ HeaderSize \in Nat
    BY <1>1, <1>7
  <2>3. sizes \in [0..hi -> Nat] /\ Holds(w, n, hi, sizes, HeaderSize)
    BY <1>5, <1>6
  <2>. QED BY <2>1, <2>2, <2>3, HoldsFront
<1>9. sent[q][n].key = n
  BY <1>1, <1>6 DEF Typed
<1>10. sent[q][h.key] = [key |-> h.key, size |-> h.size]
  BY <1>4, <1>6, <1>9 DEF Transaction
<1>11. /\ Front(q, k) = [i \in 1..k |-> <<h.key, HeaderSize + i>>]
       /\ Head(w) = <<h.key, HeaderSize + 1>>
  BY <1>4, <1>8 DEF Front
<1>12. h.key \in 1..hi /\ k \in 0..Len(w) /\ k \in Nat \ {0} /\ k <= conn[s].inbound
  BY <1>1, <1>2, <1>3, <1>4, <1>6, <1>7, CountFacts
<1>. QED BY <1>4, <1>10, <1>11, <1>12

\* A receiver that parsed the header it found.
LEMMA InHeader ==
  ASSUME IInv, NEW s \in Roles, CanParse(conn[s], "header"),
         Took(s, Peer(s), HeaderSize), delivered'[s] = delivered[s],
         conn'[s].stage = "data", conn'[s].call = "parse",
         conn'[s].header.key = Len(delivered[s]) + 1,
         conn'[s].header.size = sent[Peer(s)][Len(delivered[s]) + 1].size
  PROVE  Direction(Peer(s))'
<1> DEFINE q == Peer(s)
           n == Len(delivered[s]) + 1
           hi == Len(sent[q])
           sizes == FrameSizes(q)
           w == stream[q]
<1>1. /\ q \in Roles /\ Peer(q) = s /\ Typed /\ Direction(q)
      /\ w \in Seq(Bytes) /\ Len(w) \in Nat
      /\ delivered[s] \in Seq(Transaction) /\ n \in Nat
  BY PeerFacts DEF IInv, Typed
<1>2. n \in 1..hi /\ HeaderSize \in 0..Len(w)
  BY HeaderAtFront
<1>3. Counted(q)' /\ Silent(q)'
  BY <1>1, <1>2, InCounts
<1>4. Live(conn[s]) /\ ~Awaits(conn[s]) /\ conn[s].stage = "header"
  BY DEF CanParse, Live, Awaits
<1>5. Due(q) = n /\ Holds(w, n, hi, sizes, 0)
  <2>1. Parsed(q) = 0
    BY <1>1, <1>4 DEF Parsed
  <2>. QED BY <1>4, <2>1, InTold
<1>6. sizes \in [0..hi -> Nat] /\ hi \in Nat
  BY <1>1, FrameSizeFacts
<1>7. Holds(SubSeq(w, HeaderSize + 1, Len(w)), n, hi, sizes, HeaderSize)
  <2> HIDE DEF n, w, hi, sizes
  <2>1. 0 + HeaderSize = HeaderSize /\ hi \in Int /\ hi >= -1 /\ n <= hi + 1 /\ 0 \in Nat
    BY <1>2, <1>6, SizeFacts
  <2>2. Holds(SubSeq(w, HeaderSize + 1, Len(w)), n, hi, sizes, 0 + HeaderSize)
    BY <1>1, <1>2, <1>5, <1>6, <2>1, HoldsConsume
  <2>. QED BY <2>1, <2>2
<1>8. /\ Due(q)' = n /\ Parsed(q)' = HeaderSize /\ FrameSizes(q)' = sizes
      /\ stream'[q] = SubSeq(w, HeaderSize + 1, Len(w)) /\ sent'[q] = sent[q]
  BY <1>1 DEF Due, Parsed, FrameSizes, Took, Awaits
<1>9. Framed(q)'
  <2>1. n <= hi + 1
    BY <1>2
  <2> HIDE DEF hi, sizes, w, n
  <2>2. Len(sent'[q]) = hi
    BY <1>8 DEF hi
  <2>3. Due(q)' <= Len(sent'[q]) + 1
    BY <1>8, <2>1, <2>2
  <2>4. Holds(stream'[q], Due(q)', Len(sent'[q]), FrameSizes(q)', Parsed(q)')
    BY <1>7, <1>8, <2>2
  <2>. QED BY <2>3, <2>4 DEF Framed
<1>10. HeaderFits(q)'
  BY <1>1, <1>2, <1>8 DEF HeaderFits
<1>11. Fresh(q)'
  BY <1>1 DEF Fresh, Awaits
<1>12. Prefix(q)'
  BY <1>1 DEF Direction, Prefix, Took
<1>. QED BY <1>3, <1>9, <1>10, <1>11, <1>12 DEF Direction

\* A receiver that parsed the body and gave the transaction to the application.
LEMMA InData ==
  ASSUME IInv, NEW s \in Roles, CanParse(conn[s], "data"),
         Took(s, Peer(s), conn[s].header.size),
         delivered'[s] = Append(delivered[s], sent[Peer(s)][conn[s].header.key]),
         conn'[s].stage = "data", conn'[s].call = "on_transaction"
  PROVE  Direction(Peer(s))'
<1> DEFINE q == Peer(s)
           n == Len(delivered[s]) + 1
           hi == Len(sent[q])
           sizes == FrameSizes(q)
           w == stream[q]
           k == conn[s].header.size
<1>1. /\ q \in Roles /\ Peer(q) = s /\ Typed /\ Direction(q)
      /\ w \in Seq(Bytes) /\ Len(w) \in Nat
      /\ delivered[s] \in Seq(Transaction) /\ n \in Nat /\ Len(delivered[s]) \in Nat
  <2>1. q \in Roles /\ Peer(q) = s /\ Typed /\ Direction(q)
    BY PeerFacts DEF IInv
  <2>2. stream[q] \in Seq(Bytes) /\ delivered[s] \in Seq(Transaction)
    BY <2>1 DEF Typed
  <2>. QED BY <2>1, <2>2
<1>2. n \in 1..hi /\ k \in 0..Len(w) /\ conn[s].header.key = n /\ k = sent[q][n].size
  BY BodyAtFront
<1>3. Counted(q)' /\ Silent(q)'
  BY <1>1, <1>2, InCounts
<1>4. Live(conn[s]) /\ ~Awaits(conn[s]) /\ conn[s].stage = "data" /\ conn[s].call = "parse"
  BY DEF CanParse, Live, Awaits
<1>5. Due(q) = n /\ Holds(w, n, hi, sizes, HeaderSize)
  <2>1. Parsed(q) = HeaderSize
    BY <1>1, <1>4 DEF Parsed
  <2>. QED BY <1>4, <2>1, InTold
<1>6. /\ sizes \in [0..hi -> Nat] /\ hi \in Nat /\ sizes[n] = HeaderSize + k
      /\ HeaderSize \in Nat /\ sent[q][n] \in Transaction
  BY <1>1, <1>2, FrameSizeFacts, SizeFacts
<1>7. Holds(SubSeq(w, k + 1, Len(w)), n + 1, hi, sizes, 0)
  <2> HIDE DEF n, w, hi, sizes, k
  <2>1. hi \in Int /\ hi >= -1 /\ n <= hi + 1 /\ n <= hi
    BY <1>1, <1>2, <1>6
  <2>2. Holds(SubSeq(w, k + 1, Len(w)), n, hi, sizes, HeaderSize + k)
    BY <1>1, <1>2, <1>5, <1>6, <2>1, HoldsConsume
  <2>3. Holds(SubSeq(w, k + 1, Len(w)), n, hi, sizes, sizes[n])
    BY <1>6, <2>2
  <2>. QED BY <1>1, <1>6, <2>1, <2>3, HoldsNext
<1>8. /\ delivered'[s] = Append(delivered[s], sent[q][n])
      /\ Len(delivered'[s]) = n /\ delivered'[s][n] = sent[q][n]
      /\ \A i \in 1..Len(delivered[s]) : delivered'[s][i] = delivered[s][i]
  BY <1>1, <1>2, <1>6
<1>9. /\ Due(q)' = n + 1 /\ Parsed(q)' = 0 /\ FrameSizes(q)' = sizes
      /\ stream'[q] = SubSeq(w, k + 1, Len(w)) /\ sent'[q] = sent[q]
  BY <1>1, <1>8 DEF Due, Parsed, FrameSizes, Took, Awaits
<1>10. Framed(q)'
  <2>1. n + 1 <= hi + 1
    BY <1>1, <1>2, <1>6
  <2> HIDE DEF hi, sizes, w, n, k
  <2>2. Len(sent'[q]) = hi
    BY <1>9 DEF hi
  <2>3. Due(q)' <= Len(sent'[q]) + 1
    BY <1>9, <2>1, <2>2
  <2>4. Holds(stream'[q], Due(q)', Len(sent'[q]), FrameSizes(q)', Parsed(q)')
    BY <1>7, <1>9, <2>2
  <2>. QED BY <2>3, <2>4 DEF Framed
<1>11. HeaderFits(q)' /\ Fresh(q)'
  BY <1>1 DEF HeaderFits, Fresh, Awaits
<1>12. Prefix(q)'
  <2>1. \A i \in 1..Len(delivered[s]) : delivered[s][i] = sent[q][i]
    BY <1>1 DEF Direction, Prefix
  <2>2. \A i \in 1..n : i = n \/ i \in 1..Len(delivered[s])
    BY <1>1
  <2>3. \A i \in 1..n : delivered'[s][i] = sent[q][i]
    BY <1>8, <2>1, <2>2
  <2>4. n <= Len(sent[q])
    BY <1>2
  <2>. QED BY <1>1, <1>8, <1>9, <2>3, <2>4 DEF Prefix
<1>. QED BY <1>3, <1>10, <1>11, <1>12 DEF Direction

-----------------------------------------------------------------------------
(* The steps.                                                              *)

\* A step of side s keeps the invariant if it keeps both directions.
LEMMA Assembled ==
  ASSUME IInv, NEW s \in Roles, Typed', Own(conn'[s], s),
         conn'[Peer(s)] = conn[Peer(s)], compatible' = compatible,
         Direction(s)', Direction(Peer(s))',
         Told(conn[s]) => Told(conn'[s]),
         conn'[s].shook => conn[s].shook \/ Told(conn[Peer(s)]),
         conn'[s].shook /\ s = "server" => conn[s].shook \/ compatible
  PROVE  IInv'
<1>1. Peer(s) \in Roles /\ Peer(Peer(s)) = s /\ \A r \in Roles : r = s \/ r = Peer(s)
  BY PeerFacts DEF Roles, Peer
<1>2. /\ \A r \in Roles : conn[r].shook => Told(conn[Peer(r)])
      /\ \A r \in Roles : Own(conn[r], r)
      /\ conn["server"].shook => compatible
  BY DEF IInv, Agreed
<1>3. ASSUME NEW r \in Roles
      PROVE  Own(conn'[r], r) /\ Direction(r)'
  BY <1>1, <1>2
<1>4. ASSUME NEW r \in Roles, conn'[r].shook
      PROVE  Told(conn'[Peer(r)])
  <2>1. CASE r = s
    BY <1>2, <1>4, <2>1
  <2>2. CASE r = Peer(s)
    <3>1. Peer(r) = s /\ conn[r].shook
      BY <1>1, <1>4, <2>2
    <3>. QED BY <1>2, <3>1
  <2>. QED BY <1>1, <2>1, <2>2
<1>5. conn'["server"].shook => compatible'
  BY <1>1, <1>2, PeerFacts
<1>. QED BY <1>3, <1>4, <1>5 DEF IInv, Agreed

\* In the middle of a transaction, whose header was parsed.
Mid(c) == c.stage = "data" /\ c.call # "on_transaction"

\* What a step leaves of the direction towards s when s parsed nothing.
LEMMA QuietIn ==
  ASSUME IInv, NEW s \in Roles, NEW d, conn'[s] = d, Own(d, s),
         conn'[Peer(s)] = conn[Peer(s)], stream'[Peer(s)] = stream[Peer(s)],
         sent'[Peer(s)] = sent[Peer(s)], delivered' = delivered,
         conn[Peer(s)].unsent + d.inbound <= Len(stream[Peer(s)]),
         Live(d) =>
           /\ Live(conn[s])
           /\ Awaits(d) <=> Awaits(conn[s])
           /\ Mid(d) <=> Mid(conn[s])
           /\ Mid(d) => d.header = conn[s].header
  PROVE  Direction(Peer(s))'
<1> DEFINE q == Peer(s)
<1>1. /\ q \in Roles /\ Peer(q) = s /\ Typed /\ Direction(q) /\ d \in Connections
      /\ stream[q] \in Seq(Bytes) /\ Len(stream[q]) \in Nat
  BY PeerFacts DEF IInv, Typed, Own
<1>2. Took(s, q, 0)
  <2>1. SubSeq(stream[q], 0 + 1, Len(stream[q])) = stream[q]
    BY <1>1, StreamFacts
  <2>2. Len(stream[q]) - 0 = Len(stream[q])
    BY <1>1
  <2>. QED BY <1>1, <2>1, <2>2 DEF Took
<1>3. Live(d) => Parsed(q)' = Parsed(q)
  BY <1>1 DEF Parsed, Mid
<1>4. Live(conn'[s]) => Live(conn[s]) /\ (Awaits(conn'[s]) <=> Awaits(conn[s]))
  OBVIOUS
<1>5. Live(conn'[s]) /\ conn'[s].stage = "data" /\ conn'[s].call # "on_transaction" =>
           /\ conn[s].stage = "data" /\ conn[s].call # "on_transaction"
           /\ conn'[s].header = conn[s].header
  BY DEF Mid
<1>. QED BY <1>1, <1>2, <1>3, <1>4, <1>5, InSame

\* A step that queues nothing and parses nothing.
LEMMA QuietGood ==
  ASSUME IInv, NEW s \in Roles, NEW d, Step(s, d, <<>>, 0),
         UNCHANGED <<compatible, sent, delivered>>,
         Own(d, s), d.unsent <= conn[s].unsent,
         conn[Peer(s)].unsent + d.inbound <= Len(stream[Peer(s)]),
         Told(d) <=> Told(conn[s]), d.shook = conn[s].shook,
         Live(d) =>
           /\ Live(conn[s])
           /\ Awaits(d) <=> Awaits(conn[s])
           /\ Mid(d) <=> Mid(conn[s])
           /\ Mid(d) => d.header = conn[s].header
  PROVE  IInv'
<1>1. /\ Typed /\ d \in Connections /\ <<>> \in Seq(Bytes)
      /\ 0 \in 0..Len(stream[Peer(s)]) /\ Direction(s)
  <2>1. stream[Peer(s)] \in Seq(Bytes)
    BY PeerFacts DEF IInv, Typed
  <2>. QED BY <2>1, EmptySeq DEF IInv, Own
<1>2. /\ conn' \in [Roles -> Connections] /\ stream' \in [Roles -> Seq(Bytes)]
      /\ conn'[s] = d /\ conn'[Peer(s)] = conn[Peer(s)]
      /\ stream'[s] = stream[s] /\ stream'[Peer(s)] = stream[Peer(s)]
  BY <1>1, StepParts
<1>3. Direction(s)'
  BY <1>1, <1>2, OutSame
<1>4. Direction(Peer(s))'
  BY <1>2, QuietIn
<1>5. Typed'
  BY <1>1, <1>2 DEF Typed
<1>. QED BY <1>2, <1>3, <1>4, <1>5, Assembled

\* What Counted says of the bytes side s has buffered.
LEMMA BufferedFacts ==
  ASSUME IInv, NEW s \in Roles
  PROVE  /\ conn[s] \in Connections /\ Own(conn[s], s) /\ Typed
         /\ conn[s].unsent \in Nat /\ conn[s].inbound \in Nat
         /\ conn[Peer(s)].unsent \in Nat /\ Len(stream[Peer(s)]) \in Nat
         /\ conn[Peer(s)].unsent + conn[s].inbound <= Len(stream[Peer(s)])
<1>1. /\ Peer(s) \in Roles /\ Peer(Peer(s)) = s /\ Counted(Peer(s)) /\ Typed
      /\ Own(conn[s], s)
  BY PeerFacts DEF IInv, Direction
<1>2. /\ conn[s] \in Connections /\ conn[Peer(s)] \in Connections
      /\ stream[Peer(s)] \in Seq(Bytes)
  BY <1>1 DEF Typed
<1>3. Len(stream[Peer(s)]) \in Nat
  BY <1>2
<1>. QED BY <1>1, <1>2, <1>3, CountFacts DEF Counted

\* A step after which the side differs only in what flushing or closing touches.
LEMMA KeptGood ==
  ASSUME IInv, NEW s \in Roles, NEW d, Step(s, d, <<>>, 0),
         UNCHANGED <<compatible, sent, delivered>>,
         conn[s].state # "idle", Kept(conn[s], d), d.unsent <= conn[s].unsent
  PROVE  IInv'
<1>1. /\ Own(conn[s], s) /\ conn[Peer(s)].unsent + conn[s].inbound <= Len(stream[Peer(s)])
  BY BufferedFacts
<1>2. /\ Own(d, s) /\ (Live(d) => Live(conn[s])) /\ (Told(d) <=> Told(conn[s]))
      /\ (Awaits(d) <=> Awaits(conn[s]))
  BY <1>1, KeptOwn
<1>3. /\ d.inbound = conn[s].inbound /\ d.shook = conn[s].shook /\ d.header = conn[s].header
      /\ (Mid(d) <=> Mid(conn[s]))
  BY DEF Kept, Mid
<1>. QED BY <1>1, <1>2, <1>3, QuietGood

LEMMA CloseGood == ASSUME IInv, NEW s \in Roles, CloseSide(s)
                   PROVE  IInv'
<1>1. conn[s] \in Connections /\ conn[s].state # "idle" /\ conn[s].unsent \in Nat
  BY BufferedFacts DEF CloseSide, Own
<1>2. /\ Kept(conn[s], Close(conn[s])) /\ Close(conn[s]).unsent <= conn[s].unsent
  BY <1>1, CloseFacts
<1>. QED BY <1>1, <1>2, KeptGood DEF CloseSide

LEMMA WritableGood == ASSUME IInv, NEW s \in Roles, Writable(s)
                      PROVE  IInv'
<1>1. conn[s] \in Connections /\ conn[s].state # "idle"
  BY BufferedFacts DEF Writable, Own
<1>2. PICK d \in FlushSends(conn[s]) : Step(s, d, <<>>, 0)
  BY DEF Writable, ServiceWritable
<1>3. Kept(conn[s], d) /\ d.unsent <= conn[s].unsent
  BY <1>1, FlushFacts
<1>. QED BY <1>1, <1>2, <1>3, KeptGood DEF Writable

LEMMA ReceiveGood ==
  ASSUME IInv, NEW s \in Roles, CanReceive(conn[s]), conn[s].socket = "open",
         UNCHANGED <<compatible, sent, delivered>>,
         NEW n \in Nat, n <= InSockets(Peer(s)),
         \/ Step(s, ReceiveThenParse(conn[s], n), <<>>, 0)
         \/ Step(s, ReceiveThenEnd(conn[s], n), <<>>, 0)
  PROVE  IInv'
<1>1. /\ Own(conn[s], s) /\ conn[s].inbound \in Nat /\ conn[s].unsent \in Nat
      /\ conn[Peer(s)].unsent \in Nat /\ Len(stream[Peer(s)]) \in Nat
  BY BufferedFacts
<1>2. conn[Peer(s)].unsent + (conn[s].inbound + n) <= Len(stream[Peer(s)])
  <2>1. n <= Len(stream[Peer(s)]) - conn[Peer(s)].unsent - conn[s].inbound
    BY PeerFacts DEF InSockets
  <2>. QED BY <1>1, <2>1
<1>3. conn[s].call = "none"
  BY DEF CanReceive, Idle
<1>4. CASE Step(s, ReceiveThenParse(conn[s], n), <<>>, 0)
  <2> DEFINE d == ReceiveThenParse(conn[s], n)
  <2>1. /\ Own(d, s) /\ (Told(d) <=> Told(conn[s])) /\ d.shook = conn[s].shook
        /\ d.unsent = conn[s].unsent /\ d.inbound = conn[s].inbound + n
        /\ d.stage = conn[s].stage /\ d.call = "parse" /\ d.header = conn[s].header
        /\ d.state = conn[s].state
    BY <1>1, ReceiveFacts
  <2>2. Step(s, d, <<>>, 0)
    BY <1>4
  <2> HIDE DEF d
  <2>3. /\ (Live(d) => Live(conn[s])) /\ (Awaits(d) <=> Awaits(conn[s]))
        /\ (Mid(d) <=> Mid(conn[s])) /\ d.unsent <= conn[s].unsent
    BY <1>1, <1>3, <2>1 DEF Live, Awaits, Mid
  <2>. QED BY <1>2, <2>1, <2>2, <2>3, QuietGood
<1>5. CASE Step(s, ReceiveThenEnd(conn[s], n), <<>>, 0)
  <2> DEFINE d == ReceiveThenEnd(conn[s], n)
  <2>1. /\ Own(d, s) /\ (Told(d) <=> Told(conn[s])) /\ d.shook = conn[s].shook
        /\ d.unsent = conn[s].unsent /\ d.inbound = conn[s].inbound + n
        /\ d.state = "dead"
    BY <1>1, ReceiveEndFacts
  <2>2. Step(s, d, <<>>, 0)
    BY <1>5
  <2> HIDE DEF d
  <2>3. ~Live(d) /\ d.unsent <= conn[s].unsent
    BY <1>1, <2>1 DEF Live
  <2>. QED BY <1>2, <2>1, <2>2, <2>3, QuietGood
<1>. QED BY <1>4, <1>5

LEMMA ReadGood == ASSUME IInv, NEW s \in Roles,
                         Readable(s) \/ ReadableEOF(s) \/ ReadableError(s)
                  PROVE  IInv'
<1>1. InSockets(Peer(s)) \in Nat
  <2>1. /\ conn[s].inbound \in Nat /\ conn[Peer(s)].unsent \in Nat
        /\ Len(stream[Peer(s)]) \in Nat
        /\ conn[Peer(s)].unsent + conn[s].inbound <= Len(stream[Peer(s)])
    BY BufferedFacts
  <2>. QED BY <2>1, PeerFacts DEF InSockets
<1>2. CASE Readable(s)
  BY <1>1, <1>2, ReceiveGood DEF Readable
<1>3. CASE ReadableEOF(s)
  BY <1>1, <1>3, ReceiveGood DEF ReadableEOF
<1>4. CASE ReadableError(s)
  BY <1>1, <1>4, ReceiveGood DEF ReadableError
<1>. QED BY <1>2, <1>3, <1>4

LEMMA ParseStopGood == ASSUME IInv, NEW s \in Roles, ParseStop(s)
                       PROVE  IInv'
<1> DEFINE d == StopParsing(conn[s])
<1>1. /\ Own(conn[s], s) /\ conn[s].call = "parse" /\ conn[s].unsent \in Nat
      /\ conn[Peer(s)].unsent + conn[s].inbound <= Len(stream[Peer(s)])
  BY BufferedFacts DEF ParseStop, MustStop
<1>2. /\ Own(d, s) /\ (Told(d) <=> Told(conn[s])) /\ d.shook = conn[s].shook
      /\ d.unsent = conn[s].unsent /\ d.inbound = conn[s].inbound
      /\ d.stage = conn[s].stage /\ d.call = "none" /\ d.header = conn[s].header
      /\ d.state = conn[s].state
  BY <1>1, StopParsingFacts
<1>3. Step(s, d, <<>>, 0) /\ UNCHANGED <<compatible, sent, delivered>>
  BY DEF ParseStop
<1> HIDE DEF d
<1>4. /\ (Live(d) => Live(conn[s])) /\ (Awaits(d) <=> Awaits(conn[s]))
      /\ (Mid(d) <=> Mid(conn[s])) /\ d.unsent <= conn[s].unsent
  BY <1>1, <1>2 DEF Live, Awaits, Mid
<1>. QED BY <1>1, <1>2, <1>3, <1>4, QuietGood

LEMMA CallbackReturnGood == ASSUME IInv, NEW s \in Roles, CallbackReturn(s)
                            PROVE  IInv'
<1>1. /\ Own(conn[s], s) /\ conn[s].unsent \in Nat
      /\ conn[Peer(s)].unsent + conn[s].inbound <= Len(stream[Peer(s)])
      /\ UNCHANGED <<compatible, sent, delivered>>
  BY BufferedFacts DEF CallbackReturn
<1>2. ASSUME conn[s].call = "on_established",
             NEW d \in EstablishedReturns(conn[s]), Step(s, d, <<>>, 0)
      PROVE  IInv'
  <2>1. /\ Own(d, s) /\ (Told(d) <=> Told(conn[s])) /\ d.shook = conn[s].shook
        /\ d.unsent <= conn[s].unsent /\ d.inbound = conn[s].inbound
        /\ Live(d) => Live(conn[s]) /\ d.stage = "header" /\ d.call = "parse"
    BY <1>1, <1>2, EstablishedReturnsFacts
  <2>2. Live(d) => ~Mid(d) /\ ~Awaits(d)
    BY <2>1 DEF Mid, Awaits
  <2>3. Live(d) => ~Mid(conn[s]) /\ ~Awaits(conn[s])
    BY <1>1, <1>2, <2>1 DEF Own, Mid, Awaits
  <2>. QED BY <1>1, <1>2, <2>1, <2>2, <2>3, QuietGood
<1>3. ASSUME conn[s].call = "on_transaction", Step(s, TransactionReturns(conn[s]), <<>>, 0)
      PROVE  IInv'
  <2> DEFINE d == TransactionReturns(conn[s])
  <2>1. /\ Own(d, s) /\ (Told(d) <=> Told(conn[s])) /\ d.shook = conn[s].shook
        /\ d.unsent = conn[s].unsent /\ d.inbound = conn[s].inbound
        /\ d.state = conn[s].state /\ d.stage = "header" /\ d.call = "parse"
    BY <1>1, <1>3, TransactionReturnsFacts
  <2>2. Step(s, d, <<>>, 0)
    BY <1>3
  <2> HIDE DEF d
  <2>3. ~Mid(d) /\ ~Awaits(d) /\ (Live(d) => Live(conn[s])) /\ d.unsent <= conn[s].unsent
    BY <1>1, <2>1 DEF Mid, Awaits, Live
  <2>4. Live(d) => ~Mid(conn[s]) /\ ~Awaits(conn[s])
    BY <1>1, <1>3, <2>3 DEF Own, Mid, Awaits
  <2>. QED BY <1>1, <2>1, <2>2, <2>3, <2>4, QuietGood
<1>. QED BY <1>2, <1>3 DEF CallbackReturn

LEMMA StartGood == ASSUME IInv, NEW s \in Roles, StartSide(s)
                   PROVE  IInv'
<1>1. PICK d \in Start(conn[s]) :
        Step(s, d, IF s = "client" THEN Greeting(s) ELSE <<>>, 0)
  BY DEF StartSide
<1>2. /\ Own(conn[s], s) /\ conn[s].state = "idle" /\ Typed
      /\ conn[s].unsent \in Nat /\ Len(stream[Peer(s)]) \in Nat
      /\ conn[Peer(s)].unsent + conn[s].inbound <= Len(stream[Peer(s)])
      /\ UNCHANGED <<compatible, sent, delivered>>
  BY BufferedFacts DEF StartSide
<1>3. /\ Own(d, s) /\ ~d.shook /\ (Told(d) <=> s = "client") /\ d.inbound = conn[s].inbound
      /\ d.unsent <= conn[s].unsent + (IF s = "client" THEN GreetingSize(s) ELSE 0)
      /\ Awaits(d)
  BY <1>2, StartFacts
<1>4. /\ Live(conn[s]) /\ ~conn[s].shook /\ Awaits(conn[s]) /\ ~Told(conn[s])
      /\ ~Mid(conn[s]) /\ ~Mid(d)
  BY <1>2, <1>3 DEF Own, Live, Awaits, Told, Mid
<1>5. CASE s = "client"
  <2>1. d \in Connections /\ Greeting(s) \in Seq(Bytes) /\ 0 \in 0..Len(stream[Peer(s)])
    <3>1. GreetingSize(s) \in Nat /\ 0 \in 0..RejectFrame
      BY SizeFacts
    <3>. QED BY <1>2, <1>3, <3>1, FrameBytesFacts DEF Own, Greeting
  <2>2. Step(s, d, Greeting(s), 0)
    BY <1>1, <1>5
  <2>3. /\ conn' \in [Roles -> Connections] /\ stream' \in [Roles -> Seq(Bytes)]
        /\ conn'[s] = d /\ conn'[Peer(s)] = conn[Peer(s)]
        /\ stream'[s] = stream[s] \o Greeting(s) /\ stream'[Peer(s)] = stream[Peer(s)]
    BY <1>2, <2>1, <2>2, StepParts
  <2>4. Direction(s)'
    BY <1>2, <1>3, <1>4, <1>5, <2>1, <2>3, OutGreets
  <2>5. Direction(Peer(s))'
    BY <1>2, <1>3, <1>4, <2>3, QuietIn
  <2>6. Typed'
    BY <1>2, <2>3 DEF Typed
  <2>. QED BY <1>2, <1>3, <1>4, <2>3, <2>4, <2>5, <2>6, Assembled
<1>6. CASE s # "client"
  <2>1. Step(s, d, <<>>, 0) /\ d.unsent <= conn[s].unsent
    BY <1>1, <1>2, <1>3, <1>6
  <2>2. d.shook = conn[s].shook /\ (Told(d) <=> Told(conn[s]))
    BY <1>2, <1>3, <1>4, <1>6 DEF Own, Connections
  <2>. QED BY <1>2, <1>3, <1>4, <2>1, <2>2, QuietGood
<1>. QED BY <1>5, <1>6

LEMMA QueueGood == ASSUME IInv, NEW s \in Roles, Queue(s)
                   PROVE  IInv'
<1> DEFINE frame == Len(sent[s]) + 1
<1>1. PICK body \in Bodies : \E d \in QueueTransaction(conn[s], body) :
        /\ Step(s, d, FrameBytes(frame, HeaderSize + body), 0)
        /\ sent' = [sent EXCEPT ![s] = Append(@, [key |-> frame, size |-> body])]
  BY DEF Queue
<1> DEFINE n == HeaderSize + body
           message == [key |-> frame, size |-> body]
<1>2. PICK d \in FlushSends(QueueBytes(conn[s], n)) : Step(s, d, FrameBytes(frame, n), 0)
  BY <1>1 DEF QueueTransaction
<1>3. /\ Own(conn[s], s) /\ conn[s] \in Connections /\ Typed
      /\ conn[s].unsent \in Nat /\ Len(stream[Peer(s)]) \in Nat
      /\ conn[Peer(s)].unsent + conn[s].inbound <= Len(stream[Peer(s)])
      /\ UNCHANGED <<compatible, delivered>> /\ MayQueue(s)
  BY BufferedFacts DEF Queue
<1>4. Told(conn[s]) /\ conn[s].state # "idle" /\ Len(sent[s]) < MaxMessages
  <2>1. conn[s].state = "established" => conn[s].shook
    BY <1>3 DEF Own, Live
  <2>2. conn[s].starts \in Nat /\ conn[s].role = s
    BY <1>3 DEF Connections, Own
  <2>. QED BY <1>3, <2>1, <2>2 DEF MayQueue, Own, Told
<1>5. sent[s] \in Seq(Transaction) /\ Len(sent[s]) \in Nat /\ body \in Nat /\ n \in Nat
      /\ frame \in 0..RejectFrame /\ message \in Transaction
  <2>1. sent[s] \in Seq(Transaction) /\ body \in Nat
    BY <1>3, ConnectionPairAssumption DEF Typed
  <2>2. Len(sent[s]) \in Nat
    BY <2>1
  <2>3. frame \in Keys /\ frame \in 0..RejectFrame /\ n \in Nat
    BY <1>4, <2>1, <2>2, SizeFacts
  <2>. QED BY <2>1, <2>2, <2>3 DEF Transaction
<1> HIDE DEF n, frame
<1>6. Kept(conn[s], d) /\ d.unsent <= conn[s].unsent + n
  BY <1>2, <1>3, <1>5, QueueFacts
<1>7. /\ Own(d, s) /\ (Live(d) => Live(conn[s])) /\ (Told(d) <=> Told(conn[s]))
      /\ (Awaits(d) <=> Awaits(conn[s]))
  BY <1>3, <1>4, <1>6, KeptOwn
<1>8. /\ d.inbound = conn[s].inbound /\ d.shook = conn[s].shook /\ d.header = conn[s].header
      /\ (Mid(d) <=> Mid(conn[s])) /\ d \in Connections
  BY <1>6 DEF Kept, Mid
<1>9. FrameBytes(frame, n) \in Seq(Bytes) /\ 0 \in 0..Len(stream[Peer(s)])
  BY <1>3, <1>5, FrameBytesFacts
<1>10. /\ conn' \in [Roles -> Connections] /\ stream' \in [Roles -> Seq(Bytes)]
       /\ conn'[s] = d /\ conn'[Peer(s)] = conn[Peer(s)]
       /\ stream'[s] = stream[s] \o FrameBytes(frame, n)
       /\ stream'[Peer(s)] = stream[Peer(s)]
  BY <1>2, <1>3, <1>8, <1>9, StepParts
<1>11. /\ sent' = [sent EXCEPT ![s] = Append(sent[s], message)]
       /\ sent'[s] = Append(sent[s], message) /\ sent'[Peer(s)] = sent[Peer(s)]
  <2>1. sent' = [sent EXCEPT ![s] = Append(sent[s], message)]
    BY <1>1 DEF frame
  <2> HIDE DEF message
  <2>. QED BY <1>3, <2>1, PeerFacts DEF Typed
<1>12. Direction(s)'
  BY <1>3, <1>4, <1>6, <1>7, <1>8, <1>10, <1>11, OutQueues DEF n, frame
<1>13. Direction(Peer(s))'
  BY <1>3, <1>7, <1>8, <1>10, <1>11, QuietIn
<1>14. Typed'
  <2>1. /\ Append(sent[s], message) \in Seq(Transaction)
        /\ Len(Append(sent[s], message)) = frame
        /\ \A i \in 1..Len(sent[s]) : Append(sent[s], message)[i] = sent[s][i]
        /\ Append(sent[s], message)[frame] = message
    BY <1>5, AppendProperties DEF frame
  <2>2. sent' \in [Roles -> Seq(Transaction)]
    BY <1>3, <1>11, <2>1 DEF Typed
  <2>3. ASSUME NEW r \in Roles
        PROVE  Len(sent'[r]) <= MaxMessages /\ \A i \in 1..Len(sent'[r]) : sent'[r][i].key = i
    <3>1. CASE r = s
      <4>1. message.key = frame /\ frame <= MaxMessages
        BY <1>4, <1>5, SizeFacts DEF frame
      <4> HIDE DEF message
      <4>2. \A i \in 1..Len(sent[s]) : sent[s][i].key = i
        BY <1>3 DEF Typed
      <4>3. \A i \in 1..frame : i = frame \/ i \in 1..Len(sent[s])
        BY <1>5 DEF frame
      <4>4. \A i \in 1..frame : sent'[s][i].key = i
        BY <1>11, <2>1, <4>1, <4>2, <4>3
      <4>. QED BY <1>11, <2>1, <3>1, <4>1, <4>4
    <3>2. CASE r # s
      <4>1. r = Peer(s)
        BY <3>2, PeerFacts
      <4>. QED BY <1>3, <1>11, <4>1 DEF Typed
    <3>. QED BY <3>1, <3>2
  <2>. QED BY <1>3, <1>10, <2>2, <2>3 DEF Typed
<1>. QED BY <1>3, <1>7, <1>8, <1>10, <1>12, <1>13, <1>14, Assembled

\* Nothing but an accepting handshake is taken for one.
LEMMA GreetedFacts ==
  ASSUME IInv, NEW s \in Roles, CanParse(conn[s], "handshake")
  PROVE  /\ Own(conn[s], s) /\ Typed /\ Live(conn[s]) /\ Awaits(conn[s]) /\ ~conn[s].shook
         /\ conn[s].expected = GreetingSize(Peer(s)) /\ Need(conn[s]) = GreetingSize(Peer(s))
         /\ GreetingSize(Peer(s)) \in 1..Len(stream[Peer(s)])
         /\ GreetingSize(Peer(s)) <= conn[s].inbound
         /\ Greeted(s) => Told(conn[Peer(s)])
<1> DEFINE q == Peer(s)
           n == GreetingSize(q)
           w == stream[q]
<1>1. /\ q \in Roles /\ w \in Seq(Bytes) /\ Own(conn[s], s) /\ Typed /\ Direction(q)
      /\ conn[s].inbound \in Nat /\ conn[q].unsent \in Nat /\ Len(w) \in Nat
      /\ conn[q].unsent + conn[s].inbound <= Len(w)
  BY BufferedFacts, PeerFacts DEF IInv, Typed
<1>2. Live(conn[s]) /\ Awaits(conn[s]) /\ ~conn[s].shook
  BY <1>1 DEF CanParse, Live, Awaits, Own
<1>3. conn[s].expected = n /\ Need(conn[s]) = n /\ n \in Nat \ {0}
  BY <1>1, <1>2, SizeFacts DEF Own, Awaits, Need, CanParse
<1>4. n <= conn[s].inbound /\ n \in 1..Len(w)
  BY <1>1, <1>3 DEF CanParse
<1>5. ASSUME Greeted(s), ~Told(conn[q])
      PROVE  FALSE
  <2>1. SubSeq(w, 1, n) = FrameBytes(0, n)
    BY <1>3, <1>5 DEF Greeted, Front, Greeting
  <2>2. SubSeq(w, 1, n)[1] = w[1] /\ FrameBytes(0, n)[1] = <<0, 1>>
    BY <1>1, <1>3, <1>4 DEF FrameBytes
  <2>3. w[1][1] = RejectFrame
    BY <1>1, <1>4, <1>5 DEF Direction, Silent
  <2> HIDE DEF w
  <2>4. w[1] = <<0, 1>>
    BY <2>1, <2>2
  <2>. QED BY <2>3, <2>4, SizeFacts
<1>. QED BY <1>1, <1>2, <1>3, <1>4, <1>5

\* A handshake that is refused ends the connection.
LEMMA RefuseGood ==
  ASSUME IInv, NEW s \in Roles, NEW d, NEW k \in 0..Len(stream[Peer(s)]), Step(s, d, <<>>, k),
         UNCHANGED <<compatible, sent, delivered>>,
         Own(d, s), ~Live(d), d.unsent = conn[s].unsent, d.inbound = conn[s].inbound - k,
         Told(d) <=> Told(conn[s]), d.shook = conn[s].shook
  PROVE  IInv'
<1>1. /\ Typed /\ Direction(s) /\ Direction(Peer(s)) /\ d \in Connections /\ <<>> \in Seq(Bytes)
      /\ conn[s].unsent \in Nat /\ conn[s].inbound \in Nat /\ conn[Peer(s)].unsent \in Nat
      /\ Len(stream[Peer(s)]) \in Nat
      /\ conn[Peer(s)].unsent + conn[s].inbound <= Len(stream[Peer(s)])
  BY BufferedFacts, PeerFacts, EmptySeq DEF IInv, Own
<1>2. /\ conn' \in [Roles -> Connections] /\ stream' \in [Roles -> Seq(Bytes)]
      /\ conn'[s] = d /\ conn'[Peer(s)] = conn[Peer(s)] /\ stream'[s] = stream[s]
      /\ stream'[Peer(s)] = SubSeq(stream[Peer(s)], k + 1, Len(stream[Peer(s)]))
  BY <1>1, StepUnqueued
<1>3. Direction(s)'
  <2>1. d.unsent <= conn[s].unsent /\ (Live(d) => Live(conn[s]))
    BY <1>1
  <2>. QED BY <1>1, <1>2, <2>1, OutSame
<1>4. Direction(Peer(s))'
  <2>1. conn[Peer(s)].unsent + d.inbound <= Len(stream[Peer(s)]) - k
    BY <1>1
  <2>2. Took(s, Peer(s), k)
    BY <1>1, <1>2, <2>1 DEF Took
  <2>. QED BY <1>1, <1>2, <2>2, InEnds
<1>5. Typed'
  BY <1>1, <1>2 DEF Typed
<1>. QED BY <1>2, <1>3, <1>4, <1>5, Assembled

LEMMA ParseHandshakeGood == ASSUME IInv, NEW s \in Roles, ParseHandshake(s)
                            PROVE  IInv'
<1> DEFINE q == Peer(s)
           k == GreetingSize(q)
<1>1. /\ Own(conn[s], s) /\ Typed /\ Live(conn[s]) /\ Awaits(conn[s]) /\ ~conn[s].shook
      /\ conn[s].expected = k /\ Need(conn[s]) = k /\ k \in 0..Len(stream[q])
      /\ Greeted(s) => Told(conn[q])
      /\ CanParse(conn[s], "handshake") /\ UNCHANGED <<compatible, sent, delivered>>
  BY GreetedFacts DEF ParseHandshake
<1>2. /\ Direction(s) /\ Direction(q)
      /\ conn[s].unsent \in Nat /\ conn[s].inbound \in Nat /\ conn[q].unsent \in Nat
      /\ Len(stream[q]) \in Nat /\ conn[q].unsent + conn[s].inbound <= Len(stream[q])
  BY BufferedFacts, PeerFacts DEF IInv
<1>3. ASSUME Step(s, RefuseHandshake(conn[s]), <<>>, k)
      PROVE  IInv'
  <2> DEFINE d == RefuseHandshake(conn[s])
  <2>1. /\ Own(d, s) /\ d.state = "dead" /\ d.unsent = conn[s].unsent
        /\ d.inbound = conn[s].inbound - k /\ d.shook = conn[s].shook
        /\ (Told(d) <=> Told(conn[s]))
    BY <1>1, RefuseHandshakeFacts
  <2>2. Step(s, d, <<>>, k)
    BY <1>3
  <2> HIDE DEF d, k
  <2>3. ~Live(d)
    BY <2>1 DEF Live
  <2>. QED BY <1>1, <2>1, <2>2, <2>3, RefuseGood
<1>4. ASSUME s = "server", NEW d \in RejectVersion(conn[s]),
             Step(s, d, FrameBytes(RejectFrame, ServerReplySize), k)
      PROVE  IInv'
  <2>1. /\ Own(d, s) /\ ~Live(d) /\ d.unsent <= conn[s].unsent + ServerReplySize
        /\ d.inbound = conn[s].inbound - k /\ d.shook = conn[s].shook
        /\ (Told(d) <=> Told(conn[s]))
    BY <1>1, <1>4, RejectFacts
  <2>2. ~Told(conn[s]) /\ d \in Connections
    BY <1>1, <1>4, <2>1 DEF Told, Own
  <2>3. FrameBytes(RejectFrame, ServerReplySize) \in Seq(Bytes)
    <3>1. RejectFrame \in 0..RejectFrame /\ ServerReplySize \in Nat
      BY SizeFacts
    <3>. QED BY <3>1, FrameBytesFacts
  <2>4. /\ conn' \in [Roles -> Connections] /\ stream' \in [Roles -> Seq(Bytes)]
        /\ conn'[s] = d /\ conn'[q] = conn[q]
        /\ stream'[s] = stream[s] \o FrameBytes(RejectFrame, ServerReplySize)
        /\ stream'[q] = SubSeq(stream[q], k + 1, Len(stream[q]))
    <3> DEFINE queued == FrameBytes(RejectFrame, ServerReplySize)
    <3>1. queued \in Seq(Bytes) /\ Step(s, d, queued, k)
      BY <1>4, <2>3
    <3> HIDE DEF queued, k
    <3>2. /\ conn' \in [Roles -> Connections] /\ stream' \in [Roles -> Seq(Bytes)]
          /\ conn'[s] = d /\ conn'[q] = conn[q]
          /\ stream'[s] = stream[s] \o queued
          /\ stream'[q] = SubSeq(stream[q], k + 1, Len(stream[q]))
      BY <1>1, <2>2, <3>1, StepParts
    <3>. QED BY <3>2 DEF queued
  <2>5. Direction(s)'
    BY <1>1, <2>1, <2>2, <2>4, OutRejects
  <2>6. Took(s, q, k)
    <3>1. conn[q].unsent + d.inbound <= Len(stream[q]) - k
      BY <1>1, <1>2, <2>1
    <3>. QED BY <1>1, <2>2, <2>4, <3>1 DEF Took
  <2>7. Direction(q)'
    BY <1>1, <1>2, <2>1, <2>4, <2>6, InEnds
  <2>8. Typed'
    BY <1>1, <2>4 DEF Typed
  <2>. QED BY <1>1, <2>1, <2>4, <2>5, <2>7, <2>8, Assembled
<1>5. ASSUME Greeted(s), s = "server" => compatible,
             Step(s, AcceptHandshake(conn[s]), IF s = "server" THEN Greeting(s) ELSE <<>>, k)
      PROVE  IInv'
  <2> DEFINE d == AcceptHandshake(conn[s])
             more == IF s = "server" THEN GreetingSize(s) ELSE 0
             queued == IF s = "server" THEN Greeting(s) ELSE <<>>
  <2>1. /\ Own(d, s) /\ Live(d) /\ ~Awaits(d) /\ d.shook /\ Told(d) /\ d.stage = "handshake"
        /\ d.unsent = conn[s].unsent + more /\ d.inbound = conn[s].inbound - k
    BY <1>1, AcceptHandshakeFacts
  <2>2. Step(s, d, queued, k)
    BY <1>5
  <2> HIDE DEF d
  <2>3. d \in Connections /\ queued \in Seq(Bytes)
    <3>1. GreetingSize(s) \in Nat /\ 0 \in 0..RejectFrame
      BY SizeFacts
    <3>2. Greeting(s) \in Seq(Bytes) /\ <<>> \in Seq(Bytes)
      BY <3>1, FrameBytesFacts, EmptySeq DEF Greeting
    <3>. QED BY <2>1, <3>2 DEF Own
  <2>4. /\ conn' \in [Roles -> Connections] /\ stream' \in [Roles -> Seq(Bytes)]
        /\ conn'[s] = d /\ conn'[q] = conn[q] /\ stream'[s] = stream[s] \o queued
        /\ stream'[q] = SubSeq(stream[q], k + 1, Len(stream[q]))
        /\ (queued = <<>> => stream'[s] = stream[s])
    <3> HIDE DEF queued
    <3>. QED BY <1>1, <2>2, <2>3, StepParts
  <2>5. Direction(s)'
    <3>1. CASE s = "server"
      <4>1. ~Told(conn[s])
        BY <1>1, <3>1 DEF Told, Own
      <4>2. d.unsent <= conn[s].unsent + GreetingSize(s) /\ stream'[s] = stream[s] \o Greeting(s)
        BY <1>2, <2>1, <2>4, <3>1, SizeFacts
      <4>. QED BY <1>1, <2>1, <2>3, <2>4, <4>1, <4>2, OutGreets
    <3>2. CASE s # "server"
      <4>1. Told(conn[s])
        <5>1. s = "client" /\ conn[s].role = s /\ conn[s].starts # 0 /\ conn[s].starts \in Nat
          BY <1>1, <3>2, PeerFacts DEF Own, Connections, CanParse
        <5>. QED BY <5>1 DEF Told
      <4>2. d.unsent <= conn[s].unsent /\ stream'[s] = stream[s]
        BY <1>2, <2>1, <2>4, <3>2
      <4>. QED BY <1>1, <1>2, <2>1, <2>3, <2>4, <4>1, <4>2, OutSame
    <3>. QED BY <3>1, <3>2
  <2>6. Took(s, q, k)
    <3>1. conn[q].unsent + d.inbound <= Len(stream[q]) - k
      BY <1>1, <1>2, <2>1
    <3>. QED BY <1>1, <2>3, <2>4, <3>1 DEF Took
  <2>7. Direction(q)'
    BY <1>1, <1>5, <2>1, <2>4, <2>6, InGreeted
  <2>8. Typed'
    BY <1>1, <2>4 DEF Typed
  <2>. QED BY <1>1, <1>5, <2>1, <2>4, <2>5, <2>7, <2>8, Assembled
<1>. QED BY <1>1, <1>3, <1>4, <1>5 DEF ParseHandshake, VersionAccepted

LEMMA ParseHeaderGood == ASSUME IInv, NEW s \in Roles, ParseHeader(s)
                         PROVE  IInv'
<1> DEFINE q == Peer(s)
           n == Len(delivered[s]) + 1
           h == DecodeHeader(s)
<1>1. /\ CanParse(conn[s], "header") /\ UNCHANGED <<compatible, sent, delivered>>
      /\ IF Refused(h) THEN Step(s, RefuseHeader(conn[s], h), <<>>, HeaderSize)
         ELSE Step(s, AcceptHeader(conn[s], h), <<>>, HeaderSize)
  BY DEF ParseHeader
<1>2. /\ Own(conn[s], s) /\ Typed /\ Direction(s) /\ Direction(q)
      /\ conn[s].unsent \in Nat /\ conn[s].inbound \in Nat /\ conn[q].unsent \in Nat
      /\ Len(stream[q]) \in Nat /\ conn[q].unsent + conn[s].inbound <= Len(stream[q])
  BY BufferedFacts, PeerFacts DEF IInv
<1>3. /\ n \in 1..Len(sent[q]) /\ n \in Keys /\ HeaderSize \in 0..Len(stream[q])
      /\ Front(q, HeaderSize) = FrameBytes(n, HeaderSize)
      /\ Head(stream[q]) = <<n, 1>> /\ sent[q][n] \in Transaction
  BY <1>1, HeaderAtFront
<1>4. h = [key |-> n, total |-> sent[q][n].size, size |-> sent[q][n].size]
  <2> HIDE DEF n
  <2>1. Head(stream[q])[1] = n
    BY <1>3
  <2>. QED BY <1>3, <2>1 DEF DecodeHeader
<1>5. h \in Header
  <2>1. sent[q][n].size \in Nat
    BY <1>3, ConnectionPairAssumption DEF Transaction
  <2>. QED BY <1>3, <1>4, <2>1 DEF Header
<1> HIDE DEF h
<1>6. ASSUME Step(s, RefuseHeader(conn[s], h), <<>>, HeaderSize)
      PROVE  IInv'
  <2> DEFINE d == RefuseHeader(conn[s], h)
  <2>1. /\ Own(d, s) /\ d.state = "dead" /\ d.unsent = conn[s].unsent
        /\ d.inbound = conn[s].inbound - HeaderSize /\ d.shook = conn[s].shook
        /\ (Told(d) <=> Told(conn[s]))
    BY <1>1, <1>2, <1>5, RefuseHeaderFacts
  <2>2. Step(s, d, <<>>, HeaderSize)
    BY <1>6
  <2> HIDE DEF d
  <2>3. ~Live(d)
    BY <2>1 DEF Live
  <2>. QED BY <1>1, <1>3, <2>1, <2>2, <2>3, RefuseGood
<1>7. ASSUME ~Refused(h), Step(s, AcceptHeader(conn[s], h), <<>>, HeaderSize)
      PROVE  IInv'
  <2> DEFINE d == AcceptHeader(conn[s], h)
  <2>1. /\ Own(d, s) /\ Live(d) /\ d.stage = "data" /\ d.call = "parse" /\ d.header = h
        /\ d.unsent = conn[s].unsent /\ d.inbound = conn[s].inbound - HeaderSize
        /\ d.shook = conn[s].shook /\ (Told(d) <=> Told(conn[s])) /\ d.state = conn[s].state
    BY <1>1, <1>2, <1>5, <1>7, AcceptHeaderFacts
  <2>2. Step(s, d, <<>>, HeaderSize)
    BY <1>7
  <2> HIDE DEF d
  <2>3. d \in Connections /\ <<>> \in Seq(Bytes) /\ (Live(d) => Live(conn[s]))
        /\ d.unsent <= conn[s].unsent
    BY <1>2, <2>1, EmptySeq DEF Own, Live
  <2>4. /\ conn' \in [Roles -> Connections] /\ stream' \in [Roles -> Seq(Bytes)]
        /\ conn'[s] = d /\ conn'[q] = conn[q] /\ stream'[s] = stream[s]
        /\ stream'[q] = SubSeq(stream[q], HeaderSize + 1, Len(stream[q]))
    BY <1>2, <1>3, <2>2, <2>3, StepParts
  <2>5. Direction(s)'
    BY <1>1, <1>2, <2>1, <2>3, <2>4, OutSame
  <2>6. Took(s, q, HeaderSize)
    <3>1. conn[q].unsent + d.inbound <= Len(stream[q]) - HeaderSize
      BY <1>2, <1>3, <2>1
    <3>. QED BY <1>1, <2>3, <2>4, <3>1 DEF Took
  <2>7. Direction(q)'
    <3>1. d.header.key = n /\ d.header.size = sent[q][n].size
      BY <1>4, <2>1
    <3>. QED BY <1>1, <2>1, <2>4, <2>6, <3>1, InHeader
  <2>8. Typed'
    BY <1>1, <1>2, <2>4 DEF Typed
  <2>. QED BY <1>1, <2>1, <2>4, <2>5, <2>7, <2>8, Assembled
<1>. QED BY <1>1, <1>6, <1>7

\* What is given to the application is the next transaction of the peer.
LEMMA ParseDataFacts ==
  ASSUME IInv, NEW s \in Roles, ParseData(s)
  PROVE  LET q == Peer(s)
             n == Len(delivered[s]) + 1
         IN  /\ n \in 1..Len(sent[q])
             /\ delivered' = [delivered EXCEPT ![s] = Append(delivered[s], sent[q][n])]
<1> DEFINE h == conn[s].header
           body == [i \in 1..h.size |-> <<h.key, HeaderSize + i>>]
           got == IF Front(Peer(s), h.size) = body
                  THEN [key |-> h.key, size |-> h.size] ELSE Corrupt
<1>1. CanParse(conn[s], "data") /\ delivered' = [delivered EXCEPT ![s] = Append(@, got)]
  BY DEF ParseData
<1>2. /\ h.key = Len(delivered[s]) + 1 /\ h.key \in 1..Len(sent[Peer(s)])
      /\ Front(Peer(s), h.size) = body
      /\ sent[Peer(s)][h.key] = [key |-> h.key, size |-> h.size]
  BY <1>1, BodyAtFront
<1>3. got = sent[Peer(s)][h.key]
  BY <1>2
<1> HIDE DEF got
<1>4. delivered' = [delivered EXCEPT ![s] = Append(delivered[s], got)]
  BY <1>1
<1>. QED BY <1>2, <1>3, <1>4

LEMMA ParseDataGood == ASSUME IInv, NEW s \in Roles, ParseData(s)
                       PROVE  IInv'
<1> DEFINE q == Peer(s)
           n == Len(delivered[s]) + 1
           k == conn[s].header.size
<1>1. /\ CanParse(conn[s], "data") /\ UNCHANGED <<compatible, sent>>
      /\ Step(s, Dispatch(conn[s]), <<>>, k)
  BY DEF ParseData
<1>2. /\ Own(conn[s], s) /\ Typed /\ Direction(s) /\ Direction(q)
      /\ conn[s].unsent \in Nat /\ conn[s].inbound \in Nat /\ conn[q].unsent \in Nat
      /\ Len(stream[q]) \in Nat /\ conn[q].unsent + conn[s].inbound <= Len(stream[q])
      /\ q \in Roles /\ q # s
  BY BufferedFacts, PeerFacts DEF IInv
<1>3. /\ k \in 0..Len(stream[q]) /\ conn[s].header.key = n /\ n \in 1..Len(sent[q])
  BY <1>1, BodyAtFront
<1>4. delivered' = [delivered EXCEPT ![s] = Append(delivered[s], sent[q][n])]
  BY ParseDataFacts
<1>5. /\ delivered'[s] = Append(delivered[s], sent[q][n]) /\ delivered'[q] = delivered[q]
      /\ delivered' \in [Roles -> Seq(Transaction)]
  <2>1. delivered[s] \in Seq(Transaction) /\ sent[q] \in Seq(Transaction)
        /\ delivered \in [Roles -> Seq(Transaction)]
    BY <1>2 DEF Typed
  <2>2. sent[q][n] \in Transaction
    BY <1>3, <2>1
  <2> HIDE DEF n, q
  <2>3. Append(delivered[s], sent[q][n]) \in Seq(Transaction)
    BY <2>1, <2>2
  <2>. QED BY <1>2, <1>4, <2>1, <2>3
<1> DEFINE d == Dispatch(conn[s])
<1>6. /\ Own(d, s) /\ Live(d) /\ d.stage = "data" /\ d.call = "on_transaction"
      /\ d.unsent = conn[s].unsent /\ d.inbound = conn[s].inbound - k
      /\ d.shook = conn[s].shook /\ (Told(d) <=> Told(conn[s])) /\ d.state = conn[s].state
  BY <1>1, <1>2, DispatchFacts
<1>7. Step(s, d, <<>>, k)
  BY <1>1
<1> HIDE DEF d
<1>8. d \in Connections /\ <<>> \in Seq(Bytes) /\ (Live(d) => Live(conn[s]))
      /\ d.unsent <= conn[s].unsent
  BY <1>2, <1>6, EmptySeq DEF Own, Live
<1>9. /\ conn' \in [Roles -> Connections] /\ stream' \in [Roles -> Seq(Bytes)]
      /\ conn'[s] = d /\ conn'[q] = conn[q] /\ stream'[s] = stream[s]
      /\ stream'[q] = SubSeq(stream[q], k + 1, Len(stream[q]))
  <2> HIDE DEF k
  <2>. QED BY <1>2, <1>3, <1>7, <1>8, StepParts
<1>10. Direction(s)'
  BY <1>1, <1>2, <1>5, <1>6, <1>8, <1>9, OutSame
<1>11. Took(s, q, k)
  <2>1. conn[q].unsent + d.inbound <= Len(stream[q]) - k
    <3>1. d.inbound = conn[s].inbound - k
      BY <1>6
    <3> HIDE DEF k, q
    <3>. QED BY <1>2, <1>3, <3>1
  <2>2. sent'[q] = sent[q]
    BY <1>1
  <2> HIDE DEF k, q
  <2>. QED BY <1>8, <1>9, <2>1, <2>2, Zenon DEF Took
<1>12. Direction(q)'
  BY <1>1, <1>3, <1>5, <1>6, <1>9, <1>11, InData
<1>13. Typed'
  BY <1>1, <1>2, <1>5, <1>9 DEF Typed
<1>. QED BY <1>1, <1>6, <1>9, <1>10, <1>12, <1>13, Assembled

\* The steps of side s.
SideStep(s) ==
  \/ StartSide(s) \/ Queue(s) \/ CloseSide(s)
  \/ Readable(s) \/ ReadableEOF(s) \/ ReadableError(s) \/ Writable(s)
  \/ ParseTurn(s)

LEMMA InitGood == Init => IInv
<1> SUFFICES ASSUME Init
             PROVE  IInv
  OBVIOUS
<1> DEFINE h == [key |-> 1, total |-> 0, size |-> 0]
<1>1. h \in Header
  BY SizeFacts DEF Header
<1>2. ASSUME NEW s \in Roles
      PROVE  /\ conn[s] = NewConnection(s, h) /\ stream[s] = <<>> /\ sent[s] = <<>>
             /\ delivered[s] = <<>>
  BY <1>2 DEF Init
<1> HIDE DEF h
<1>3. ASSUME NEW s \in Roles
      PROVE  /\ conn[s] \in Connections /\ Own(conn[s], s) /\ ~Told(conn[s])
             /\ conn[s].unsent = 0 /\ conn[s].inbound = 0 /\ ~conn[s].shook
             /\ conn[s].stage = "handshake"
  <2> DEFINE c == NewConnection(s, h)
  <2>1. HandshakeSize(s) \in Nat
    BY PeerFacts, SizeFacts
  <2>2. /\ c.role = s /\ c.state = "idle" /\ c.socket = "closed" /\ c.stage = "handshake"
        /\ c.expected = HandshakeSize(s) /\ c.inbound = 0 /\ c.unsent = 0 /\ c.call = "none"
        /\ ~c.shook /\ c.starts = 0
    BY DEF NewConnection
  <2>3. c \in Connections
    BY <1>1, <2>1 DEF NewConnection, Connections, NoPartial, Partial, States, Stages, Calls
  <2>4. conn[s] = c
    BY <1>2
  <2> HIDE DEF c
  <2>5. Own(c, s) /\ ~Told(c)
    BY <2>2, <2>3 DEF Own, Live, Awaits, Told
  <2>. QED BY <2>2, <2>3, <2>4, <2>5
<1>4. Typed
  <2>1. <<>> \in Seq(Bytes) /\ <<>> \in Seq(Transaction) /\ Len(<<>>) = 0
    BY EmptySeq
  <2>2. /\ conn \in [Roles -> Connections] /\ compatible \in BOOLEAN
    BY <1>3 DEF Init
  <2>3. /\ stream \in [Roles -> Seq(Bytes)] /\ sent \in [Roles -> Seq(Transaction)]
        /\ delivered \in [Roles -> Seq(Transaction)]
    BY <2>1 DEF Init
  <2>4. \A s \in Roles : Len(sent[s]) <= MaxMessages /\ \A i \in 1..Len(sent[s]) : sent[s][i].key = i
    BY <1>2, <2>1, SizeFacts
  <2>. QED BY <2>2, <2>3, <2>4 DEF Typed
<1>5. ASSUME NEW s \in Roles
      PROVE  Direction(s)
  <2> DEFINE p == Peer(s)
  <2>1. p \in Roles
    BY PeerFacts
  <2>2. stream[s] = <<>> /\ sent[s] = <<>> /\ delivered[p] = <<>> /\ Len(<<>>) = 0
    BY <1>2, <2>1, EmptySeq
  <2>3. /\ ~Told(conn[s]) /\ conn[s].unsent = 0 /\ conn[p].inbound = 0
        /\ conn[p].stage = "handshake"
    BY <1>3, <2>1
  <2>4. Counted(s) /\ Silent(s)
    BY <2>2, <2>3 DEF Counted, Silent
  <2>5. Framed(s) /\ HeaderFits(s) /\ Fresh(s)
    BY <2>2, <2>3 DEF Framed, HeaderFits, Fresh
  <2>6. Prefix(s)
    BY <2>2 DEF Prefix
  <2>. QED BY <2>4, <2>5, <2>6 DEF Direction
<1>6. Agreed
  BY <1>3, PeerFacts DEF Agreed
<1>. QED BY <1>3, <1>4, <1>5, <1>6 DEF IInv

LEMMA StepGood == ASSUME IInv, [Next]_vars
                  PROVE  IInv'
<1>1. ASSUME NEW s \in Roles, SideStep(s)
      PROVE  IInv'
  <2>1. CASE StartSide(s) \/ Queue(s) \/ CloseSide(s)
    BY <2>1, StartGood, QueueGood, CloseGood
  <2>2. CASE Readable(s) \/ ReadableEOF(s) \/ ReadableError(s) \/ Writable(s)
    BY <2>2, ReadGood, WritableGood
  <2>3. CASE ParseStop(s) \/ ParseHandshake(s) \/ ParseHeader(s)
    BY <2>3, ParseStopGood, ParseHandshakeGood, ParseHeaderGood
  <2>4. CASE ParseData(s) \/ CallbackReturn(s)
    BY <2>4, ParseDataGood, CallbackReturnGood
  <2>. QED BY <1>1, <2>1, <2>2, <2>3, <2>4 DEF SideStep, ParseTurn
<1>2. CASE UNCHANGED vars
  <2>1. /\ conn' = conn /\ stream' = stream /\ compatible' = compatible
        /\ sent' = sent /\ delivered' = delivered
    BY <1>2 DEF vars
  <2>2. Typed' /\ Agreed'
    BY <2>1 DEF IInv, Typed, Agreed
  <2>3. ASSUME NEW s \in Roles
        PROVE  Own(conn'[s], s) /\ Direction(s)'
    <3>1. Own(conn[s], s) /\ Direction(s)
      BY DEF IInv
    <3>2. Counted(s)' /\ Silent(s)' /\ HeaderFits(s)' /\ Fresh(s)' /\ Prefix(s)'
      BY <2>1, <3>1 DEF Direction, Counted, Silent, HeaderFits, Fresh, Prefix
    <3>3. Framed(s)'
      <4>1. Due(s)' = Due(s) /\ Parsed(s)' = Parsed(s) /\ FrameSizes(s)' = FrameSizes(s)
        BY <2>1 DEF Due, Parsed, FrameSizes
      <4>. QED BY <2>1, <3>1, <4>1 DEF Direction, Framed
    <3>. QED BY <2>1, <3>1, <3>2, <3>3 DEF Direction
  <2>. QED BY <2>2, <2>3 DEF IInv
<1>3. CASE Next
  <2>1. PICK s \in Roles : SideStep(s)
    BY <1>3 DEF Next, SideStep
  <2>. QED BY <1>1, <2>1
<1>. QED BY <1>2, <1>3

\* The invariant the theorems below are read off.
LEMMA Invariance == Spec => []IInv
<1>1. Init => IInv
  BY InitGood
<1>2. IInv /\ [Next]_vars => IInv'
  BY StepGood
<1>. QED BY <1>1, <1>2, PTL DEF Spec

\* The history variable the liveness properties read is a truth value.
LEMMA CutTyped == Spec => [](cut \in BOOLEAN)
<1>1. Init => cut \in BOOLEAN
  BY DEF Init
<1>2. cut \in BOOLEAN /\ [Next]_vars => (cut \in BOOLEAN)'
  <2> SUFFICES ASSUME cut \in BOOLEAN, [Next]_vars
               PROVE  (cut \in BOOLEAN)'
    OBVIOUS
  <2>1. ASSUME NEW s \in Roles, NEW d, Flushed(s, d)
        PROVE  (cut \in BOOLEAN)'
    BY <2>1 DEF Flushed, SendFailed
  <2>2. ASSUME NEW s \in Roles, StartSide(s) \/ Queue(s) \/ CloseSide(s) \/ Writable(s)
        PROVE  (cut \in BOOLEAN)'
    BY <2>1, <2>2 DEF StartSide, Queue, CloseSide, Writable
  <2>3. ASSUME NEW s \in Roles, Readable(s) \/ ReadableEOF(s) \/ ReadableError(s)
        PROVE  (cut \in BOOLEAN)'
    BY <2>3 DEF Readable, ReadableEOF, ReadableError
  <2>4. ASSUME NEW s \in Roles, ParseStop(s) \/ ParseHeader(s) \/ ParseData(s)
        PROVE  (cut \in BOOLEAN)'
    BY <2>4 DEF ParseStop, ParseHeader, ParseData
  <2>5. ASSUME NEW s \in Roles, ParseHandshake(s) \/ CallbackReturn(s)
        PROVE  (cut \in BOOLEAN)'
    BY <2>1, <2>5 DEF ParseHandshake, CallbackReturn
  <2>6. CASE UNCHANGED vars
    BY <2>6 DEF vars
  <2>7. CASE Next
    BY <2>2, <2>3, <2>4, <2>5, <2>7 DEF Next, ParseTurn
  <2>. QED BY <2>6, <2>7
<1>. QED BY <1>1, <1>2, PTL DEF Spec

-----------------------------------------------------------------------------
(* The theorems.                                                           *)

\* The two ends account for the same bytes, whatever the event loops, the
\* parse loop of parse_inbound() and flush_sends() do in which order.
THEOREM TypeCorrect == Spec => []TypeOK
<1>1. IInv /\ cut \in BOOLEAN => TypeOK
  <2> SUFFICES ASSUME IInv, cut \in BOOLEAN
               PROVE  TypeOK
    OBVIOUS
  <2>1. conn \in [Roles -> Connections] /\ compatible \in BOOLEAN
    BY DEF IInv, Typed
  <2>2. ASSUME NEW s \in Roles
        PROVE  /\ InSockets(s) >= 0
               /\ \A i \in 1..Len(stream[s]) :
                    stream[s][i][1] \in 0..RejectFrame /\ stream[s][i][2] \in Nat \ {0}
               /\ Len(sent[s]) <= MaxMessages /\ Len(delivered[s]) <= MaxMessages
    <3> DEFINE p == Peer(s)
    <3>1. p \in Roles /\ Peer(p) = s /\ s \in Roles
      BY PeerFacts
    <3>2. /\ stream[s] \in Seq(Bytes) /\ sent[p] \in Seq(Transaction)
          /\ delivered[s] \in Seq(Transaction)
          /\ conn[s] \in Connections /\ conn[p] \in Connections
          /\ Len(sent[s]) <= MaxMessages /\ Len(sent[p]) <= MaxMessages
      BY <3>1 DEF IInv, Typed
    <3>3. InSockets(s) >= 0
      <4>1. Counted(s)
        BY DEF IInv, Direction
      <4>2. /\ conn[s].unsent \in Nat /\ conn[p].inbound \in Nat /\ Len(stream[s]) \in Nat
        BY <3>2, CountFacts
      <4>. QED BY <4>1, <4>2 DEF Counted, InSockets
    <3>4. \A i \in 1..Len(stream[s]) : stream[s][i] \in Bytes
      BY <3>2
    <3>5. Len(delivered[s]) <= MaxMessages
      <4>1. Prefix(p)
        BY <3>1 DEF IInv, Direction
      <4>2. Len(delivered[s]) <= Len(sent[p])
        BY <3>1, <4>1 DEF Prefix
      <4>3. Len(delivered[s]) \in Nat /\ Len(sent[p]) \in Nat
        BY <3>2
      <4>. QED BY <3>2, <4>2, <4>3, SizeFacts
    <3>. QED BY <3>2, <3>3, <3>4, <3>5 DEF Bytes
  <2>. QED BY <2>1, <2>2 DEF TypeOK
<1>. QED BY <1>1, Invariance, CutTyped, PTL

\* parse_inbound() never reads a header from the middle of a body, nor a body
\* from a header, however send() and receive() split the bytes and whatever
\* the callbacks queue.
THEOREM FramesStayAligned == Spec => []FramesAligned
<1>1. IInv => FramesAligned
  <2> SUFFICES ASSUME IInv, NEW s \in Roles
               PROVE  /\ CanParse(conn[s], "header") =>
                           \E n \in Keys :
                             Front(Peer(s), HeaderSize) = FrameBytes(n, HeaderSize)
                      /\ CanParse(conn[s], "data") =>
                           Head(stream[Peer(s)]) = <<conn[s].header.key, HeaderSize + 1>>
    BY DEF FramesAligned
  <2>1. ASSUME CanParse(conn[s], "header")
        PROVE  \E n \in Keys : Front(Peer(s), HeaderSize) = FrameBytes(n, HeaderSize)
    <3> DEFINE n == Len(delivered[s]) + 1
    <3>1. n \in Keys /\ Front(Peer(s), HeaderSize) = FrameBytes(n, HeaderSize)
      BY <2>1, HeaderAtFront
    <3> HIDE DEF n
    <3>. QED BY <3>1
  <2>2. ASSUME CanParse(conn[s], "data")
        PROVE  Head(stream[Peer(s)]) = <<conn[s].header.key, HeaderSize + 1>>
    BY <2>2, BodyAtFront
  <2>. QED BY <2>1, <2>2
<1>. QED BY <1>1, Invariance, PTL

\* The client is established only with a server that accepted it, and then
\* speaks the server's version.
THEOREM HandshakesAgree == Spec => []HandshakeAgreement
<1>1. IInv => HandshakeAgreement
  <2> SUFFICES ASSUME IInv
               PROVE  HandshakeAgreement
    OBVIOUS
  <2>1. conn["client"].shook => Told(conn["server"])
    BY PeerFacts DEF IInv, Agreed
  <2>2. conn["server"].role = "server" /\ (conn["server"].shook => compatible)
    BY PeerFacts DEF IInv, Agreed, Own
  <2>. QED BY <2>1, <2>2 DEF HandshakeAgreement, Told
<1>. QED BY <1>1, Invariance, PTL

-----------------------------------------------------------------------------
(* The pair implements TransactionChannel.                                 *)

\* What was not given to the application yet, after one more was queued.
LEMMA PendingAppend ==
  ASSUME NEW S, NEW w \in Seq(S), NEW e \in S, NEW k \in 0..Len(w)
  PROVE  SubSeq(Append(w, e), k + 1, Len(Append(w, e))) = Append(SubSeq(w, k + 1, Len(w)), e)
<1> DEFINE a == Append(w, e)
           v == SubSeq(w, k + 1, Len(w))
           l == SubSeq(a, k + 1, Len(a))
           r == Append(v, e)
<1>1. /\ a \in Seq(S) /\ Len(a) = Len(w) + 1 /\ a[Len(w) + 1] = e /\ Len(w) \in Nat
      /\ \A i \in 1..Len(w) : a[i] = w[i]
  BY AppendProperties
<1>2. /\ v \in Seq(S) /\ Len(v) = Len(w) - k /\ \A i \in 1..(Len(w) - k) : v[i] = w[i + k]
  OBVIOUS
<1> HIDE DEF a, v
<1>3. /\ r \in Seq(S) /\ Len(r) = (Len(w) - k) + 1 /\ r[(Len(w) - k) + 1] = e
      /\ \A i \in 1..(Len(w) - k) : r[i] = v[i]
  BY <1>2, AppendProperties
<1>4. /\ l \in Seq(S) /\ Len(l) = (Len(w) + 1) - k
      /\ \A i \in 1..((Len(w) + 1) - k) : l[i] = a[i + k]
  <2>1. k \in 0..Len(a)
    BY <1>1
  <2>. QED BY <1>1, <2>1
<1> HIDE DEF l, r
<1>5. Len(l) = Len(r) /\ Len(r) = (Len(w) - k) + 1
  BY <1>1, <1>3, <1>4
<1>6. ASSUME NEW i \in 1..Len(l)
      PROVE  l[i] = r[i]
  <2>1. CASE i = (Len(w) - k) + 1
    <3>1. i \in 1..((Len(w) + 1) - k) /\ i + k = Len(w) + 1
      BY <1>1, <2>1
    <3>. QED BY <1>1, <1>3, <1>4, <2>1, <3>1
  <2>2. CASE i # (Len(w) - k) + 1
    <3>1. i \in 1..(Len(w) - k) /\ i \in 1..((Len(w) + 1) - k) /\ i + k \in 1..Len(w)
      BY <1>1, <1>5, <2>2
    <3>. QED BY <1>1, <1>2, <1>3, <1>4, <3>1
  <2>. QED BY <2>1, <2>2
<1>7. l = r
  BY <1>3, <1>4, <1>5, <1>6, SeqEqual
<1>. QED BY <1>7 DEF l, r, a, v

\* ... and after the first of it was given to the application.
LEMMA PendingTail ==
  ASSUME NEW S, NEW w \in Seq(S), NEW k \in Nat, k + 1 \in 1..Len(w)
  PROVE  /\ SubSeq(w, k + 1, Len(w)) # <<>>
         /\ Head(SubSeq(w, k + 1, Len(w))) = w[k + 1]
         /\ Tail(SubSeq(w, k + 1, Len(w))) = SubSeq(w, (k + 1) + 1, Len(w))
<1> DEFINE v == SubSeq(w, k + 1, Len(w))
           l == Tail(v)
           r == SubSeq(w, (k + 1) + 1, Len(w))
<1>1. /\ v \in Seq(S) /\ Len(v) = Len(w) - k /\ Len(w) \in Nat
      /\ \A i \in 1..(Len(w) - k) : v[i] = w[i + k]
  OBVIOUS
<1>2. /\ r \in Seq(S) /\ Len(r) = Len(w) - (k + 1)
      /\ \A i \in 1..(Len(w) - (k + 1)) : r[i] = w[i + (k + 1)]
  OBVIOUS
<1> HIDE DEF v, r
<1>3. v # <<>> /\ Head(v) = w[k + 1]
  <2>1. 1 \in 1..(Len(w) - k) /\ 1 + k = k + 1 /\ Len(v) # 0
    BY <1>1
  <2>2. v # <<>>
    BY <2>1, EmptySeq
  <2>. QED BY <1>1, <2>1, <2>2
<1>4. /\ l \in Seq(S) /\ Len(l) = Len(v) - 1
      /\ \A i \in 1..(Len(v) - 1) : l[i] = v[i + 1]
  BY <1>1, <1>3, HeadTailProperties
<1> HIDE DEF l
<1>5. Len(l) = Len(r)
  BY <1>1, <1>2, <1>4
<1>6. ASSUME NEW i \in 1..Len(l)
      PROVE  l[i] = r[i]
  <2>1. /\ i \in 1..(Len(v) - 1) /\ i + 1 \in 1..(Len(w) - k)
        /\ i \in 1..(Len(w) - (k + 1)) /\ (i + 1) + k = i + (k + 1)
    BY <1>1, <1>4
  <2>. QED BY <1>1, <1>2, <1>4, <2>1
<1>7. l = r
  BY <1>2, <1>4, <1>5, <1>6, SeqEqual
<1>. QED BY <1>3, <1>7 DEF l, r, v

\* A step of side s leaves its peer alone, and revives nobody.
LEMMA StaysDead ==
  ASSUME IInv, NEW s \in Roles, SideStep(s)
  PROVE  /\ \A r \in Roles \ {s} : conn'[r] = conn[r]
         /\ conn[s].state = "dead" => conn'[s].state = "dead"
<1>1. /\ conn \in [Roles -> Connections] /\ conn[s] \in Connections /\ Own(conn[s], s)
  BY DEF IInv, Typed
<1>2. ASSUME NEW d, NEW queued, NEW k, Step(s, d, queued, k)
      PROVE  /\ \A r \in Roles \ {s} : conn'[r] = conn[r]
             /\ conn'[s] = d
  BY <1>1, <1>2 DEF Step
<1>3. CASE StartSide(s)
  BY <1>2, <1>3 DEF StartSide
<1>4. CASE Queue(s)
  <2>1. PICK body \in Bodies : \E d \in QueueTransaction(conn[s], body) :
          Step(s, d, FrameBytes(Len(sent[s]) + 1, HeaderSize + body), 0)
    BY <1>4 DEF Queue
  <2> DEFINE n == HeaderSize + body
  <2>2. PICK d \in FlushSends(QueueBytes(conn[s], n)) :
          Step(s, d, FrameBytes(Len(sent[s]) + 1, n), 0)
    BY <2>1 DEF QueueTransaction
  <2>3. n \in Nat
    BY SizeFacts, ConnectionPairAssumption
  <2> HIDE DEF n
  <2>4. Kept(conn[s], d)
    BY <1>1, <2>2, <2>3, QueueFacts
  <2>. QED BY <1>2, <2>2, <2>4 DEF Kept
<1>5. CASE CloseSide(s)
  <2>1. Close(conn[s]).state = conn[s].state
    BY <1>1, CloseFacts
  <2>. QED BY <1>2, <1>5, <2>1 DEF CloseSide
<1>6. CASE Readable(s) \/ ReadableEOF(s) \/ ReadableError(s) \/ Writable(s)
  <2>1. conn[s].state # "dead"
    BY <1>6 DEF Readable, ReadableEOF, ReadableError, Writable, CanReceive
  <2>. QED BY <1>2, <1>6, <2>1 DEF Readable, ReadableEOF, ReadableError, Writable
<1>7. CASE ParseStop(s)
  <2>1. StopParsing(conn[s]).state = conn[s].state
    BY <1>1 DEF StopParsing, Connections
  <2>. QED BY <1>2, <1>7, <2>1 DEF ParseStop
<1>8. CASE ParseHandshake(s) \/ ParseHeader(s) \/ ParseData(s)
  <2>1. conn[s].state # "dead"
    BY <1>8 DEF ParseHandshake, ParseHeader, ParseData, CanParse
  <2>2. CASE ParseHandshake(s)
    <3> DEFINE k == conn[s].expected
    <3>1. \/ Step(s, RefuseHandshake(conn[s]), <<>>, k)
          \/ \E d \in RejectVersion(conn[s]) :
               Step(s, d, FrameBytes(RejectFrame, ServerReplySize), k)
          \/ Step(s, AcceptHandshake(conn[s]), IF s = "server" THEN Greeting(s) ELSE <<>>, k)
      BY <2>2 DEF ParseHandshake
    <3> HIDE DEF k
    <3>. QED BY <1>2, <2>1, <3>1
  <2>3. CASE ParseHeader(s)
    BY <1>2, <2>1, <2>3 DEF ParseHeader
  <2>4. CASE ParseData(s)
    BY <1>2, <2>1, <2>4 DEF ParseData
  <2>. QED BY <1>8, <2>2, <2>3, <2>4
<1>9. CASE CallbackReturn(s)
  <2>1. ASSUME conn[s].call = "on_established",
               NEW d \in EstablishedReturns(conn[s]), Step(s, d, <<>>, 0)
        PROVE  /\ conn'[s] = d /\ \A r \in Roles \ {s} : conn'[r] = conn[r]
               /\ conn[s].state = "dead" => d.state = "dead"
    BY <1>1, <1>2, <2>1, EstablishedReturnsFacts
  <2>2. ASSUME conn[s].call = "on_transaction", Step(s, TransactionReturns(conn[s]), <<>>, 0)
        PROVE  /\ conn'[s].state = conn[s].state
               /\ \A r \in Roles \ {s} : conn'[r] = conn[r]
    <3>1. TransactionReturns(conn[s]).state = conn[s].state
      BY <1>1, <2>2, TransactionReturnsFacts
    <3>. QED BY <1>2, <2>2, <3>1
  <2>. QED BY <1>9, <2>1, <2>2 DEF CallbackReturn
<1>. QED BY <1>3, <1>4, <1>5, <1>6, <1>7, <1>8, <1>9 DEF SideStep, ParseTurn

\* The sides that are dead.
Dead == {s \in Roles : conn[s].state = "dead"}

\* The transactions on their way, by the side that queued them.
OnTheWay == [s \in Roles |-> Pending(s)]

LEMMA DeadFacts ==
  ASSUME IInv, NEW s \in Roles, SideStep(s)
  PROVE  Dead' = Dead \/ Dead' = Dead \cup {s}
<1>1. /\ \A r \in Roles \ {s} : conn'[r] = conn[r]
      /\ conn[s].state = "dead" => conn'[s].state = "dead"
  BY StaysDead
<1>. QED BY <1>1 DEF Dead

\* queue_transaction() is Send.
LEMMA QueueSends ==
  ASSUME IInv, NEW s \in Roles, Queue(s)
  PROVE  \E t \in Transaction :
           OnTheWay' = [OnTheWay EXCEPT ![s] = Append(@, t)] /\ delivered' = delivered
<1> DEFINE frame == Len(sent[s]) + 1
<1>1. PICK body \in Bodies :
        sent' = [sent EXCEPT ![s] = Append(@, [key |-> frame, size |-> body])]
  BY DEF Queue
<1> DEFINE t == [key |-> frame, size |-> body]
           p == Peer(s)
           k == Len(delivered[p])
<1>2. delivered' = delivered /\ Len(sent[s]) < MaxMessages
  BY DEF Queue, MayQueue
<1>3. /\ sent[s] \in Seq(Transaction) /\ sent \in [Roles -> Seq(Transaction)]
      /\ delivered[p] \in Seq(Transaction) /\ Prefix(s)
  BY PeerFacts DEF IInv, Typed, Direction
<1>4. Len(sent[s]) \in Nat /\ k \in 0..Len(sent[s])
  <2>1. Len(sent[s]) \in Nat /\ k \in Nat
    BY <1>3
  <2>. QED BY <1>3, <2>1 DEF Prefix
<1>5. t \in Transaction
  BY <1>2, <1>4, SizeFacts DEF Transaction
<1>6. sent' = [sent EXCEPT ![s] = Append(sent[s], t)]
  BY <1>1
<1> HIDE DEF t, frame, k
<1>7. sent'[s] = Append(sent[s], t) /\ \A r \in Roles \ {s} : sent'[r] = sent[r]
  BY <1>3, <1>6
<1>8. Pending(s)' = Append(Pending(s), t)
  <2>1. SubSeq(Append(sent[s], t), k + 1, Len(Append(sent[s], t)))
          = Append(SubSeq(sent[s], k + 1, Len(sent[s])), t)
    BY <1>3, <1>4, <1>5, PendingAppend
  <2>2. Pending(s)' = SubSeq(Append(sent[s], t), k + 1, Len(Append(sent[s], t)))
    BY <1>2, <1>7, Zenon DEF Pending, k
  <2>3. Pending(s) = SubSeq(sent[s], k + 1, Len(sent[s]))
    BY Zenon DEF Pending, k
  <2>. QED BY <2>1, <2>2, <2>3, Zenon
<1>9. \A r \in Roles \ {s} : Pending(r)' = Pending(r)
  BY <1>2, <1>7 DEF Pending
<1>10. OnTheWay' = [OnTheWay EXCEPT ![s] = Append(@, t)]
  BY <1>8, <1>9 DEF OnTheWay
<1>. QED BY <1>2, <1>5, <1>10

\* on_transaction is Deliver.
LEMMA ParseDataDelivers ==
  ASSUME IInv, NEW s \in Roles, ParseData(s)
  PROVE  /\ s \notin Dead /\ OnTheWay[Peer(s)] # <<>>
         /\ delivered' = [delivered EXCEPT ![s] = Append(@, Head(OnTheWay[Peer(s)]))]
         /\ OnTheWay' = [OnTheWay EXCEPT ![Peer(s)] = Tail(@)]
         /\ Dead' = Dead
<1> DEFINE q == Peer(s)
           k == Len(delivered[s])
           w == sent[q]
<1>1. /\ q \in Roles /\ Peer(q) = s /\ q # s /\ w \in Seq(Transaction)
      /\ delivered \in [Roles -> Seq(Transaction)] /\ delivered[s] \in Seq(Transaction)
      /\ Own(conn[s], s) /\ conn \in [Roles -> Connections]
  BY PeerFacts DEF IInv, Typed
<1>2. k \in Nat
  BY <1>1
<1>3. /\ k + 1 \in 1..Len(w) /\ delivered' = [delivered EXCEPT ![s] = Append(delivered[s], w[k + 1])]
  BY ParseDataFacts
<1>4. Pending(q) = SubSeq(w, k + 1, Len(w))
  BY <1>1, Zenon DEF Pending
<1>5. /\ Pending(q) # <<>> /\ Head(Pending(q)) = w[k + 1]
      /\ Tail(Pending(q)) = SubSeq(w, (k + 1) + 1, Len(w))
  <2> HIDE DEF w, k
  <2>. QED BY <1>1, <1>2, <1>3, <1>4, PendingTail
<1>6. OnTheWay[q] = Pending(q)
  BY <1>1 DEF OnTheWay
<1>7. /\ sent' = sent /\ delivered'[s] = Append(delivered[s], w[k + 1])
      /\ delivered'[q] = delivered[q] /\ Len(delivered'[s]) = k + 1
  <2>1. w[k + 1] \in Transaction
    BY <1>1, <1>3
  <2>2. delivered'[s] = Append(delivered[s], w[k + 1]) /\ delivered'[q] = delivered[q]
    BY <1>1, <1>3
  <2>. QED BY <1>1, <2>1, <2>2, AppendProperties DEF ParseData
<1>8. Pending(q)' = Tail(Pending(q)) /\ Pending(s)' = Pending(s)
  <2>1. Pending(q)' = SubSeq(w, (k + 1) + 1, Len(w))
    BY <1>1, <1>7, Zenon DEF Pending
  <2>2. Pending(s)' = Pending(s)
    BY <1>7, Zenon DEF Pending
  <2>. QED BY <1>5, <2>1, <2>2, Zenon
<1>9. OnTheWay' = [OnTheWay EXCEPT ![q] = Tail(@)]
  <2>1. \A r \in Roles : r = s \/ r = q
    BY PeerFacts DEF Roles, Peer
  <2>. QED BY <1>1, <1>8, <2>1 DEF OnTheWay
<1>10. CanParse(conn[s], "data") /\ Step(s, Dispatch(conn[s]), <<>>, conn[s].header.size)
  BY DEF ParseData
<1>11. s \notin Dead
  BY <1>10 DEF CanParse, Dead
<1>12. Dead' = Dead
  <2> DEFINE d == Dispatch(conn[s])
  <2>1. d.state = conn[s].state
    BY <1>1, <1>10, DispatchFacts
  <2>2. conn' = [conn EXCEPT ![s] = d]
    BY <1>10 DEF Step
  <2> HIDE DEF d
  <2>3. \A r \in Roles : conn'[r].state = conn[r].state
    BY <1>1, <2>1, <2>2
  <2>. QED BY <2>3 DEF Dead
<1>13. delivered' = [delivered EXCEPT ![s] = Append(@, Head(OnTheWay[q]))]
  BY <1>3, <1>5, <1>6
<1>. QED BY <1>5, <1>6, <1>9, <1>11, <1>12, <1>13

\* Whatever queue_transaction(), the event loops and the parse loop do, each
\* application is given a prefix of what the other one queued, once each,
\* whole and in order, and nothing after its side died.
THEOREM ChannelImplemented == Spec => ImplementsChannel
<1>1. Init => Channel!Init
  <2> SUFFICES ASSUME Init
               PROVE  Channel!Init
    OBVIOUS
  <2>1. ASSUME NEW s \in Roles
        PROVE  conn[s].state = "idle" /\ Pending(s) = <<>>
    <3>1. sent[s] = <<>> /\ delivered[Peer(s)] = <<>>
      BY PeerFacts DEF Init
    <3>2. Len(<<>>) = 0 /\ SubSeq(<<>>, 0 + 1, 0) = <<>>
      <4>1. <<>> \in Seq({}) /\ Len(<<>>) = 0
        BY EmptySeq
      <4>2. SubSeq(<<>>, 0 + 1, 0) \in Seq({}) /\ Len(SubSeq(<<>>, 0 + 1, 0)) = 0
        BY <4>1
      <4>. QED BY <4>1, <4>2, EmptySeq
    <3>. QED BY <3>1, <3>2 DEF Init, NewConnection, Pending
  <2>2. delivered = [s \in Roles |-> <<>>]
    BY DEF Init
  <2>. QED BY <2>1, <2>2 DEF Channel!Init
<1>2. ASSUME IInv, [Next]_vars
      PROVE  [Channel!Next]_(Channel!vars)
  <2>1. ASSUME NEW s \in Roles, SideStep(s), UNCHANGED <<sent, delivered>>
        PROVE  [Channel!Next]_(Channel!vars)
    <3>1. OnTheWay' = OnTheWay /\ delivered' = delivered
      BY <2>1 DEF OnTheWay, Pending
    <3>2. Dead' = Dead \/ Dead' = Dead \cup {s}
      BY <1>2, <2>1, DeadFacts
    <3>3. CASE Dead' = Dead
      BY <3>1, <3>3 DEF Channel!vars, OnTheWay, Dead
    <3>4. CASE Dead' = Dead \cup {s}
      BY <2>1, <3>1, <3>4 DEF Channel!Next, Channel!Break, OnTheWay, Dead
    <3>. QED BY <3>2, <3>3, <3>4
  <2>2. ASSUME NEW s \in Roles, Queue(s)
        PROVE  [Channel!Next]_(Channel!vars)
    <3>1. PICK t \in Transaction :
            OnTheWay' = [OnTheWay EXCEPT ![s] = Append(@, t)] /\ delivered' = delivered
      BY <1>2, <2>2, QueueSends
    <3>2. Dead' = Dead \/ Dead' = Dead \cup {s}
      BY <1>2, <2>2, DeadFacts DEF SideStep
    <3>3. Channel!Send(s, t)
      BY <3>1, <3>2 DEF Channel!Send, Channel!Break, OnTheWay, Dead
    <3>. QED BY <3>3 DEF Channel!Next
  <2>3. ASSUME NEW s \in Roles, ParseData(s)
        PROVE  [Channel!Next]_(Channel!vars)
    <3>1. /\ s \notin Dead /\ OnTheWay[Peer(s)] # <<>>
          /\ delivered' = [delivered EXCEPT ![s] = Append(@, Head(OnTheWay[Peer(s)]))]
          /\ OnTheWay' = [OnTheWay EXCEPT ![Peer(s)] = Tail(@)]
          /\ Dead' = Dead
      BY <1>2, <2>3, ParseDataDelivers
    <3>2. Channel!Deliver(s)
      BY <3>1 DEF Channel!Deliver, OnTheWay, Dead
    <3>. QED BY <3>2 DEF Channel!Next
  <2>4. CASE UNCHANGED vars
    <3>1. OnTheWay' = OnTheWay /\ delivered' = delivered /\ Dead' = Dead
      BY <2>4 DEF vars, OnTheWay, Pending, Dead
    <3>. QED BY <3>1 DEF Channel!vars, OnTheWay, Dead
  <2>5. CASE Next
    <3>1. PICK s \in Roles : SideStep(s)
      BY <2>5 DEF Next, SideStep
    <3>2. Queue(s) \/ ParseData(s) \/ UNCHANGED <<sent, delivered>>
      BY <3>1 DEF SideStep, ParseTurn, StartSide, CloseSide, Readable, ReadableEOF,
                  ReadableError, Writable, ParseStop, ParseHandshake, ParseHeader,
                  CallbackReturn
    <3>. QED BY <2>1, <2>2, <2>3, <3>1, <3>2
  <2>. QED BY <1>2, <2>4, <2>5
<1>3. Spec => Channel!Spec
  BY <1>1, <1>2, Invariance, PTL DEF Spec, Channel!Spec
<1>. QED BY <1>3 DEF ImplementsChannel
=============================================================================
