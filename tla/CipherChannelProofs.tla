------------------------- MODULE CipherChannelProofs -------------------------
(* Both ends of a connection stay in step and no mask is used twice, for     *)
(* every size of block, header and data, every choice of flags and any       *)
(* number of transactions.                                                   *)
(*                                                                           *)
(* InStep looks at the head of the wire; what makes it inductive is that the *)
(* whole wire hangs together: each transaction was made from the stream that *)
(* the one before it left behind, the first from the stream the receiver has *)
(* now and the last left the sender's, and the plaintext ends exactly at the *)
(* transaction on which the receiver installs its hooks.                     *)
EXTENDS CipherChannel, SequenceTheorems, FiniteSetTheorems, TLAPS

AfterHeader(stream) == ProcessHeader(stream).after
AfterData(stream, size, flag) == ProcessData(stream, size, flag).after

\* The stream behind a transaction; plaintext leaves it where it was.
AfterFrame(frame) ==
  IF frame.hooks THEN AfterData(AfterHeader(frame.from), frame.size, frame.flag)
  ELSE frame.from

\* The transactions of a wire, from the stream start to the stream end.
Chain(w, start, end) ==
  IF w = <<>> THEN start = end
  ELSE /\ w[1].from = start
       /\ \A i \in 1..(Len(w) - 1) : w[i + 1].from = AfterFrame(w[i])
       /\ end = AfterFrame(w[Len(w)])

\* What a receiver has to expect of a wire: it is plaintext up to and with
\* the mark, and encoded behind it.
Has(w, mark) == \E i \in 1..Len(w) : w[i].kind = mark
Marked(w, mark, s, secured) ==
  \A i \in 1..Len(w) :
    /\ w[i].kind \in {"data", mark}
    /\ w[i].kind = mark => ~w[i].hooks
    /\ w[i].hooks <=> s \in secured \/ \E j \in 1..(i - 1) : w[j].kind = mark

Mark(s) == IF s = "client" THEN "answer" ELSE "ask"

Linked(s) ==
  LET w == wire[Peer(s)]
  IN  IF pending[s] = NoHeader THEN Chain(w, decoder[s], encoder[Peer(s)])
      ELSE /\ w # <<>>
           /\ Chain(w, w[1].from, encoder[Peer(s)])
           /\ decoder[s] = IF w[1].hooks THEN AfterHeader(w[1].from) ELSE w[1].from
           /\ pending[s] = IF w[1].hooks THEN w[1].flag ELSE 0

AllLinked == \A s \in Roles : s \notin dead => Linked(s)
AllMarked == \A s \in Roles : Marked(wire[Peer(s)], Mark(s), s, secure)

\* The order of the login: asked, secured on the server, answered, secured on
\* the client.
Handover ==
  /\ ~asked => ~Has(wire["client"], "ask") /\ "server" \notin secure
  /\ "server" \in secure <=> "client" \in secure \/ Has(wire["server"], "answer")

IInv == TypeOK /\ AllLinked /\ AllMarked /\ Handover

-----------------------------------------------------------------------------
(* The streams.                                                            *)

\* Blocks of a stream are made with its keys, whatever their number.
LEMMA BlockTyped ==
  ASSUME NEW stream \in Streams, NEW n \in Nat
  PROVE  Block(stream, n) \in Seq(Keys)
<1> DEFINE made == NewBlocks(stream, n)
<1>1. made \in Int
  BY CipherChannelAssumption DEF NewBlocks, Streams
<1> HIDE DEF made
<1>2. [b \in 1..made |-> stream.key] \in Seq(Keys)
  <2>1. stream.key \in Keys
    BY DEF Streams
  <2>2. CASE made \in Nat
    BY <2>1, <2>2
  <2>3. CASE made \notin Nat
    <3>1. 1..made = 1..0
      BY <1>1, <2>3
    <3>2. [b \in 1..made |-> stream.key] \in [1..made -> Keys]
      BY <2>1
    <3>3. [b \in 1..made |-> stream.key] \in [1..0 -> Keys]
      BY <3>1, <3>2, Zenon
    <3> DEFINE keys == [b \in 1..made |-> stream.key]
    <3>4. keys \in Seq(Keys)
      <4> HIDE DEF keys
      <4>1. keys \in [1..0 -> Keys] /\ 0 \in Nat
        BY <3>3 DEF keys
      <4>. QED BY <4>1, SeqDef
    <3>. QED BY <3>4
  <2>. QED BY <2>2, <2>3
<1>3. stream.iv \in Seq(Keys)
  BY DEF Streams
<1>4. Block(stream, n) = stream.iv \o [b \in 1..made |-> stream.key]
  BY DEF Block, made
<1>. QED BY <1>2, <1>3, <1>4, ConcatProperties

LEMMA ProcessTyped ==
  ASSUME NEW stream \in Streams, NEW n \in Nat
  PROVE  Process(stream, n).after \in Streams
<1> DEFINE offset == (stream.offset + n) % BlockSize
<1>1. offset \in 0..(BlockSize - 1)
  BY CipherChannelAssumption DEF Streams
<1> HIDE DEF offset
<1>2. Process(stream, n).after = [stream EXCEPT !.iv = Block(stream, n), !.offset = offset]
  BY DEF Process, offset
<1>. QED BY <1>1, <1>2, BlockTyped DEF Streams

LEMMA PermuteTyped ==
  ASSUME NEW stream \in Streams, NEW flag \in Nat
  PROVE  Permute(stream, flag) \in Streams
BY DEF Permute, Streams, Keys

\* A transaction leaves a stream behind, whatever its size and flag.
LEMMA AfterTyped ==
  ASSUME NEW stream \in Streams, NEW size \in Nat, NEW flag \in Nat
  PROVE  AfterHeader(stream) \in Streams /\ AfterData(stream, size, flag) \in Streams
<1>1. AfterHeader(stream) \in Streams
  BY ProcessTyped, CipherChannelAssumption DEF AfterHeader, ProcessHeader
<1>2. AfterData(stream, size, flag) \in Streams
  <2>1. CASE size = 0 \/ flag = 0
    BY <2>1, ProcessTyped DEF AfterData, ProcessData
  <2>2. CASE ~ (size = 0 \/ flag = 0)
    <3> DEFINE prefix == IF size < OldKeyBytes THEN size ELSE OldKeyBytes
               first  == Process(stream, prefix).after
    <3>1. prefix \in Nat /\ size - prefix \in Nat
      BY CipherChannelAssumption
    <3>2. AfterData(stream, size, flag) = Process(Permute(first, flag), size - prefix).after
      BY <2>2 DEF AfterData, ProcessData
    <3> HIDE DEF prefix
    <3>3. first \in Streams
      BY <3>1, ProcessTyped
    <3> HIDE DEF first
    <3>. QED BY <3>1, <3>2, <3>3, PermuteTyped, ProcessTyped
  <2>. QED BY <2>1, <2>2
<1>. QED BY <1>1, <1>2

-----------------------------------------------------------------------------
(* The wire.                                                               *)

\* What is queued from the sender's stream hangs on to the rest.
LEMMA ChainAppend ==
  ASSUME NEW w \in Seq(Frames), NEW start, NEW end, Chain(w, start, end),
         NEW frame \in Frames, frame.from = end
  PROVE  Chain(Append(w, frame), start, AfterFrame(frame))
<1> DEFINE v == Append(w, frame)
<1>1. /\ v \in Seq(Frames) /\ v # <<>>
      /\ Len(v) = Len(w) + 1 /\ Len(w) \in Nat
      /\ \A i \in 1..Len(w) : v[i] = w[i]
      /\ v[Len(w) + 1] = frame
  OBVIOUS
<1> HIDE DEF v
<1>2. CASE w = <<>>
  <2>1. Len(w) = 0
    BY <1>2
  <2>. QED BY <1>1, <1>2, <2>1 DEF Chain
<1>3. CASE w # <<>>
  <2>1. Len(w) >= 1
    BY <1>3
  <2>2. v[1].from = start
    BY <1>1, <1>3, <2>1 DEF Chain
  <2>3. ASSUME NEW i \in 1..(Len(v) - 1)
        PROVE  v[i + 1].from = AfterFrame(v[i])
    <3>1. CASE i = Len(w)
      BY <1>1, <1>3, <2>1, <3>1 DEF Chain
    <3>2. CASE i # Len(w)
      <4>1. i \in 1..(Len(w) - 1) /\ i \in 1..Len(w) /\ i + 1 \in 1..Len(w)
        BY <1>1, <3>2
      <4>2. w[i + 1].from = AfterFrame(w[i])
        BY <1>3, <4>1 DEF Chain
      <4>. QED BY <1>1, <4>1, <4>2
    <3>. QED BY <3>1, <3>2
  <2>. QED BY <1>1, <2>2, <2>3 DEF Chain
<1>. QED BY <1>2, <1>3 DEF v

\* The elements of a wire from which the first was taken.
LEMMA TailElements ==
  ASSUME NEW w \in Seq(Frames), w # <<>>
  PROVE  /\ Tail(w) \in Seq(Frames) /\ Len(w) \in Nat \ {0}
         /\ Len(Tail(w)) = Len(w) - 1
         /\ \A i \in 1..(Len(w) - 1) : Tail(w)[i] = w[i + 1]
         /\ Head(w) = w[1] /\ w[1] \in Frames
  OBVIOUS

\* What is left is a chain from where the first transaction ended.
LEMMA ChainTail ==
  ASSUME NEW w \in Seq(Frames), w # <<>>, NEW start, NEW end, Chain(w, start, end)
  PROVE  Chain(Tail(w), AfterFrame(w[1]), end)
<1> DEFINE v == Tail(w)
<1>1. /\ v \in Seq(Frames) /\ Len(w) \in Nat \ {0}
      /\ Len(v) = Len(w) - 1
      /\ \A i \in 1..(Len(w) - 1) : v[i] = w[i + 1]
  BY TailElements
<1> HIDE DEF v
<1>2. ASSUME v = <<>>
      PROVE  Chain(v, AfterFrame(w[1]), end)
  <2>1. Len(w) = 1
    BY <1>1, <1>2
  <2>. QED BY <1>2, <2>1 DEF Chain
<1>3. ASSUME v # <<>>
      PROVE  Chain(v, AfterFrame(w[1]), end)
  <2>1. Len(v) >= 1
    BY <1>1, <1>3
  <2>2. v[1].from = AfterFrame(w[1])
    BY <1>1, <2>1 DEF Chain
  <2>3. ASSUME NEW i \in 1..(Len(v) - 1)
        PROVE  v[i + 1].from = AfterFrame(v[i])
    <3>1. i \in 1..(Len(w) - 1) /\ i + 1 \in 1..(Len(w) - 1)
      BY <1>1
    <3>2. v[i] = w[i + 1] /\ v[i + 1] = w[(i + 1) + 1]
      BY <1>1, <3>1
    <3>3. w[(i + 1) + 1].from = AfterFrame(w[i + 1])
      BY <3>1 DEF Chain
    <3>. QED BY <3>2, <3>3
  <2>4. v[Len(v)] = w[Len(w)]
    BY <1>1, <2>1
  <2>5. end = AfterFrame(v[Len(v)])
    BY <2>4 DEF Chain
  <2>. QED BY <1>3, <2>2, <2>3, <2>5 DEF Chain
<1>. QED BY <1>2, <1>3 DEF v

\* Plaintext may be queued up to the mark, and only what is encoded behind it.
LEMMA MarkedAppend ==
  ASSUME NEW w \in Seq(Frames), NEW mark, NEW s, NEW secured, Marked(w, mark, s, secured),
         NEW frame \in Frames,
         frame.kind \in {"data", mark},
         frame.kind = mark => ~frame.hooks,
         frame.hooks <=> s \in secured \/ Has(w, mark)
  PROVE  /\ Marked(Append(w, frame), mark, s, secured)
         /\ Has(Append(w, frame), mark) <=> Has(w, mark) \/ frame.kind = mark
<1> DEFINE v == Append(w, frame)
<1>1. /\ Len(v) = Len(w) + 1 /\ Len(w) \in Nat
      /\ \A i \in 1..Len(w) : v[i] = w[i]
      /\ v[Len(w) + 1] = frame
  OBVIOUS
<1> HIDE DEF v
<1>2. ASSUME NEW i \in 1..Len(v)
      PROVE  /\ v[i].kind \in {"data", mark}
             /\ v[i].kind = mark => ~v[i].hooks
             /\ v[i].hooks <=> s \in secured \/ \E j \in 1..(i - 1) : v[j].kind = mark
  <2>1. CASE i = Len(w) + 1
    <3>1. (\E j \in 1..(i - 1) : v[j].kind = mark) <=> Has(w, mark)
      BY <1>1, <2>1 DEF Has
    <3>. QED BY <1>1, <2>1, <3>1
  <2>2. CASE i # Len(w) + 1
    <3>1. i \in 1..Len(w) /\ v[i] = w[i] /\ \A j \in 1..(i - 1) : v[j] = w[j]
      BY <1>1, <2>2
    <3>. QED BY <3>1 DEF Marked
  <2>. QED BY <2>1, <2>2
<1>3. Has(v, mark) <=> Has(w, mark) \/ frame.kind = mark
  <2>1. 1..Len(v) = 1..Len(w) \cup {Len(w) + 1}
    BY <1>1
  <2>. QED BY <1>1, <2>1 DEF Has
<1>4. Marked(v, mark, s, secured)
  BY <1>2 DEF Marked
<1>. QED BY <1>3, <1>4 DEF v

\* Behind the mark everything is encoded.
LEMMA MarkedTail ==
  ASSUME NEW w \in Seq(Frames), w # <<>>,
         NEW mark, NEW s, NEW secured, Marked(w, mark, s, secured),
         NEW after, s \in after <=> s \in secured \/ w[1].kind = mark
  PROVE  /\ Marked(Tail(w), mark, s, after)
         /\ Has(w, mark) <=> w[1].kind = mark \/ Has(Tail(w), mark)
<1> DEFINE v == Tail(w)
<1>1. /\ Len(w) \in Nat \ {0} /\ Len(v) = Len(w) - 1
      /\ \A i \in 1..(Len(w) - 1) : v[i] = w[i + 1]
  BY TailElements
<1> HIDE DEF v
<1>2. ASSUME NEW i \in 1..Len(v)
      PROVE  /\ v[i].kind \in {"data", mark}
             /\ v[i].kind = mark => ~v[i].hooks
             /\ v[i].hooks <=> s \in after \/ \E j \in 1..(i - 1) : v[j].kind = mark
  <2>1. i + 1 \in 1..Len(w) /\ v[i] = w[i + 1]
    BY <1>1
  <2>2. (\E j \in 1..((i + 1) - 1) : w[j].kind = mark)
          <=> w[1].kind = mark \/ \E j \in 1..(i - 1) : v[j].kind = mark
    <3>1. ASSUME NEW j \in 1..((i + 1) - 1), w[j].kind = mark, w[1].kind # mark
          PROVE  \E l \in 1..(i - 1) : v[l].kind = mark
      <4>1. j - 1 \in 1..(i - 1) /\ v[j - 1] = w[j]
        BY <1>1, <3>1
      <4>. QED BY <3>1, <4>1
    <3>2. ASSUME NEW j \in 1..(i - 1), v[j].kind = mark
          PROVE  \E l \in 1..((i + 1) - 1) : w[l].kind = mark
      <4>1. j + 1 \in 1..((i + 1) - 1) /\ v[j] = w[j + 1]
        BY <1>1
      <4>. QED BY <3>2, <4>1
    <3>3. 1 \in 1..((i + 1) - 1)
      BY <1>1
    <3>. QED BY <3>1, <3>2, <3>3
  <2>. QED BY <2>1, <2>2 DEF Marked
<1>3. Has(w, mark) <=> w[1].kind = mark \/ Has(v, mark)
  <2>1. ASSUME NEW j \in 1..Len(w), w[j].kind = mark, w[1].kind # mark
        PROVE  \E l \in 1..Len(v) : v[l].kind = mark
    <3>1. j - 1 \in 1..Len(v) /\ v[j - 1] = w[j]
      BY <1>1, <2>1
    <3>. QED BY <2>1, <3>1
  <2>2. ASSUME NEW j \in 1..Len(v), v[j].kind = mark
        PROVE  \E l \in 1..Len(w) : w[l].kind = mark
    <3>1. j + 1 \in 1..Len(w) /\ v[j] = w[j + 1]
      BY <1>1
    <3>. QED BY <2>2, <3>1
  <2>3. 1 \in 1..Len(w)
    BY <1>1
  <2>. QED BY <2>1, <2>2, <2>3 DEF Has
<1>4. Marked(v, mark, s, after)
  BY <1>2 DEF Marked
<1>. QED BY <1>3, <1>4 DEF v

-----------------------------------------------------------------------------
(* One direction.                                                          *)

LEMMA RoleFacts ==
  /\ \A s \in Roles : Peer(s) \in Roles /\ Peer(Peer(s)) = s /\ Peer(s) # s
  /\ Peer("client") = "server" /\ Peer("server") = "client"
  /\ "client" \in Roles /\ "server" \in Roles
  /\ \A s \in Roles : s = "client" \/ s = "server"
BY DEF Roles, Peer

\* The next transaction is encoded exactly if the receiver has its hooks.
LEMMA HeadHooks ==
  ASSUME IInv, NEW s \in Roles, wire[Peer(s)] # <<>>
  PROVE  /\ wire[Peer(s)] \in Seq(Frames)
         /\ wire[Peer(s)][1] \in Frames /\ Head(wire[Peer(s)]) = wire[Peer(s)][1]
         /\ wire[Peer(s)][1].hooks <=> s \in secure
<1> DEFINE w == wire[Peer(s)]
<1>1. w \in Seq(Frames)
  BY RoleFacts DEF IInv, TypeOK
<1>2. w # <<>>
  OBVIOUS
<1>3. Marked(w, Mark(s), s, secure)
  BY DEF IInv, AllMarked
<1> HIDE DEF w
<1>4. w[1] \in Frames /\ Head(w) = w[1] /\ 1 \in 1..Len(w)
  BY <1>1, <1>2, TailElements
<1>5. w[1].hooks <=> s \in secure
  BY <1>3, <1>4 DEF Marked
<1>. QED BY <1>1, <1>4, <1>5 DEF w

LEMMA InvImpliesInStep == IInv => InStep
<1> SUFFICES ASSUME IInv, NEW s \in Roles, Arrived(s)
             PROVE  LET frame == Head(wire[Peer(s)])
                    IN  IF pending[s] = NoHeader THEN SentHeader(frame) = HeaderMasks(s)
                        ELSE SentData(frame) = DataMasks(s, frame.size)
  BY DEF InStep
<1> DEFINE w == wire[Peer(s)]
           frame == w[1]
<1>1. w # <<>> /\ Linked(s)
  BY DEF Arrived, IInv, AllLinked
<1>2. Head(wire[Peer(s)]) = frame /\ (frame.hooks <=> s \in secure)
  BY <1>1, HeadHooks
<1>3. CASE pending[s] = NoHeader
  <2>1. frame.from = decoder[s]
    BY <1>1, <1>3 DEF Linked, Chain
  <2>. QED BY <1>2, <1>3, <2>1 DEF SentHeader, HeaderMasks
<1>4. CASE pending[s] # NoHeader
  <2>1. /\ decoder[s] = IF frame.hooks THEN AfterHeader(frame.from) ELSE frame.from
        /\ pending[s] = IF frame.hooks THEN frame.flag ELSE 0
    BY <1>1, <1>4 DEF Linked
  <2>. QED BY <1>2, <1>4, <2>1 DEF SentData, DataMasks, DecodeData, AfterHeader
<1>. QED BY <1>2, <1>3, <1>4

LEMMA LinkedAppend ==
  ASSUME IInv, NEW s \in Roles, s \notin dead,
         NEW frame \in Frames, frame.from = encoder[Peer(s)],
         wire'[Peer(s)] = Append(wire[Peer(s)], frame),
         encoder'[Peer(s)] = AfterFrame(frame),
         decoder'[s] = decoder[s], pending'[s] = pending[s]
  PROVE  Linked(s)'
<1> DEFINE w == wire[Peer(s)]
           v == Append(w, frame)
<1>1. w \in Seq(Frames) /\ Linked(s)
  BY RoleFacts DEF IInv, TypeOK, AllLinked
<1>2. v # <<>> /\ (w # <<>> => v[1] = w[1])
  BY <1>1, AppendProperties, EmptySeq
<1>3. CASE pending[s] = NoHeader
  <2>1. Chain(w, decoder[s], encoder[Peer(s)])
    BY <1>1, <1>3 DEF Linked
  <2>2. Chain(v, decoder[s], AfterFrame(frame))
    BY <1>1, <2>1, ChainAppend
  <2>. QED BY <1>3, <2>2 DEF Linked
<1>4. CASE pending[s] # NoHeader
  <2>1. /\ w # <<>> /\ Chain(w, w[1].from, encoder[Peer(s)])
        /\ decoder[s] = IF w[1].hooks THEN AfterHeader(w[1].from) ELSE w[1].from
        /\ pending[s] = IF w[1].hooks THEN w[1].flag ELSE 0
    BY <1>1, <1>4 DEF Linked
  <2>2. Chain(v, w[1].from, AfterFrame(frame)) /\ v[1] = w[1]
    BY <1>1, <1>2, <2>1, ChainAppend
  <2> HIDE DEF v, w
  <2>3. wire'[Peer(s)] = v
    BY DEF v, w
  <2>. QED BY <1>2, <1>4, <2>1, <2>2, <2>3 DEF Linked
<1>. QED BY <1>3, <1>4

LEMMA LinkedSame ==
  ASSUME IInv, NEW s \in Roles, s \notin dead,
         wire'[Peer(s)] = wire[Peer(s)], encoder'[Peer(s)] = encoder[Peer(s)],
         decoder'[s] = decoder[s], pending'[s] = pending[s]
  PROVE  Linked(s)'
BY DEF IInv, AllLinked, Linked

LEMMA LinkedTail ==
  ASSUME IInv, NEW s \in Roles, s \notin dead, pending[s] # NoHeader,
         wire'[Peer(s)] = Tail(wire[Peer(s)]), encoder'[Peer(s)] = encoder[Peer(s)],
         decoder'[s] = AfterFrame(wire[Peer(s)][1]), pending'[s] = NoHeader
  PROVE  Linked(s)'
<1> DEFINE w == wire[Peer(s)]
<1>1. w \in Seq(Frames) /\ w # <<>> /\ Chain(w, w[1].from, encoder[Peer(s)])
  BY RoleFacts DEF IInv, TypeOK, AllLinked, Linked
<1>2. Chain(Tail(w), AfterFrame(w[1]), encoder[Peer(s)])
  BY <1>1, ChainTail
<1>. QED BY <1>2 DEF Linked

\* What the data of a transaction leaves the receiver's stream at.
LEMMA DataDecoded ==
  ASSUME IInv, NEW s \in Roles, ReadData(s)
  PROVE  /\ s \notin dead /\ wire[Peer(s)] # <<>>
         /\ decoder'[s] = AfterFrame(wire[Peer(s)][1])
         /\ \A r \in Roles : r # s => decoder'[r] = decoder[r]
         /\ decoder' \in [Roles -> Streams]
<1> DEFINE frame == wire[Peer(s)][1]
<1>1. s \notin dead /\ wire[Peer(s)] # <<>> /\ pending[s] # NoHeader
  BY DEF ReadData, Arrived
<1>2. /\ decoder[s] = IF frame.hooks THEN AfterHeader(frame.from) ELSE frame.from
      /\ pending[s] = IF frame.hooks THEN frame.flag ELSE 0
  BY <1>1 DEF IInv, AllLinked, Linked
<1>3. /\ frame \in Frames /\ Head(wire[Peer(s)]) = frame
      /\ frame.hooks <=> s \in secure
  BY <1>1, HeadHooks
<1>4. frame.size \in Nat /\ frame.flag \in Nat /\ frame.from \in Streams
  BY <1>3 DEF Frames
<1>5. decoder \in [Roles -> Streams]
  BY DEF IInv, TypeOK
<1>6. CASE s \in secure
  <2>1. decoder' = [decoder EXCEPT ![s] = AfterData(decoder[s], frame.size, pending[s])]
    BY <1>3, <1>6 DEF ReadData, DecodeData, AfterData
  <2>2. AfterData(decoder[s], frame.size, pending[s]) = AfterFrame(frame)
    BY <1>2, <1>3, <1>6 DEF AfterFrame
  <2>3. AfterFrame(frame) \in Streams
    BY <1>3, <1>4, <1>6, AfterTyped DEF AfterFrame
  <2> HIDE DEF frame
  <2>4. decoder' = [decoder EXCEPT ![s] = AfterFrame(frame)]
    BY <2>1, <2>2
  <2>5. decoder'[s] = AfterFrame(frame) /\ \A r \in Roles : r # s => decoder'[r] = decoder[r]
    BY <1>5, <2>4
  <2>6. decoder' \in [Roles -> Streams]
    BY <1>5, <2>3, <2>4
  <2>. QED BY <1>1, <2>5, <2>6 DEF frame
<1>7. CASE s \notin secure
  <2>1. decoder' = decoder
    BY <1>7 DEF ReadData
  <2>2. decoder[s] = AfterFrame(frame)
    BY <1>2, <1>3, <1>7 DEF AfterFrame
  <2>. QED BY <1>1, <1>5, <2>1, <2>2
<1>. QED BY <1>6, <1>7

-----------------------------------------------------------------------------
(* The steps.                                                              *)

LEMMA InitGood == Init => IInv
<1> SUFFICES ASSUME Init
             PROVE  IInv
  OBVIOUS
<1>1. \A base \in {"first", "second"} : NewStream(base) \in Streams
  BY CipherChannelAssumption DEF NewStream, Streams, Keys
<1>2. TypeOK
  <2>1. encoder \in [Roles -> Streams] /\ decoder \in [Roles -> Streams]
    BY <1>1 DEF Init
  <2>2. wire \in [Roles -> Seq(Frames)]
    BY EmptySeq DEF Init
  <2>3. pending \in [Roles -> Nat] /\ queued \in [Roles -> Nat]
    BY DEF Init, NoHeader
  <2>4. asked \in BOOLEAN /\ secure \subseteq Roles /\ dead \subseteq Roles
    BY DEF Init
  <2>. QED BY <2>1, <2>2, <2>3, <2>4 DEF TypeOK
<1>3. AllLinked
  BY RoleFacts DEF Init, AllLinked, Linked, Chain
<1>4. AllMarked
  BY RoleFacts DEF Init, AllMarked, Marked
<1>5. Handover
  BY RoleFacts DEF Init, Handover, Has
<1>. QED BY <1>2, <1>3, <1>4, <1>5 DEF IInv

\* A frame on one wire: the direction it is in, and the other one.
LEMMA AppendKeepsLinks ==
  ASSUME IInv, NEW t \in Roles, NEW frame \in Frames, frame.from = encoder[t],
         wire' = [wire EXCEPT ![t] = Append(@, frame)],
         encoder' \in [Roles -> Streams],
         encoder'[t] = AfterFrame(frame), encoder'[Peer(t)] = encoder[Peer(t)],
         UNCHANGED <<decoder, pending, dead>>
  PROVE  /\ wire' \in [Roles -> Seq(Frames)]
         /\ wire'[t] = Append(wire[t], frame) /\ wire'[Peer(t)] = wire[Peer(t)]
         /\ AllLinked'
<1>1. wire \in [Roles -> Seq(Frames)]
  BY DEF IInv, TypeOK
<1>2. wire[t] \in Seq(Frames) /\ Append(wire[t], frame) \in Seq(Frames)
  BY <1>1, AppendProperties
<1>3. /\ wire' \in [Roles -> Seq(Frames)]
      /\ wire'[t] = Append(wire[t], frame) /\ wire'[Peer(t)] = wire[Peer(t)]
  BY <1>1, <1>2, RoleFacts
<1>4. ASSUME NEW s \in Roles, s \notin dead
      PROVE  Linked(s)'
  <2>1. CASE s = Peer(t)
    <3>1. Peer(s) = t
      BY <2>1, RoleFacts
    <3>. QED BY <1>3, <1>4, <3>1, LinkedAppend
  <2>2. CASE s = t
    BY <1>3, <1>4, <2>2, LinkedSame
  <2>. QED BY <2>1, <2>2, RoleFacts
<1>. QED BY <1>3, <1>4 DEF AllLinked

LEMMA AskGood == IInv /\ Ask => IInv'
<1> SUFFICES ASSUME IInv, Ask
             PROVE  IInv'
  OBVIOUS
<1> DEFINE frame == PlainFrame("client", "ask", 1)
<1>1. /\ frame \in Frames /\ frame.from = encoder["client"]
      /\ AfterFrame(frame) = encoder["client"] /\ frame.kind = "ask" /\ frame.hooks = FALSE
  <2>1. frame = [kind |-> "ask", flag |-> 0, size |-> 1, hooks |-> FALSE,
                 from |-> encoder["client"]]
    BY DEF PlainFrame
  <2>2. encoder["client"] \in Streams
    BY RoleFacts DEF IInv, TypeOK
  <2> HIDE DEF frame
  <2>3. frame \in Frames /\ frame.from = encoder["client"] /\ frame.kind = "ask"
    BY <2>1, <2>2 DEF Frames
  <2>4. frame.hooks = FALSE
    BY <2>1
  <2>5. AfterFrame(frame) = encoder["client"]
    BY <2>3, <2>4 DEF AfterFrame
  <2>. QED BY <2>3, <2>4, <2>5
<1>2. /\ ~asked /\ asked'
      /\ wire' = [wire EXCEPT !["client"] = Append(@, frame)]
      /\ UNCHANGED <<encoder, decoder, secure, pending, dead, queued>>
  BY DEF Ask
<1> HIDE DEF frame
<1>3. /\ wire' \in [Roles -> Seq(Frames)] /\ AllLinked'
      /\ wire'["client"] = Append(wire["client"], frame) /\ wire'["server"] = wire["server"]
  <2>1. /\ "client" \in Roles /\ Peer("client") = "server"
        /\ encoder' \in [Roles -> Streams] /\ encoder'["client"] = AfterFrame(frame)
        /\ encoder'["server"] = encoder["server"]
    BY <1>1, <1>2, RoleFacts DEF IInv, TypeOK
  <2>. QED BY <1>1, <1>2, <2>1, AppendKeepsLinks
<1>4. TypeOK'
  BY <1>2, <1>3 DEF IInv, TypeOK
<1>5. ~Has(wire["client"], "ask") /\ "server" \notin secure
  BY <1>2 DEF IInv, Handover
<1>6. /\ wire["client"] \in Seq(Frames)
      /\ Marked(wire["client"], "ask", "server", secure)
      /\ Marked(wire["server"], "answer", "client", secure)
  BY RoleFacts DEF IInv, TypeOK, AllMarked, Mark
<1>7. Marked(wire'["client"], "ask", "server", secure)
  BY <1>1, <1>3, <1>5, <1>6, MarkedAppend
<1>8. AllMarked'
  BY <1>2, <1>3, <1>6, <1>7, RoleFacts DEF AllMarked, Mark
<1>9. Handover'
  BY <1>2, <1>3 DEF Handover, IInv
<1>. QED BY <1>3, <1>4, <1>8, <1>9 DEF IInv

LEMMA QueueGood == ASSUME IInv, NEW t \in Roles, Queue(t)
                   PROVE  IInv'
<1>1. PICK size \in Sizes : QueuePlain(t, size) \/ \E flag \in Flags : QueueEncoded(t, size, flag)
  BY DEF Queue
<1>2. /\ size \in Nat /\ encoder \in [Roles -> Streams]
      /\ UNCHANGED <<decoder, secure, pending, dead, asked>>
      /\ queued' = [queued EXCEPT ![t] = @ + 1]
      /\ t = "client" => ~asked \/ t \in secure
  BY <1>1, CipherChannelAssumption DEF Queue, IInv, TypeOK
<1>3. PICK frame \in Frames :
        /\ frame.from = encoder[t] /\ frame.kind = "data"
        /\ frame.hooks <=> t \in secure
        /\ wire' = [wire EXCEPT ![t] = Append(@, frame)]
        /\ encoder' = [encoder EXCEPT ![t] = AfterFrame(frame)]
  <2>1. CASE QueuePlain(t, size)
    <3> DEFINE frame == PlainFrame(t, "data", size)
    <3>1. /\ frame \in Frames /\ frame.from = encoder[t]
          /\ AfterFrame(frame) = encoder[t] /\ frame.kind = "data" /\ frame.hooks = FALSE
      <4>1. frame = [kind |-> "data", flag |-> 0, size |-> size, hooks |-> FALSE,
                     from |-> encoder[t]]
        BY DEF PlainFrame
      <4>2. encoder[t] \in Streams
        BY <1>2
      <4> HIDE DEF frame
      <4>3. frame \in Frames /\ frame.from = encoder[t] /\ frame.kind = "data"
        BY <1>2, <4>1, <4>2 DEF Frames
      <4>4. frame.hooks = FALSE
        BY <4>1
      <4>5. AfterFrame(frame) = encoder[t]
        BY <4>3, <4>4 DEF AfterFrame
      <4>. QED BY <4>3, <4>4, <4>5
    <3>2. t \notin secure /\ wire' = [wire EXCEPT ![t] = Append(@, frame)] /\ encoder' = encoder
      BY <2>1 DEF QueuePlain
    <3> HIDE DEF frame
    <3>3. encoder' = [encoder EXCEPT ![t] = AfterFrame(frame)]
      BY <1>2, <3>1, <3>2
    <3>. QED BY <3>1, <3>2, <3>3
  <2>2. ASSUME NEW flag \in Flags, QueueEncoded(t, size, flag)
        PROVE  \E frame \in Frames :
                 /\ frame.from = encoder[t] /\ frame.kind = "data"
                 /\ frame.hooks <=> t \in secure
                 /\ wire' = [wire EXCEPT ![t] = Append(@, frame)]
                 /\ encoder' = [encoder EXCEPT ![t] = AfterFrame(frame)]
    <3> DEFINE frame == [kind |-> "data", flag |-> flag, size |-> size,
                         hooks |-> TRUE, from |-> encoder[t]]
    <3>1. frame \in Frames
      BY <1>2, CipherChannelAssumption DEF Frames
    <3>2. /\ t \in secure /\ wire' = [wire EXCEPT ![t] = Append(@, frame)]
          /\ encoder' = [encoder EXCEPT
                            ![t] = ProcessData(ProcessHeader(@).after, size, flag).after]
      BY <2>2 DEF QueueEncoded
    <3>3. AfterFrame(frame) = ProcessData(ProcessHeader(encoder[t]).after, size, flag).after
      BY DEF AfterFrame, AfterData, AfterHeader
    <3>4. encoder' = [encoder EXCEPT ![t] = AfterFrame(frame)]
      BY <3>2, <3>3
    <3>5. frame.from = encoder[t] /\ frame.kind = "data" /\ frame.hooks = TRUE
      OBVIOUS
    <3> HIDE DEF frame
    <3>. QED BY <3>1, <3>2, <3>4, <3>5
  <2>. QED BY <1>1, <2>1, <2>2
<1>4. AfterFrame(frame) \in Streams
  <2>1. frame.from \in Streams /\ frame.size \in Nat /\ frame.flag \in Nat
    BY DEF Frames
  <2>2. AfterHeader(frame.from) \in Streams
    BY <2>1, AfterTyped
  <2>3. AfterData(AfterHeader(frame.from), frame.size, frame.flag) \in Streams
    BY <2>1, <2>2, AfterTyped
  <2>. QED BY <2>1, <2>3 DEF AfterFrame
<1>5. /\ encoder' \in [Roles -> Streams] /\ encoder'[t] = AfterFrame(frame)
      /\ encoder'[Peer(t)] = encoder[Peer(t)]
  BY <1>2, <1>3, <1>4, RoleFacts
<1>6. /\ wire' \in [Roles -> Seq(Frames)] /\ AllLinked'
      /\ wire'[t] = Append(wire[t], frame) /\ wire'[Peer(t)] = wire[Peer(t)]
  BY <1>2, <1>3, <1>5, AppendKeepsLinks
<1>7. TypeOK'
  <2>1. queued' \in [Roles -> Nat] /\ decoder' \in [Roles -> Streams] /\ pending' \in [Roles -> Nat]
    BY <1>2 DEF IInv, TypeOK
  <2>2. asked' \in BOOLEAN /\ secure' \subseteq Roles /\ dead' \subseteq Roles
    BY <1>2, Zenon DEF IInv, TypeOK
  <2>. QED BY <1>5, <1>6, <2>1, <2>2 DEF TypeOK
<1>8. frame.hooks <=> Peer(t) \in secure \/ Has(wire[t], Mark(Peer(t)))
  BY <1>2, <1>3, RoleFacts DEF IInv, Handover, Mark
<1>9. /\ wire[t] \in Seq(Frames)
      /\ Marked(wire[t], Mark(Peer(t)), Peer(t), secure)
      /\ Marked(wire[Peer(t)], Mark(t), t, secure)
  BY RoleFacts DEF IInv, TypeOK, AllMarked
<1>10. frame.kind # Mark(Peer(t))
  BY <1>3 DEF Mark
<1>11. /\ Marked(wire'[t], Mark(Peer(t)), Peer(t), secure)
       /\ Has(wire'[t], Mark(Peer(t))) <=> Has(wire[t], Mark(Peer(t)))
  BY <1>3, <1>6, <1>8, <1>9, <1>10, MarkedAppend
<1>12. AllMarked'
  <2> SUFFICES ASSUME NEW s \in Roles
               PROVE  Marked(wire'[Peer(s)], Mark(s), s, secure')
    BY Zenon DEF AllMarked, Mark
  <2>1. CASE s = t
    BY <1>2, <1>6, <1>9, <2>1
  <2>2. CASE s = Peer(t)
    <3>1. Peer(s) = t
      BY <2>2, RoleFacts
    <3>. QED BY <1>2, <1>11, <2>2, <3>1
  <2>. QED BY <2>1, <2>2, RoleFacts
<1>13. Handover'
  BY <1>2, <1>6, <1>11, RoleFacts DEF Handover, IInv, Mark
<1>. QED BY <1>6, <1>7, <1>12, <1>13 DEF IInv

LEMMA ReadHeaderGood == ASSUME IInv, NEW s \in Roles, ReadHeader(s)
                        PROVE  IInv'
<1> DEFINE frame == wire[Peer(s)][1]
<1>1. s \notin dead /\ wire[Peer(s)] # <<>> /\ pending[s] = NoHeader /\ Arrived(s)
  BY DEF ReadHeader, Arrived
<1>2. /\ frame \in Frames /\ Head(wire[Peer(s)]) = frame
      /\ frame.hooks <=> s \in secure
  BY <1>1, HeadHooks
<1>3. SentHeader(frame) = HeaderMasks(s)
  BY <1>1, <1>2, InvImpliesInStep DEF InStep
<1>4. UNCHANGED <<encoder, secure, wire, queued, asked>>
  BY DEF ReadHeader
<1>5. /\ decoder \in [Roles -> Streams] /\ pending \in [Roles -> Nat] /\ dead \subseteq Roles
      /\ frame.flag \in 0..255 /\ decoder[s] \in Streams
  BY <1>2 DEF IInv, TypeOK, Frames
<1>6. frame.from = decoder[s] /\ Chain(wire[Peer(s)], frame.from, encoder[Peer(s)])
  BY <1>1 DEF IInv, AllLinked, Linked, Chain
<1>7. /\ decoder' \in [Roles -> Streams]
      /\ decoder'[s] = IF frame.hooks THEN AfterHeader(frame.from) ELSE frame.from
      /\ \A r \in Roles : r # s => decoder'[r] = decoder[r]
  <2>1. CASE s \in secure
    <3>1. decoder' = [decoder EXCEPT ![s] = AfterHeader(decoder[s])]
      BY <2>1 DEF ReadHeader, AfterHeader
    <3>2. AfterHeader(decoder[s]) \in Streams
      BY <1>5, AfterTyped
    <3> HIDE DEF frame
    <3>. QED BY <1>2, <1>5, <1>6, <2>1, <3>1, <3>2
  <2>2. CASE s \notin secure
    <3>1. decoder' = decoder
      BY <2>2 DEF ReadHeader
    <3> HIDE DEF frame
    <3>. QED BY <1>2, <1>5, <1>6, <2>2, <3>1
  <2>. QED BY <2>1, <2>2
<1>8. /\ pending' \in [Roles -> Nat] /\ dead' \subseteq Roles /\ dead \subseteq dead'
      /\ s \notin dead' => pending'[s] = IF frame.hooks THEN frame.flag ELSE 0
      /\ \A r \in Roles : r # s => pending'[r] = pending[r]
  <2>1. CASE frame.size = 0
    <3>1. dead' = dead \cup {s} /\ pending' = pending
      BY <1>2, <2>1 DEF ReadHeader
    <3>. QED BY <1>5, <3>1
  <2>2. CASE frame.size # 0
    <3>1. /\ pending' = [pending EXCEPT ![s] = IF s \in secure THEN frame.flag ELSE 0]
          /\ dead' = dead
      BY <1>2, <1>3, <2>2 DEF ReadHeader
    <3> HIDE DEF frame
    <3>. QED BY <1>2, <1>5, <3>1
  <2>. QED BY <2>1, <2>2
<1>9. ASSUME NEW r \in Roles, r \notin dead'
      PROVE  Linked(r)'
  <2>1. CASE r = s
    <3>1. pending'[s] = IF frame.hooks THEN frame.flag ELSE 0
      BY <1>8, <1>9, <2>1
    <3>2. pending'[s] # NoHeader
      BY <1>5, <3>1 DEF NoHeader
    <3>. QED BY <1>1, <1>4, <1>6, <1>7, <2>1, <3>1, <3>2 DEF Linked
  <2>2. CASE r # s
    BY <1>4, <1>7, <1>8, <1>9, <2>2, LinkedSame
  <2>. QED BY <2>1, <2>2
<1>10. TypeOK'
  BY <1>4, <1>7, <1>8 DEF IInv, TypeOK
<1>11. AllMarked' /\ Handover'
  BY <1>4 DEF IInv, AllMarked, Handover
<1>. QED BY <1>9, <1>10, <1>11 DEF IInv, AllLinked

\* The transaction is taken off the wire; the hooks are installed at the mark.
LEMMA TakenGood ==
  ASSUME IInv, NEW s \in Roles, ReadData(s),
         wire' = [wire EXCEPT ![Peer(s)] = Tail(@)],
         secure' = IF wire[Peer(s)][1].kind = Mark(s) THEN secure \cup {s} ELSE secure,
         wire[Peer(s)][1].kind # "ask"
  PROVE  IInv'
<1> DEFINE w == wire[Peer(s)]
           frame == w[1]
<1>1. /\ s \notin dead /\ w # <<>> /\ pending[s] # NoHeader
      /\ pending' = [pending EXCEPT ![s] = NoHeader]
      /\ UNCHANGED <<encoder, dead, queued, asked>>
  BY DEF ReadData, Arrived
<1>2. /\ decoder'[s] = AfterFrame(frame) /\ decoder' \in [Roles -> Streams]
      /\ \A r \in Roles : r # s => decoder'[r] = decoder[r]
  BY DataDecoded
<1>3. /\ wire \in [Roles -> Seq(Frames)] /\ w \in Seq(Frames)
      /\ pending \in [Roles -> Nat] /\ secure \subseteq Roles
  BY RoleFacts DEF IInv, TypeOK
<1>4. Tail(w) \in Seq(Frames)
  BY <1>1, <1>3, TailElements
<1>5. /\ wire' \in [Roles -> Seq(Frames)]
      /\ wire'[Peer(s)] = Tail(w) /\ wire'[s] = wire[s]
  BY <1>3, <1>4, RoleFacts
<1>6. /\ pending' \in [Roles -> Nat] /\ pending'[s] = NoHeader
      /\ \A r \in Roles : r # s => pending'[r] = pending[r]
  BY <1>1, <1>3 DEF NoHeader
<1>7. TypeOK'
  <2>1. secure' \subseteq Roles
    BY <1>3
  <2>2. asked' \in BOOLEAN /\ dead' \subseteq Roles
    BY <1>1, Zenon DEF IInv, TypeOK
  <2>3. encoder' \in [Roles -> Streams] /\ queued' \in [Roles -> Nat]
    BY <1>1 DEF IInv, TypeOK
  <2>. QED BY <1>2, <1>5, <1>6, <2>1, <2>2, <2>3 DEF TypeOK
<1>8. ASSUME NEW r \in Roles, r \notin dead'
      PROVE  Linked(r)'
  <2>1. CASE r = s
    BY <1>1, <1>2, <1>5, <1>6, <2>1, LinkedTail
  <2>2. CASE r # s
    <3>1. Peer(r) = s
      BY <2>2, RoleFacts
    <3>. QED BY <1>1, <1>2, <1>5, <1>6, <1>8, <2>2, <3>1, LinkedSame
  <2>. QED BY <2>1, <2>2
<1>9. /\ Marked(w, Mark(s), s, secure)
      /\ Marked(wire[s], Mark(Peer(s)), Peer(s), secure)
  BY RoleFacts DEF IInv, AllMarked
<1>10. s \in secure' <=> s \in secure \/ frame.kind = Mark(s)
  OBVIOUS
<1>11. Peer(s) \in secure' <=> Peer(s) \in secure
  BY RoleFacts
<1>12. /\ Marked(Tail(w), Mark(s), s, secure')
       /\ Has(w, Mark(s)) <=> frame.kind = Mark(s) \/ Has(Tail(w), Mark(s))
  BY <1>1, <1>3, <1>9, <1>10, MarkedTail
<1>13. Marked(wire[s], Mark(Peer(s)), Peer(s), secure')
  BY <1>9, <1>11 DEF Marked
<1>14. AllMarked'
  <2> SUFFICES ASSUME NEW r \in Roles
               PROVE  Marked(wire'[Peer(r)], Mark(r), r, secure')
    BY Zenon DEF AllMarked, Mark
  <2>1. CASE r = s
    BY <1>5, <1>12, <2>1
  <2>2. CASE r = Peer(s)
    <3>1. Peer(r) = s
      BY <2>2, RoleFacts
    <3>. QED BY <1>5, <1>13, <2>2, <3>1
  <2>. QED BY <2>1, <2>2, RoleFacts
<1>15. Handover'
  <2>1. CASE s = "client"
    <3>1. Has(wire["server"], "answer") <=> frame.kind = "answer" \/ Has(wire'["server"], "answer")
      BY <1>5, <1>12, <2>1, RoleFacts DEF Mark
    <3>2. /\ "client" \in secure' <=> "client" \in secure \/ frame.kind = "answer"
          /\ "server" \in secure' <=> "server" \in secure
          /\ wire'["client"] = wire["client"] /\ asked' = asked
      BY <1>1, <1>5, <1>10, <1>11, <2>1, RoleFacts DEF Mark
    <3>. QED BY <3>1, <3>2 DEF IInv, Handover
  <2>2. CASE s = "server"
    <3>1. frame.kind # Mark(s)
      BY <2>2 DEF Mark
    <3>2. Has(wire["client"], "ask") <=> Has(wire'["client"], "ask")
      BY <1>5, <1>12, <2>2, <3>1, RoleFacts DEF Mark
    <3>3. secure' = secure /\ wire'["server"] = wire["server"] /\ asked' = asked
      BY <1>1, <1>5, <2>2, <3>1
    <3>. QED BY <3>2, <3>3 DEF IInv, Handover
  <2>. QED BY <2>1, <2>2, RoleFacts
<1>. QED BY <1>7, <1>8, <1>14, <1>15 DEF IInv, AllLinked

\* The server installs its hooks behind the answer it queues in plaintext.
LEMMA AskedGood ==
  ASSUME IInv, ReadData("server"),
         wire' = [wire EXCEPT !["client"] = Tail(@),
                              !["server"] = Append(@, PlainFrame("server", "answer", 1))],
         secure' = secure \cup {"server"},
         wire["client"][1].kind = "ask"
  PROVE  IInv'
<1> DEFINE w == wire["client"]
           frame == w[1]
           answer == PlainFrame("server", "answer", 1)
<1>1. /\ "server" \notin dead /\ w # <<>> /\ pending["server"] # NoHeader
      /\ pending' = [pending EXCEPT !["server"] = NoHeader]
      /\ UNCHANGED <<encoder, dead, queued, asked>>
  BY RoleFacts DEF ReadData, Arrived
<1>2. /\ decoder'["server"] = AfterFrame(frame) /\ decoder' \in [Roles -> Streams]
      /\ decoder'["client"] = decoder["client"]
  BY DataDecoded, RoleFacts
<1>3. /\ wire \in [Roles -> Seq(Frames)] /\ w \in Seq(Frames) /\ wire["server"] \in Seq(Frames)
      /\ pending \in [Roles -> Nat] /\ secure \subseteq Roles
  BY RoleFacts DEF IInv, TypeOK
<1>4. /\ answer \in Frames /\ answer.from = encoder["server"]
      /\ AfterFrame(answer) = encoder["server"]
      /\ answer.kind = "answer" /\ answer.hooks = FALSE
  <2>1. answer = [kind |-> "answer", flag |-> 0, size |-> 1, hooks |-> FALSE,
                  from |-> encoder["server"]]
    BY DEF PlainFrame
  <2>2. encoder["server"] \in Streams
    BY RoleFacts DEF IInv, TypeOK
  <2> HIDE DEF answer
  <2>3. answer \in Frames /\ answer.from = encoder["server"] /\ answer.kind = "answer"
    BY <2>1, <2>2 DEF Frames
  <2>4. answer.hooks = FALSE
    BY <2>1
  <2>5. AfterFrame(answer) = encoder["server"]
    BY <2>3, <2>4 DEF AfterFrame
  <2>. QED BY <2>3, <2>4, <2>5
<1> HIDE DEF answer
<1>5. Tail(w) \in Seq(Frames) /\ Append(wire["server"], answer) \in Seq(Frames)
  BY <1>1, <1>3, <1>4, TailElements, AppendProperties
<1>6. /\ wire' \in [Roles -> Seq(Frames)] /\ wire'["client"] = Tail(w)
      /\ wire'["server"] = Append(wire["server"], answer)
  <2>1. wire' = [wire EXCEPT !["client"] = Tail(@), !["server"] = Append(@, answer)]
    BY DEF answer
  <2> DEFINE left  == Tail(w)
             added == Append(wire["server"], answer)
  <2>2. left \in Seq(Frames) /\ added \in Seq(Frames)
    BY <1>5
  <2>3. wire' = [wire EXCEPT !["client"] = left, !["server"] = added]
    BY <1>3, <2>1, RoleFacts
  <2> HIDE DEF left, added
  <2>4. "client" \in Roles /\ "server" \in Roles /\ "client" # "server"
    BY RoleFacts
  <2>5. wire'["client"] = left /\ wire'["server"] = added
    BY <1>3, <2>3, <2>4
  <2>6. wire' \in [Roles -> Seq(Frames)]
    BY <1>3, <2>2, <2>3, <2>4
  <2>. QED BY <2>5, <2>6 DEF left, added
<1>7. /\ pending' \in [Roles -> Nat] /\ pending'["server"] = NoHeader
      /\ pending'["client"] = pending["client"]
  BY <1>1, <1>3, RoleFacts DEF NoHeader
<1>8. TypeOK'
  <2>1. secure' \subseteq Roles
    BY <1>3, RoleFacts
  <2>2. asked' \in BOOLEAN /\ dead' \subseteq Roles
    BY <1>1, Zenon DEF IInv, TypeOK
  <2>3. encoder' \in [Roles -> Streams] /\ queued' \in [Roles -> Nat]
    BY <1>1 DEF IInv, TypeOK
  <2>. QED BY <1>2, <1>6, <1>7, <2>1, <2>2, <2>3 DEF TypeOK
<1>9. ASSUME NEW r \in Roles, r \notin dead'
      PROVE  Linked(r)'
  <2>1. CASE r = "server"
    <3>1. Peer(r) = "client"
      BY <2>1, RoleFacts
    <3>. QED BY <1>1, <1>2, <1>6, <1>7, <2>1, <3>1, LinkedTail
  <2>2. CASE r = "client"
    <3>1. Peer(r) = "server" /\ r \notin dead
      BY <1>1, <1>9, <2>2, RoleFacts
    <3>. QED BY <1>1, <1>2, <1>4, <1>6, <1>7, <2>2, <3>1, LinkedAppend
  <2>. QED BY <2>1, <2>2, RoleFacts
<1>10. /\ Marked(w, "ask", "server", secure)
       /\ Marked(wire["server"], "answer", "client", secure)
  BY RoleFacts DEF IInv, AllMarked, Mark
<1>11. "server" \notin secure /\ "client" \notin secure /\ ~Has(wire["server"], "answer")
  <2>1. frame.kind = "ask" /\ ~frame.hooks /\ (frame.hooks <=> "server" \in secure)
    <3>1. 1 \in 1..Len(w)
      BY <1>1, <1>3, TailElements
    <3>. QED BY <1>10, <3>1 DEF Marked
  <2>. QED BY <2>1 DEF IInv, Handover
<1>12. Marked(Tail(w), "ask", "server", secure')
  <2>1. "server" \in secure' <=> "server" \in secure \/ frame.kind = "ask"
    OBVIOUS
  <2> HIDE DEF w, frame
  <2>2. "server" \in secure' <=> "server" \in secure \/ w[1].kind = "ask"
    BY <2>1 DEF frame
  <2>. QED BY <1>1, <1>3, <1>10, <2>2, MarkedTail
<1>13. /\ Marked(wire'["server"], "answer", "client", secure)
       /\ Has(wire'["server"], "answer")
  <2>1. answer.kind \in {"data", "answer"} /\ (answer.kind = "answer" => ~answer.hooks)
    BY <1>4
  <2>2. answer.hooks <=> "client" \in secure \/ Has(wire["server"], "answer")
    BY <1>4, <1>11
  <2>. QED BY <1>3, <1>4, <1>6, <1>10, <2>1, <2>2, MarkedAppend
<1>14. Marked(wire'["server"], "answer", "client", secure')
  <2>1. "client" \in secure' <=> "client" \in secure
    OBVIOUS
  <2>. QED BY <1>13, <2>1 DEF Marked
<1>15. AllMarked'
  BY <1>6, <1>12, <1>14, RoleFacts DEF AllMarked, Mark
<1>16. Has(w, "ask")
  <2>1. 1 \in 1..Len(w)
    BY <1>1, <1>3, TailElements
  <2>. QED BY <2>1 DEF Has
<1>17. Handover'
  BY <1>1, <1>13, <1>16 DEF IInv, Handover
<1>. QED BY <1>8, <1>9, <1>15, <1>17 DEF IInv, AllLinked

LEMMA ReadDataGood == ASSUME IInv, NEW s \in Roles, ReadData(s)
                      PROVE  IInv'
<1> DEFINE frame == wire[Peer(s)][1]
<1>1. wire[Peer(s)] # <<>> /\ wire[Peer(s)] \in Seq(Frames) /\ Head(wire[Peer(s)]) = frame
  BY HeadHooks DEF ReadData, Arrived
<1>2. Callback(s, frame)
  BY <1>1 DEF ReadData
<1>3. frame.kind \in {"data", Mark(s)}
  <2>1. 1 \in 1..Len(wire[Peer(s)])
    BY <1>1, TailElements
  <2>. QED BY <2>1 DEF IInv, AllMarked, Marked
<1>4. CASE frame.kind = "ask"
  <2>1. s = "server" /\ Peer(s) = "client"
    BY <1>3, <1>4, RoleFacts DEF Mark
  <2>2. /\ wire' = [wire EXCEPT ![Peer(s)] = Tail(@),
                                 ![s] = Append(@, PlainFrame(s, "answer", 1))]
        /\ secure' = secure \cup {s}
    BY <1>2, <1>4 DEF Callback
  <2>. QED BY <1>4, <2>1, <2>2, AskedGood
<1>5. CASE frame.kind # "ask"
  <2>1. /\ wire' = [wire EXCEPT ![Peer(s)] = Tail(@)]
        /\ secure' = IF frame.kind = Mark(s) THEN secure \cup {s} ELSE secure
    BY <1>2, <1>3, <1>5 DEF Callback, Mark
  <2>. QED BY <1>5, <2>1, TakenGood
<1>. QED BY <1>4, <1>5

LEMMA StepGood == IInv /\ [Next]_vars => IInv'
<1> SUFFICES ASSUME IInv, [Next]_vars
             PROVE  IInv'
  OBVIOUS
<1>1. CASE Ask
  BY <1>1, AskGood
<1>2. ASSUME NEW s \in Roles, Queue(s)
      PROVE  IInv'
  BY <1>2, QueueGood
<1>3. ASSUME NEW s \in Roles, ReadHeader(s)
      PROVE  IInv'
  BY <1>3, ReadHeaderGood
<1>4. ASSUME NEW s \in Roles, ReadData(s)
      PROVE  IInv'
  BY <1>4, ReadDataGood
<1>5. CASE UNCHANGED vars
  BY <1>5 DEF vars, IInv, TypeOK, AllLinked, Linked, AllMarked, Handover
<1>. QED BY <1>1, <1>2, <1>3, <1>4, <1>5 DEF Next

-----------------------------------------------------------------------------
(* The theorems.                                                           *)

\* The streams of TransactionCipher stay what they are: an offset within the
\* block, keys of the login schedule; what is queued and remembered between a
\* header and its data is typed.
THEOREM TypeCorrect == Spec => []TypeOK
<1>1. Init => IInv
  BY InitGood
<1>2. IInv /\ [Next]_vars => IInv'
  BY StepGood
<1>3. IInv => TypeOK
  BY DEF IInv
<1>. QED BY <1>1, <1>2, <1>3, PTL DEF Spec

\* The receiver of parse_inbound() and complete_transaction() unmasks every
\* header and all data with the masks queue_transaction() gave them, whatever
\* is in flight when the hooks are installed.
THEOREM StaysInStep == Spec => []InStep
<1>1. Init => IInv
  BY InitGood
<1>2. IInv /\ [Next]_vars => IInv'
  BY StepGood
<1>3. IInv => InStep
  BY InvImpliesInStep
<1>. QED BY <1>1, <1>2, <1>3, PTL DEF Spec

-----------------------------------------------------------------------------
(***************************************************************************)
(* No mask is used twice.                                                  *)
(*                                                                         *)
(* A side that has masked `total' bytes has used one mask for each of the  *)
(* numbers below total: the mask of byte k is made of k \div BlockSize + 1 *)
(* blocks and lies k % BlockSize bytes into the last of them, whichever    *)
(* transactions the bytes belong to and however often the key was permuted *)
(* between them.  The first block of a side was made with the key it began *)
(* with, which tells the masks of the two sides apart.                     *)
(*                                                                         *)
(* First what is needed of division.                                       *)
(***************************************************************************)

LEMMA DivisionExact ==
  ASSUME NEW b \in Nat \ {0}, NEW a \in Int
  PROVE  /\ a \div b \in Int /\ a % b \in 0..(b - 1)
         /\ a = (b * (a \div b)) + (a % b)
  BY SMT

LEMMA DivisionNat ==
  ASSUME NEW b \in Nat \ {0}, NEW a \in Nat
  PROVE  a \div b \in Nat
<1> DEFINE d == a \div b
           r == a % b
<1>1. d \in Int /\ r \in 0..(b - 1) /\ b * d + r = a
  BY DivisionExact
<1> HIDE DEF d, r
<1>2. CASE d <= -1
  <2>1. b * d <= b * (-1)
    BY <1>1, <1>2
  <2>. QED BY <1>1, <2>1
<1>. QED BY <1>1, <1>2 DEF d

LEMMA DivisionUnique ==
  ASSUME NEW b \in Nat \ {0}, NEW q \in Int, NEW r \in 0..(b - 1)
  PROVE  (b * q + r) \div b = q /\ (b * q + r) % b = r
  BY SMT

\* Whole blocks in front of a number are counted and otherwise do not matter.
LEMMA DivisionShift ==
  ASSUME NEW b \in Nat \ {0}, NEW q \in Int, NEW a \in Int
  PROVE  /\ (b * q + a) \div b = q + (a \div b)
         /\ (b * q + a) % b = a % b
<1>1. /\ a \div b \in Int /\ a % b \in 0..(b - 1)
      /\ a = (b * (a \div b)) + (a % b)
  BY DivisionExact
<1> DEFINE d == a \div b
           r == a % b
<1>2. d \in Int /\ r \in 0..(b - 1) /\ a = b * d + r
  BY <1>1
<1> HIDE DEF d, r
<1>3. b * q + a = b * (q + d) + r
  BY <1>2
<1>4. q + d \in Int
  BY <1>2
<1>5. (b * (q + d) + r) \div b = q + d /\ (b * (q + d) + r) % b = r
  BY <1>2, <1>4, DivisionUnique
<1>. QED BY <1>3, <1>5 DEF d, r

LEMMA DivisionGrows ==
  ASSUME NEW b \in Nat \ {0}, NEW a \in Int, NEW n \in Nat
  PROVE  a \div b <= (a + n) \div b
<1> DEFINE c == a + n
           d == a \div b
           e == c \div b
           r == a % b
           t == c % b
<1>1. c \in Int /\ a <= c
  OBVIOUS
<1> HIDE DEF c
<1>2. d \in Int /\ e \in Int /\ r \in 0..(b - 1) /\ t \in 0..(b - 1)
      /\ a = b * d + r /\ c = b * e + t
  BY <1>1, DivisionExact
<1> HIDE DEF d, e, r, t
<1>3. CASE d > e
  <2>1. b * d >= b * (e + 1)
    BY <1>2, <1>3
  <2>2. b * (e + 1) = b * e + b
    BY <1>2
  <2>. QED BY <1>1, <1>2, <2>1, <2>2
<1>. QED BY <1>2, <1>3 DEF c, d, e

-----------------------------------------------------------------------------
(* The place of a mask in its stream.                                      *)

\* The mask of byte k of a stream that began with the key named base.
IsMask(m, k, base) ==
  /\ m[1] \in Seq(Keys) /\ Len(m[1]) = (k \div BlockSize) + 1
  /\ m[1][1].base = base
  /\ m = <<m[1], k % BlockSize>>

\* How many blocks n masks take.
Blocks(n) == (n + BlockSize - 1) \div BlockSize

\* The first of the blocks, if there is one, was made with the key named base.
Begun(blocks, base) == blocks # <<>> => blocks[1].base = base

\* A stream that has given out `total' masks.
Spent(stream, total, base) ==
  /\ stream \in Streams
  /\ stream.offset = total % BlockSize
  /\ Len(stream.iv) = Blocks(total)
  /\ stream.key.base = base
  /\ Begun(stream.iv, base)

LEMMA Rounded ==
  ASSUME NEW total \in Nat, NEW n \in Nat
  PROVE  /\ Blocks(total) + ((total % BlockSize) + n + BlockSize - 1) \div BlockSize
              - ((total % BlockSize) + BlockSize - 1) \div BlockSize
            = Blocks(total + n)
         /\ ((total % BlockSize) + n) % BlockSize = (total + n) % BlockSize
         /\ Blocks(total) \in Nat /\ Blocks(total + n) \in Nat /\ Blocks(total) <= Blocks(total + n)
         /\ n > 0 => Blocks(total + n) = ((total + n - 1) \div BlockSize) + 1
<1> DEFINE b == BlockSize
           q == total \div b
           r == total % b
<1>1. b \in Nat \ {0}
  BY CipherChannelAssumption
<1>2. q \in Int /\ r \in 0..(b - 1) /\ total = b * q + r
  BY <1>1, DivisionExact
<1> HIDE DEF b, q, r
<1>3. ASSUME NEW a \in Int
      PROVE  (b * q + a) \div b = q + (a \div b) /\ (b * q + a) % b = a % b /\ a \div b \in Int
  BY <1>1, <1>2, DivisionShift, DivisionExact
<1>4. total + b - 1 = b * q + (r + b - 1) /\ r + b - 1 \in Int
  BY <1>1, <1>2
<1>5. total + n + b - 1 = b * q + (r + n + b - 1) /\ r + n + b - 1 \in Int
  BY <1>1, <1>2
<1>6. total + n = b * q + (r + n) /\ r + n \in Int
  BY <1>1, <1>2
<1>7. /\ (total + b - 1) \div b = q + ((r + b - 1) \div b) /\ (r + b - 1) \div b \in Int
      /\ (total + n + b - 1) \div b = q + ((r + n + b - 1) \div b) /\ (r + n + b - 1) \div b \in Int
      /\ (total + n) % b = (r + n) % b
  BY <1>3, <1>4, <1>5, <1>6
<1>8. (total + b - 1) \div b + (r + n + b - 1) \div b - (r + b - 1) \div b
        = (total + n + b - 1) \div b
  BY <1>2, <1>7
<1>9. (total + n + b - 1) \div b \in Nat
  <2>1. total + n + b - 1 \in Nat
    BY <1>1
  <2>. QED BY <1>1, <2>1, DivisionNat
<1>10. ASSUME n > 0
       PROVE  (total + n + b - 1) \div b = ((total + n - 1) \div b) + 1
  <2>1. total + n - 1 \in Int /\ total + n + b - 1 = b * 1 + (total + n - 1)
    BY <1>1
  <2>2. (b * 1 + (total + n - 1)) \div b = 1 + ((total + n - 1) \div b)
    BY <1>1, <2>1, DivisionShift
  <2>3. (total + n - 1) \div b \in Int
    BY <1>1, <2>1, DivisionExact
  <2>. QED BY <2>1, <2>2, <2>3
<1>11. (total + b - 1) \div b \in Nat /\ (total + b - 1) \div b <= (total + n + b - 1) \div b
  <2>1. total + b - 1 \in Nat /\ (total + b - 1) + n = total + n + b - 1
    BY <1>1
  <2>. QED BY <1>1, <2>1, DivisionNat, DivisionGrows
<1>12. Blocks(total) = (total + b - 1) \div b /\ Blocks(total + n) = (total + n + b - 1) \div b
  BY DEF Blocks, b
<1>. QED BY <1>7, <1>8, <1>9, <1>10, <1>11, <1>12 DEF b, r

\* The blocks of a stream follow from how many masks it has given out: one
\* more is made whenever the last one is used up.
LEMMA BlockSpent ==
  ASSUME NEW total \in Nat, NEW base, NEW stream, Spent(stream, total, base), NEW n \in Nat
  PROVE  /\ Block(stream, n) \in Seq(Keys)
         /\ Len(Block(stream, n)) = Blocks(total + n)
         /\ Begun(Block(stream, n), base)
<1> DEFINE made == NewBlocks(stream, n)
           new  == [b \in 1..made |-> stream.key]
           all  == Blocks(total + n)
<1>1. stream.iv \in Seq(Keys) /\ stream.key \in Keys /\ Block(stream, n) \in Seq(Keys)
  BY BlockTyped DEF Spent, Streams
<1>2. Len(stream.iv) \in Nat /\ all \in Nat
  <2>1. Len(stream.iv) \in Nat
    BY <1>1
  <2>2. all \in Nat
    BY Rounded
  <2>. QED BY <2>1, <2>2
<1>3. made \in Int /\ Len(stream.iv) + made = all
  <2> DEFINE c == Blocks(total)
             d == ((total % BlockSize) + n + BlockSize - 1) \div BlockSize
             e == ((total % BlockSize) + BlockSize - 1) \div BlockSize
  <2>1. c + d - e = all
    BY Rounded
  <2>2. Len(stream.iv) = c /\ made = d - e
    BY DEF Spent, NewBlocks
  <2>3. c \in Int /\ d \in Int /\ e \in Int
    <3>1. /\ BlockSize \in Nat \ {0} /\ total + BlockSize - 1 \in Int
          /\ total % BlockSize \in Int /\ c \in Int
      BY CipherChannelAssumption, DivisionExact, Rounded
    <3>2. /\ (total % BlockSize) + n + BlockSize - 1 \in Int
          /\ (total % BlockSize) + BlockSize - 1 \in Int
      BY <3>1
    <3> HIDE DEF c
    <3>. QED BY <3>1, <3>2, DivisionExact
  <2> HIDE DEF c, d, e, made, all
  <2>. QED BY <2>1, <2>2, <2>3
<1> HIDE DEF made, all
<1>4. CASE made \in Nat
  <2>1. new \in Seq(Keys) /\ Len(new) = made /\ \A b \in 1..made : new[b] = stream.key
    BY <1>1, <1>4
  <2> HIDE DEF new
  <2>2. /\ Len(stream.iv \o new) = Len(stream.iv) + made
        /\ \A i \in 1..(Len(stream.iv) + made) :
             (stream.iv \o new)[i] = IF i <= Len(stream.iv) THEN stream.iv[i]
                                     ELSE new[i - Len(stream.iv)]
    BY <1>1, <2>1, ConcatProperties
  <2>3. Block(stream, n) = stream.iv \o new
    BY DEF Block, new, made
  <2>4. ASSUME Block(stream, n) # <<>>
        PROVE  Block(stream, n)[1].base = base
    <3>1. Len(stream.iv) + made >= 1
      BY <1>1, <1>2, <1>4, <2>2, <2>3, <2>4, EmptySeq
    <3>2. CASE stream.iv = <<>>
      <4>1. Len(stream.iv) = 0
        BY <3>2
      <4>2. 1 \in 1..made /\ (stream.iv \o new)[1] = new[1]
        BY <1>4, <2>2, <3>1, <4>1
      <4>. QED BY <2>1, <2>3, <4>2 DEF Spent
    <3>3. CASE stream.iv # <<>>
      <4>1. Len(stream.iv) >= 1
        BY <1>1, <3>3, EmptySeq
      <4>2. (stream.iv \o new)[1] = stream.iv[1]
        BY <1>2, <1>4, <2>2, <4>1
      <4>. QED BY <2>3, <3>3, <4>2 DEF Spent, Begun
    <3>. QED BY <3>2, <3>3
  <2>. QED BY <1>1, <1>3, <2>2, <2>3, <2>4 DEF all, Begun
<1>5. made \in Nat
  <2>1. Blocks(total) <= Blocks(total + n)
    BY Rounded
  <2>. QED BY <1>2, <1>3, <2>1 DEF all, Spent
<1>. QED BY <1>4, <1>5

-----------------------------------------------------------------------------
(* The masks of a stretch of bytes.                                        *)

Masks == Seq(Keys) \X (0..(BlockSize - 1))

\* w masks n bytes, the first of which is byte `total' of its stream.
Masked(w, total, n, base) ==
  /\ w \in Seq(Masks) /\ Len(w) = n
  /\ \A i \in 1..n : IsMask(w[i], total + i - 1, base)

LEMMA ProcessSpent ==
  ASSUME NEW total \in Nat, NEW base, NEW stream, Spent(stream, total, base), NEW n \in Nat
  PROVE  /\ Masked(Process(stream, n).masks, total, n, base)
         /\ Spent(Process(stream, n).after, total + n, base)
<1> DEFINE masks == Process(stream, n).masks
           after == Process(stream, n).after
<1>1. stream \in Streams /\ BlockSize \in Nat \ {0} /\ stream.offset = total % BlockSize
  BY CipherChannelAssumption DEF Spent
<1>2. masks = [i \in 1..n |-> <<Block(stream, i), (stream.offset + i - 1) % BlockSize>>]
  BY DEF Process
<1> HIDE DEF masks
<1>3. ASSUME NEW i \in 1..n
      PROVE  masks[i] \in Masks /\ IsMask(masks[i], total + i - 1, base)
  <2> DEFINE block == Block(stream, i)
             offset == (stream.offset + i - 1) % BlockSize
  <2>1. masks[i] = <<block, offset>>
    BY <1>2
  <2>2. total + i - 1 \in Nat /\ i \in Nat /\ i > 0 /\ Spent(stream, total, base)
    OBVIOUS
  <2>3. /\ block \in Seq(Keys) /\ Len(block) = Blocks(total + i)
        /\ Begun(block, base)
    BY <2>2, BlockSpent
  <2>4. Blocks(total + i) = ((total + i - 1) \div BlockSize) + 1
    BY <2>2, Rounded
  <2>5. offset = (total + i - 1) % BlockSize
    <3>1. total + (i - 1) = total + i - 1 /\ stream.offset + (i - 1) = stream.offset + i - 1
      BY <1>1 DEF Streams
    <3>2. ((total % BlockSize) + (i - 1)) % BlockSize = (total + (i - 1)) % BlockSize
      BY Rounded
    <3>. QED BY <1>1, <3>1, <3>2
  <2>6. (total + i - 1) \div BlockSize \in Nat /\ offset \in 0..(BlockSize - 1)
    <3>1. (total + i - 1) % BlockSize \in 0..(BlockSize - 1)
      BY <1>1, <2>2, DivisionExact
    <3>. QED BY <1>1, <2>2, <2>5, <3>1, DivisionNat
  <2> HIDE DEF block, offset
  <2>7. block # <<>>
    BY <2>3, <2>4, <2>6
  <2>8. masks[i] \in Masks
    BY <2>1, <2>3, <2>6 DEF Masks
  <2>9. masks[i][1] = block
    BY <2>1
  <2>. QED BY <2>1, <2>3, <2>4, <2>5, <2>7, <2>8, <2>9 DEF IsMask, Begun
<1>4. Masked(masks, total, n, base)
  BY <1>2, <1>3 DEF Masked
<1>5. Spent(after, total + n, base)
  <2>1. after = [stream EXCEPT !.iv = Block(stream, n), !.offset = (stream.offset + n) % BlockSize]
    BY DEF Process
  <2>2. after \in Streams
    BY <1>1, ProcessTyped
  <2> HIDE DEF after
  <2>3. after.iv = Block(stream, n) /\ after.key = stream.key
    BY <1>1, <2>1 DEF Streams
  <2>4. after.offset = (total + n) % BlockSize
    <3>1. after.offset = (stream.offset + n) % BlockSize
      BY <1>1, <2>1 DEF Streams
    <3>2. ((total % BlockSize) + n) % BlockSize = (total + n) % BlockSize
      BY Rounded
    <3>. QED BY <1>1, <3>1, <3>2
  <2>5. /\ Len(Block(stream, n)) = Blocks(total + n)
        /\ Begun(Block(stream, n), base)
    BY BlockSpent
  <2>. QED BY <2>2, <2>3, <2>4, <2>5 DEF Spent
<1>. QED BY <1>4, <1>5 DEF masks, after

LEMMA MaskedConcat ==
  ASSUME NEW total \in Nat, NEW base, NEW m \in Nat, NEW n \in Nat,
         NEW u, Masked(u, total, m, base), NEW v, Masked(v, total + m, n, base)
  PROVE  Masked(u \o v, total, m + n, base)
<1>1. u \in Seq(Masks) /\ v \in Seq(Masks) /\ Len(u) = m /\ Len(v) = n
  BY DEF Masked
<1>2. /\ u \o v \in Seq(Masks) /\ Len(u \o v) = m + n
      /\ \A i \in 1..(m + n) : (u \o v)[i] = IF i <= m THEN u[i] ELSE v[i - m]
  BY <1>1, ConcatProperties
<1>3. ASSUME NEW i \in 1..(m + n)
      PROVE  IsMask((u \o v)[i], total + i - 1, base)
  <2>1. CASE i <= m
    <3>1. i \in 1..m
      BY <2>1
    <3>2. (u \o v)[i] = u[i]
      BY <1>2, <2>1
    <3>. QED BY <3>1, <3>2 DEF Masked
  <2>2. CASE ~ (i <= m)
    <3> DEFINE j == i - m
    <3>1. j \in 1..n /\ (u \o v)[i] = v[j] /\ (total + m) + j - 1 = total + i - 1
      BY <1>2, <2>2
    <3> HIDE DEF j
    <3>2. IsMask(v[j], (total + m) + j - 1, base)
      BY <3>1 DEF Masked
    <3>. QED BY <3>1, <3>2
  <2>. QED BY <2>1, <2>2
<1>. QED BY <1>2, <1>3 DEF Masked

\* A permutation of the key keeps the key's origin, and the stream goes on.
LEMMA PermuteSpent ==
  ASSUME NEW total \in Nat, NEW base, NEW stream, Spent(stream, total, base), NEW flag \in Nat
  PROVE  Spent(Permute(stream, flag), total, base)
<1>1. Permute(stream, flag) \in Streams
  BY PermuteTyped DEF Spent
<1>2. /\ Permute(stream, flag).iv = stream.iv /\ Permute(stream, flag).offset = stream.offset
      /\ Permute(stream, flag).key.base = stream.key.base
  BY DEF Permute, Spent, Streams, Keys
<1>. QED BY <1>1, <1>2 DEF Spent

LEMMA DataSpent ==
  ASSUME NEW total \in Nat, NEW base, NEW stream, Spent(stream, total, base),
         NEW size \in Nat, NEW flag \in Nat
  PROVE  /\ Masked(ProcessData(stream, size, flag).masks, total, size, base)
         /\ Spent(ProcessData(stream, size, flag).after, total + size, base)
<1>1. CASE size = 0 \/ flag = 0
  BY <1>1, ProcessSpent DEF ProcessData
<1>2. CASE ~ (size = 0 \/ flag = 0)
  <2> DEFINE prefix == IF size < OldKeyBytes THEN size ELSE OldKeyBytes
             left   == size - prefix
             first  == Process(stream, prefix)
             next   == Permute(first.after, flag)
             rest   == Process(next, left)
  <2>1. prefix \in Nat /\ left \in Nat /\ prefix + left = size
    BY CipherChannelAssumption
  <2>2. /\ ProcessData(stream, size, flag).masks = first.masks \o rest.masks
        /\ ProcessData(stream, size, flag).after = rest.after
    BY <1>2 DEF ProcessData
  <2> HIDE DEF prefix, left
  <2>3. Masked(first.masks, total, prefix, base) /\ Spent(first.after, total + prefix, base)
    BY <2>1, ProcessSpent
  <2>4. total + prefix \in Nat
    BY <2>1
  <2> HIDE DEF first
  <2>5. Spent(next, total + prefix, base)
    BY <2>3, <2>4, PermuteSpent
  <2> HIDE DEF next
  <2>6. /\ Masked(rest.masks, total + prefix, left, base)
        /\ Spent(rest.after, (total + prefix) + left, base)
    BY <2>1, <2>4, <2>5, ProcessSpent
  <2> HIDE DEF rest
  <2>7. (total + prefix) + left = total + size
    BY <2>1
  <2>8. Masked(first.masks \o rest.masks, total, prefix + left, base)
    BY <2>1, <2>3, <2>6, MaskedConcat
  <2>. QED BY <2>1, <2>2, <2>6, <2>7, <2>8
<1>. QED BY <1>1, <1>2

-----------------------------------------------------------------------------
(* The inductive invariant.                                                *)

Base(s) == IF s = "client" THEN "second" ELSE "first"

\* One mask for each byte so far.
Used(s) == \E w : Masked(w, 0, masked[s].bytes, Base(s)) /\ masked[s].masks = Range(w)

UsedInv ==
  /\ masked \in [Roles -> [masks : SUBSET Masks, bytes : Nat]]
  /\ \A s \in Roles : Used(s) /\ Spent(encoder[s], masked[s].bytes, Base(s))

LEMMA InitUsed == Init => UsedInv
<1> SUFFICES ASSUME Init
             PROVE  UsedInv
  OBVIOUS
<1>1. masked = [s \in Roles |-> [masks |-> {}, bytes |-> 0]]
  BY DEF Init
<1>2. masked \in [Roles -> [masks : SUBSET Masks, bytes : Nat]]
  BY <1>1
<1>3. ASSUME NEW s \in Roles
      PROVE  Used(s)
  <2> DEFINE w == <<>>
  <2>1. w \in Seq(Masks) /\ Len(w) = 0 /\ Range(w) = {}
    BY EmptySeq DEF Range
  <2>2. Masked(w, 0, 0, Base(s))
    BY <2>1 DEF Masked
  <2>3. masked[s].masks = {} /\ masked[s].bytes = 0
    BY <1>1, <1>3
  <2> HIDE DEF w
  <2>. QED BY <2>1, <2>2, <2>3 DEF Used
<1>4. ASSUME NEW s \in Roles
      PROVE  Spent(encoder[s], masked[s].bytes, Base(s))
  <2>1. encoder[s] = NewStream(Base(s)) /\ masked[s].bytes = 0 /\ Base(s) \in {"first", "second"}
    BY <1>1, <1>4 DEF Init, Base
  <2> DEFINE stream == NewStream(Base(s))
  <2>2. stream = [key |-> [base |-> Base(s), rounds |-> 0], iv |-> <<>>, offset |-> 0]
    BY DEF NewStream
  <2> HIDE DEF stream
  <2>3. /\ stream.key.base = Base(s) /\ stream.iv = <<>> /\ stream.offset = 0
        /\ stream \in Streams
    BY <2>1, <2>2, CipherChannelAssumption, EmptySeq DEF Streams, Keys
  <2>4. 0 % BlockSize = 0 /\ Blocks(0) = 0
    <3>1. BlockSize \in Nat \ {0}
      BY CipherChannelAssumption
    <3>2. (BlockSize * 0 + (BlockSize - 1)) \div BlockSize = 0
      BY <3>1, DivisionUnique
    <3>3. BlockSize * 0 + (BlockSize - 1) = 0 + BlockSize - 1
      BY <3>1
    <3>. QED BY <3>1, <3>2, <3>3 DEF Blocks
  <2>. QED BY <2>1, <2>3, <2>4 DEF Spent, Begun, stream
<1>. QED BY <1>2, <1>3, <1>4 DEF UsedInv

LEMMA RangeConcat ==
  ASSUME NEW S, NEW u \in Seq(S), NEW v \in Seq(S)
  PROVE  Range(u \o v) = Range(u) \cup Range(v)
<1>1. /\ Len(u) \in Nat /\ Len(v) \in Nat
      /\ DOMAIN u = 1..Len(u) /\ DOMAIN v = 1..Len(v) /\ DOMAIN (u \o v) = 1..(Len(u) + Len(v))
      /\ \A i \in 1..(Len(u) + Len(v)) : (u \o v)[i] = IF i <= Len(u) THEN u[i] ELSE v[i - Len(u)]
  BY ConcatProperties
<1> DEFINE w == u \o v
<1>2. ASSUME NEW i \in DOMAIN w
      PROVE  w[i] \in Range(u) \cup Range(v)
  <2>1. CASE i <= Len(u)
    <3>1. i \in DOMAIN u /\ w[i] = u[i]
      BY <1>1, <2>1
    <3>. QED BY <3>1 DEF Range
  <2>2. CASE ~ (i <= Len(u))
    <3>1. i - Len(u) \in DOMAIN v /\ w[i] = v[i - Len(u)]
      BY <1>1, <2>2
    <3>. QED BY <3>1 DEF Range
  <2>. QED BY <2>1, <2>2
<1>3. ASSUME NEW i \in DOMAIN u
      PROVE  u[i] \in Range(w)
  <2>1. i \in DOMAIN w /\ w[i] = u[i]
    BY <1>1
  <2>. QED BY <2>1 DEF Range
<1>4. ASSUME NEW i \in DOMAIN v
      PROVE  v[i] \in Range(w)
  <2>1. i + Len(u) \in DOMAIN w /\ w[i + Len(u)] = v[i]
    BY <1>1
  <2>. QED BY <2>1 DEF Range
<1> HIDE DEF w
<1>5. Range(w) = Range(u) \cup Range(v)
  BY <1>2, <1>3, <1>4 DEF Range
<1>. QED BY <1>5 DEF w

\* A transaction that is encoded takes the masks behind the ones before it.
LEMMA EncodedUsed ==
  ASSUME TypeOK, UsedInv, NEW s \in Roles, NEW size \in Sizes, NEW flag \in Flags,
         QueueEncoded(s, size, flag)
  PROVE  UsedInv'
<1> DEFINE total == masked[s].bytes
           used  == masked[s].masks
           start == encoder[s]
           frame == [kind |-> "data", flag |-> flag, size |-> size, hooks |-> TRUE, from |-> start]
           head  == SentHeader(frame)
           data  == SentData(frame)
           next  == ProcessHeader(start).after
<1>1. /\ size \in Nat /\ flag \in Nat /\ HeaderSize \in Nat /\ total \in Nat /\ used \subseteq Masks
      /\ masked \in [Roles -> [masks : SUBSET Masks, bytes : Nat]]
  BY CipherChannelAssumption DEF UsedInv
<1>2. Spent(start, total, Base(s)) /\ Used(s)
  BY DEF UsedInv
<1>3. head = Process(start, HeaderSize).masks /\ next = Process(start, HeaderSize).after
  BY DEF SentHeader, ProcessHeader
<1>4. data = ProcessData(next, size, flag).masks
  BY DEF SentData
<1>5. /\ encoder' = [encoder EXCEPT ![s] = ProcessData(next, size, flag).after]
      /\ masked' = [masked EXCEPT ![s] = [masks |-> used \cup Range(head \o data),
                                         bytes |-> total + HeaderSize + size]]
  BY DEF QueueEncoded
<1> HIDE DEF total, used, start, frame, head, data, next
<1>6. Masked(head, total, HeaderSize, Base(s)) /\ Spent(next, total + HeaderSize, Base(s))
  BY <1>1, <1>2, <1>3, ProcessSpent
<1>7. total + HeaderSize \in Nat
  BY <1>1
<1>8. /\ Masked(data, total + HeaderSize, size, Base(s))
      /\ Spent(ProcessData(next, size, flag).after, (total + HeaderSize) + size, Base(s))
  BY <1>1, <1>4, <1>6, <1>7, DataSpent
<1>9. Masked(head \o data, total, HeaderSize + size, Base(s))
  BY <1>1, <1>6, <1>8, MaskedConcat
<1>10. PICK w : Masked(w, 0, total, Base(s)) /\ used = Range(w)
  BY <1>2 DEF Used, total, used
<1> DEFINE new == head \o data
<1>11. Masked(w \o new, 0, total + (HeaderSize + size), Base(s))
  <2>1. 0 + total = total /\ HeaderSize + size \in Nat
    BY <1>1
  <2>. QED BY <1>1, <1>9, <1>10, <2>1, MaskedConcat
<1>12. Range(w \o new) = used \cup Range(new) /\ Range(new) \subseteq Masks
  <2>1. w \in Seq(Masks) /\ new \in Seq(Masks)
    BY <1>9, <1>10 DEF Masked
  <2> HIDE DEF new
  <2>2. Range(new) \subseteq Masks
    BY <2>1 DEF Range
  <2>. QED BY <1>10, <2>1, <2>2, RangeConcat
<1> HIDE DEF new
<1> DEFINE bytes == total + HeaderSize + size
           masks == used \cup Range(new)
<1>13. bytes \in Nat /\ bytes = total + (HeaderSize + size) /\ bytes = (total + HeaderSize) + size
  BY <1>1
<1>14. masks \subseteq Masks
  BY <1>1, <1>12
<1>15. masked' = [masked EXCEPT ![s] = [masks |-> masks, bytes |-> bytes]]
  BY <1>5 DEF new
<1> HIDE DEF bytes, masks
<1>16. /\ masked'[s].masks = masks /\ masked'[s].bytes = bytes
       /\ \A t \in Roles \ {s} : masked'[t] = masked[t]
       /\ masked' \in [Roles -> [masks : SUBSET Masks, bytes : Nat]]
  BY <1>1, <1>13, <1>14, <1>15
<1>17. Used(s)'
  <2>1. Masked(w \o new, 0, bytes, Base(s)) /\ masks = Range(w \o new)
    BY <1>11, <1>12, <1>13 DEF masks
  <2>. QED BY <1>16, <2>1 DEF Used
<1>18. Spent(encoder'[s], masked'[s].bytes, Base(s))
       /\ \A t \in Roles \ {s} : encoder'[t] = encoder[t]
  <2>1. encoder \in [Roles -> Streams]
    BY DEF TypeOK
  <2>. QED BY <1>5, <1>8, <1>13, <1>16, <2>1
<1>19. ASSUME NEW t \in Roles \ {s}
       PROVE  Used(t)' /\ Spent(encoder'[t], masked'[t].bytes, Base(t))
  BY <1>16, <1>18 DEF UsedInv, Used
<1>. QED BY <1>16, <1>17, <1>18, <1>19 DEF UsedInv

LEMMA StepUsed == TypeOK /\ UsedInv /\ [Next]_vars => UsedInv'
<1> SUFFICES ASSUME TypeOK, UsedInv, [Next]_vars
             PROVE  UsedInv'
  OBVIOUS
<1>1. CASE UNCHANGED <<encoder, masked>>
  BY <1>1 DEF UsedInv, Used
<1>2. CASE \E s \in Roles, size \in Sizes, flag \in Flags : QueueEncoded(s, size, flag)
  BY <1>2, EncodedUsed
<1>3. UNCHANGED <<encoder, masked>>
        \/ \E s \in Roles, size \in Sizes, flag \in Flags : QueueEncoded(s, size, flag)
  BY DEF Next, vars, Ask, Queue, QueuePlain, ReadHeader, ReadData
<1>. QED BY <1>1, <1>2, <1>3

-----------------------------------------------------------------------------
(* One mask for each number below n are n masks.                           *)

LEMMA MasksCounted ==
  ASSUME NEW n \in Nat, NEW base, NEW w, Masked(w, 0, n, base)
  PROVE  IsFiniteSet(Range(w)) /\ Cardinality(Range(w)) = n
<1>1. w \in Seq(Masks) /\ Len(w) = n /\ DOMAIN w = 1..n
  BY DEF Masked
<1>2. ASSUME NEW i \in 1..n, NEW j \in 1..n, w[i] = w[j]
      PROVE  i = j
  <2> DEFINE k == i - 1
             l == j - 1
             b == BlockSize
  <2>1. k \in Nat /\ l \in Nat /\ 0 + i - 1 = k /\ 0 + j - 1 = l /\ i = k + 1 /\ j = l + 1
    OBVIOUS
  <2>2. IsMask(w[i], k, base) /\ IsMask(w[j], l, base)
    BY <2>1 DEF Masked
  <2>3. b \in Nat \ {0}
    BY CipherChannelAssumption
  <2> HIDE DEF k, l, b
  <2>4. (k \div BlockSize) + 1 = (l \div BlockSize) + 1 /\ k % BlockSize = l % BlockSize
    <3>1. w[i] = <<w[i][1], k % BlockSize>> /\ w[j] = <<w[j][1], l % BlockSize>>
      BY <2>2 DEF IsMask
    <3>2. w[i][2] = k % BlockSize /\ w[j][2] = l % BlockSize
      BY <3>1
    <3>3. Len(w[i][1]) = (k \div BlockSize) + 1 /\ Len(w[j][1]) = (l \div BlockSize) + 1
      BY <2>2 DEF IsMask
    <3>. QED BY <1>2, <3>2, <3>3
  <2>5. /\ k \div b \in Int /\ l \div b \in Int
        /\ k = (b * (k \div b)) + (k % b) /\ l = (b * (l \div b)) + (l % b)
    BY <2>1, <2>3, DivisionExact
  <2>6. k \div b = l \div b /\ k % b = l % b
    BY <2>4, <2>5 DEF b
  <2>. QED BY <2>1, <2>5, <2>6
<1>3. w \in Bijection(1..n, Range(w))
  <2>1. w \in [1..n -> Range(w)]
    BY <1>1 DEF Range
  <2>2. \A m \in Range(w) : \E i \in 1..n : w[i] = m
    BY <1>1 DEF Range
  <2>. QED BY <1>2, <2>1, <2>2 DEF Bijection, Injection, Surjection, IsInjective
<1>4. ExistsBijection(1..n, Range(w))
  BY <1>3 DEF ExistsBijection
<1>5. IsFiniteSet(1..n) /\ Cardinality(1..n) = n
  BY FS_Interval
<1>. QED BY <1>4, <1>5, FS_Bijection

LEMMA UsedApart == UsedInv => NoMaskTwice
<1> SUFFICES ASSUME UsedInv
             PROVE  NoMaskTwice
  OBVIOUS
<1> DEFINE c == masked["client"]
           d == masked["server"]
<1>1. c.bytes \in Nat /\ d.bytes \in Nat /\ Base("client") = "second" /\ Base("server") = "first"
  BY DEF UsedInv, Roles, Base
<1>2. PICK u : Masked(u, 0, c.bytes, "second") /\ c.masks = Range(u)
  BY <1>1 DEF UsedInv, Used, Roles
<1>3. PICK v : Masked(v, 0, d.bytes, "first") /\ d.masks = Range(v)
  BY <1>1 DEF UsedInv, Used, Roles
<1> HIDE DEF c, d
<1>4. /\ IsFiniteSet(c.masks) /\ Cardinality(c.masks) = c.bytes
      /\ IsFiniteSet(d.masks) /\ Cardinality(d.masks) = d.bytes
  BY <1>1, <1>2, <1>3, MasksCounted
<1>5. c.masks \cap d.masks = {}
  <2> SUFFICES ASSUME NEW m \in c.masks, m \in d.masks
               PROVE  FALSE
    OBVIOUS
  <2>1. m[1][1].base = "second"
    <3>1. PICK i \in 1..c.bytes : m = u[i]
      BY <1>2 DEF Range, Masked
    <3>. QED BY <1>2, <3>1 DEF Masked, IsMask
  <2>2. m[1][1].base = "first"
    <3>1. PICK i \in 1..d.bytes : m = v[i]
      BY <1>3 DEF Range, Masked
    <3>. QED BY <1>3, <3>1 DEF Masked, IsMask
  <2>. QED BY <2>1, <2>2
<1>6. Cardinality(c.masks \cup d.masks)
        = Cardinality(c.masks) + Cardinality(d.masks) - Cardinality({})
  BY <1>4, <1>5, FS_Union
<1>7. Cardinality({}) = 0
  BY FS_EmptySet
<1>8. Cardinality(c.masks \cup d.masks) = c.bytes + d.bytes
  BY <1>1, <1>4, <1>6, <1>7
<1>. QED BY <1>8 DEF NoMaskTwice, c, d

\* No two bytes are ever masked alike, in one direction or across the two
\* (Ofb64 of blowfish.cpp under TransactionCipher): transactions and key
\* changes never take a stream back to where it was, and the two sides start
\* from different keys.
THEOREM MasksAreFresh == Spec => []NoMaskTwice
<1>. QED BY InitUsed, StepUsed, UsedApart, TypeCorrect, PTL DEF Spec
=============================================================================
