--------------------------- MODULE CipherChannel ---------------------------
(***************************************************************************)
(* hotline::protocol::auth::TransactionCipher on both ends of a            *)
(* connection, called through the crypto hooks of ConnectionBase.          *)
(*                                                                         *)
(* The cipher is an OFB stream: a byte is masked with a byte of a block,   *)
(* and each block is the encryption, under the current key, of the block   *)
(* before it.  Cryptography is symbolic: a key is named by where the login *)
(* schedule left it and how often it was permuted since, a block by the    *)
(* keys that made it, and a mask is a block and an offset into it.  Bytes  *)
(* decode exactly if the receiver applies the mask the sender applied.     *)
(*                                                                         *)
(* The applications switch to the cipher as at a login: the client asks    *)
(* and keeps quiet, the server answers in plaintext and installs its       *)
(* hooks, the client installs its own when it is given the answer.         *)
(***************************************************************************)
EXTENDS Naturals, Sequences, FiniteSets, SequencesExt

CONSTANTS
  BlockSize,    \* kBlowfishBlockSize, 8
  HeaderSize,   \* kTransactionHeaderSize, 20
  OldKeyBytes,  \* data bytes processed before the key is permuted, 2
  Flags,        \* what choose_flag returns
  Sizes,        \* the sizes of the data
  MaxFrames     \* bound: transactions a side queues

ASSUME CipherChannelAssumption ==
  /\ BlockSize \in Nat \ {0}
  /\ HeaderSize \in Nat \ {0}
  /\ OldKeyBytes \in Nat
  /\ Flags \subseteq 0..255
  /\ Sizes \subseteq Nat
  /\ MaxFrames \in Nat

VARIABLES
  encoder,  \* encode_key_ and encode_stream_ of each side
  decoder,  \* decode_key_ and decode_stream_
  secure,   \* the sides whose crypto_ hooks are installed
  wire,     \* what a side queued and its peer has not parsed
  pending,  \* pending_flag_ between a header and its data, or NoHeader
  dead,     \* the sides that refused a header
  queued,   \* how many transactions a side queued
  asked,    \* whether the client asked to switch
  masked    \* the masks each side used, and how many bytes it masked (history)

vars == <<encoder, decoder, secure, wire, pending, dead, queued, asked, masked>>

Roles   == {"client", "server"}
Peer(s) == IF s = "client" THEN "server" ELSE "client"

NoHeader == 256                \* no flag, which is one byte
Plain    == <<<<>>, BlockSize>> \* no mask, which has an offset in a block

\* The two keys of the login schedule, before any permutation.
Keys    == [base : {"first", "second"}, rounds : Nat]
Streams == [key : Keys, iv : Seq(Keys), offset : 0..(BlockSize - 1)]

\* A transaction on the wire: its bytes follow from the stream it was made
\* from, or are plaintext when it was queued without hooks.
Frames == [kind : {"data", "ask", "answer"}, flag : 0..255, size : Nat,
           hooks : BOOLEAN, from : Streams]

NewStream(base) ==
  [key |-> [base |-> base, rounds |-> 0], iv |-> <<>>, offset |-> 0]

---------------------------------------------------------------------------
(* Blowfish::Ofb64.                                                        *)

\* How many blocks the next n bytes make.
NewBlocks(stream, n) ==
  (stream.offset + n + BlockSize - 1) \div BlockSize
    - (stream.offset + BlockSize - 1) \div BlockSize

Block(stream, n) == stream.iv \o [b \in 1..NewBlocks(stream, n) |-> stream.key]

\* Faulty: the offset runs past the block.
ProcessUnwrapped(stream, n) ==
  [masks |-> [i \in 1..n |-> <<Block(stream, i), stream.offset + i - 1>>],
   after |-> [stream EXCEPT !.iv = Block(stream, n), !.offset = stream.offset + n]]

\* The masks of the next n bytes, and the stream behind them.
Process(stream, n) ==
  [masks |-> [i \in 1..n |->
                <<Block(stream, i), (stream.offset + i - 1) % BlockSize>>],
   after |-> [stream EXCEPT !.iv = Block(stream, n),
                            !.offset = (stream.offset + n) % BlockSize]]

(* TransactionCipher.                                                      *)

\* permute_key() and set_encode_key() or set_decode_key(): the stream goes on.
Permute(stream, flag) == [stream EXCEPT !.key.rounds = @ + flag]

\* Faulty: every transaction starts a stream of its own.
ProcessHeaderAfresh(stream) == Process([stream EXCEPT !.iv = <<>>, !.offset = 0], HeaderSize)

ProcessHeader(stream) == Process(stream, HeaderSize)

ProcessData(stream, size, flag) ==
  IF size = 0 \/ flag = 0 THEN Process(stream, size)
  ELSE LET prefix == IF size < OldKeyBytes THEN size ELSE OldKeyBytes
           first  == Process(stream, prefix)
           rest   == Process(Permute(first.after, flag), size - prefix)
       IN  [masks |-> first.masks \o rest.masks, after |-> rest.after]

\* Faulty: the flag of the header is not kept for the data.
DecodeDataUnderOldKey(stream, size, flag) == ProcessData(stream, size, 0)

DecodeData(stream, size, flag) == ProcessData(stream, size, flag)

---------------------------------------------------------------------------

Init ==
  /\ encoder = [s \in Roles |-> NewStream(IF s = "client" THEN "second" ELSE "first")]
  /\ decoder = [s \in Roles |-> NewStream(IF s = "client" THEN "first" ELSE "second")]
  /\ secure = {}
  /\ wire = [s \in Roles |-> <<>>]
  /\ pending = [s \in Roles |-> NoHeader]
  /\ dead = {}
  /\ queued = [s \in Roles |-> 0]
  /\ asked = FALSE
  /\ masked = [s \in Roles |-> [masks |-> {}, bytes |-> 0]]

PlainMasks(n) == [i \in 1..n |-> Plain]

\* The masks of the header and of the data of a transaction.
SentHeader(frame) ==
  IF frame.hooks THEN ProcessHeader(frame.from).masks ELSE PlainMasks(HeaderSize)
SentData(frame) ==
  IF frame.hooks
  THEN ProcessData(ProcessHeader(frame.from).after, frame.size, frame.flag).masks
  ELSE PlainMasks(frame.size)

PlainFrame(s, kind, size) ==
  [kind |-> kind, flag |-> 0, size |-> size, hooks |-> FALSE, from |-> encoder[s]]

\* queue_transaction() without hooks, and with them.
QueuePlain(s, size) ==
  /\ s \notin secure
  /\ wire' = [wire EXCEPT ![s] = Append(@, PlainFrame(s, "data", size))]
  /\ UNCHANGED <<encoder, masked>>

QueueEncoded(s, size, flag) ==
  LET frame == [kind |-> "data", flag |-> flag, size |-> size,
                hooks |-> TRUE, from |-> encoder[s]]
  IN  /\ s \in secure
      /\ wire' = [wire EXCEPT ![s] = Append(@, frame)]
      /\ encoder' = [encoder EXCEPT
                       ![s] = ProcessData(ProcessHeader(@).after, size, flag).after]
      /\ masked' = [masked EXCEPT
           ![s] = [masks |-> @.masks \cup Range(SentHeader(frame) \o SentData(frame)),
                   bytes |-> @.bytes + HeaderSize + size]]

Queue(s) ==
  /\ s \notin dead /\ queued[s] < MaxFrames
  /\ s = "client" => ~asked \/ s \in secure
  /\ \E size \in Sizes :
       QueuePlain(s, size) \/ \E flag \in Flags : QueueEncoded(s, size, flag)
  /\ queued' = [queued EXCEPT ![s] = @ + 1]
  /\ UNCHANGED <<decoder, secure, pending, dead, asked>>

\* The client asks for the cipher.
Ask ==
  /\ "client" \notin dead /\ ~asked
  /\ asked' = TRUE
  /\ wire' = [wire EXCEPT !["client"] = Append(@, PlainFrame("client", "ask", 1))]
  /\ UNCHANGED <<encoder, decoder, secure, pending, dead, queued, masked>>

---------------------------------------------------------------------------
(* The receiving side: parse_inbound() and complete_transaction().         *)

Arrived(s) == s \notin dead /\ wire[Peer(s)] # <<>>

\* What this side would unmask the next header and the next data with.
HeaderMasks(s) ==
  IF s \in secure THEN ProcessHeader(decoder[s]).masks ELSE PlainMasks(HeaderSize)
DataMasks(s, size) ==
  IF s \in secure THEN DecodeData(decoder[s], size, pending[s]).masks
  ELSE PlainMasks(size)

\* The header is decoded as soon as it is there, then checked: bytes that are
\* not a header, or announce no data, end the connection.
ReadHeader(s) ==
  LET frame == Head(wire[Peer(s)])
  IN  /\ Arrived(s) /\ pending[s] = NoHeader
      /\ IF s \in secure
         THEN decoder' = [decoder EXCEPT ![s] = ProcessHeader(@).after]
         ELSE UNCHANGED decoder
      /\ IF SentHeader(frame) # HeaderMasks(s) \/ frame.size = 0
         THEN dead' = dead \cup {s} /\ UNCHANGED pending
         ELSE /\ pending' = [pending EXCEPT
                               ![s] = IF s \in secure THEN frame.flag ELSE 0]
              /\ UNCHANGED dead
      /\ UNCHANGED <<encoder, secure, wire, queued, asked, masked>>

\* on_transaction: the side that is asked, or answered, installs its hooks.
Callback(s, frame) ==
  \/ /\ frame.kind = "data"
     /\ wire' = [wire EXCEPT ![Peer(s)] = Tail(@)]
     /\ UNCHANGED secure
  \/ /\ frame.kind = "ask"
     /\ wire' = [wire EXCEPT ![Peer(s)] = Tail(@),
                             ![s] = Append(@, PlainFrame(s, "answer", 1))]
     /\ secure' = secure \cup {s}
  \/ /\ frame.kind = "answer"
     /\ wire' = [wire EXCEPT ![Peer(s)] = Tail(@)]
     /\ secure' = secure \cup {s}

\* The data is decoded once it is complete, under the flag of its header.
ReadData(s) ==
  LET frame == Head(wire[Peer(s)])
  IN  /\ Arrived(s) /\ pending[s] # NoHeader
      /\ IF s \in secure
         THEN decoder' = [decoder EXCEPT
                            ![s] = DecodeData(@, frame.size, pending[s]).after]
         ELSE UNCHANGED decoder
      /\ Callback(s, frame)
      /\ pending' = [pending EXCEPT ![s] = NoHeader]
      /\ UNCHANGED <<encoder, dead, queued, asked, masked>>

Next ==
  \/ Ask
  \/ \E s \in Roles : Queue(s) \/ ReadHeader(s) \/ ReadData(s)

Spec == Init /\ [][Next]_vars

---------------------------------------------------------------------------
(* Properties.                                                             *)

\* Each stream stays in its type: the offset never leaves the block.
TypeOK ==
  /\ encoder \in [Roles -> Streams]
  /\ decoder \in [Roles -> Streams]
  /\ secure \subseteq Roles
  /\ wire \in [Roles -> Seq(Frames)]
  /\ pending \in [Roles -> Nat]
  /\ dead \subseteq Roles
  /\ queued \in [Roles -> Nat]
  /\ asked \in BOOLEAN

\* The two ends stay in step: whatever reaches a live side is unmasked with
\* exactly the masks it was given, across key changes in the middle of a
\* block, data that arrives long after its header, transactions pipelined
\* behind the answer, and traffic in the other direction.
InStep ==
  \A s \in Roles :
    Arrived(s) =>
      LET frame == Head(wire[Peer(s)])
      IN  IF pending[s] = NoHeader
          THEN SentHeader(frame) = HeaderMasks(s)
          ELSE SentData(frame) = DataMasks(s, frame.size)

\* No two bytes are ever masked alike, in one direction or across the two:
\* the streams persist over transactions and the two sides start from
\* different keys.
NoMaskTwice ==
  Cardinality(masked["client"].masks \cup masked["server"].masks)
    = masked["client"].bytes + masked["server"].bytes

\* A flag other than 0 changes the key for all data but its first two bytes
\* ("the remainder encoded under the new key").
RemainderUnderNewKey ==
  \A s \in Roles : \A i \in 1..Len(wire[s]) :
    LET frame == wire[s][i]
    IN  frame.hooks /\ frame.flag # 0 =>
          \A b \in (OldKeyBytes + 1)..frame.size :
            LET made == SentData(frame)[b][1]
                head == SentHeader(frame)[HeaderSize][1]
            IN  Last(made) # Last(head)

=============================================================================
