# Slopline's networking core in TLA+

A formal model of the networking core of Slopline, the modern rewrite of
Hotline: the connection state machines of client and server, the framing and
reassembly of transactions, the login session, the connection cipher, the event
loop over a poller, the codecs of the wire formats, and the texts of addresses.
TLC checks the modules on small instances. TLAPS proves the safety properties for
every value of the constants, among them that two connections implement a
reliable channel, and that the messages of all twenty-nine kinds, lists of any
length included, come back as they were sent (but for forks too large for their
size field); of the addresses it proves nothing.

Paths below are relative to the repository; `net/`, `client/`, `server/` and
`protocol/` stand for `src/hotline/<name>/`, `aw/` for `src/appwarrior/`. What
lies under `audit/` is the legacy program, kept as evidence of the formats. It is
not built and not modelled.

## 1. Inventory

Everything in this program is single-threaded and driven by readiness events:
there is no lock, no thread and nothing on disk. What makes it hard is that
sockets cut and refuse where they like, that the peer says how long everything
is, and that handlers call back into applications, which call handlers.

| Component | State | Operations | Talks to |
|---|---|---|---|
| `ConnectionBase` (net/src/connection.cpp) | `state_`, `receive_stage_`, `expected_bytes_`, `inbound_`, `pending_header_`, `partial_`, `send_queue_`, the socket | `start`, `service_readable`, `service_writable`, `parse_inbound`, `complete_transaction`, `queue_transaction`, `queue_keepalive`, `flush_sends`, `close`, `mark_dead` | called by the event loop; calls `on_established`, `on_transaction`, `on_closed`, which may call `queue_transaction` and `close` |
| `ClientConnection`, `ServerConnection` ({client,server}/src/connection.cpp) | none of their own | `start`, `handle_handshake` | override the handshake of the base class |
| `Session` (net/src/session.cpp) | `state_`, `login_`, `access_` | `process`, `close` | is given what `on_transaction` is given, returns a reply to queue; calls `lookup_user` |
| `TransactionCipher`, key schedule, OFB stream (protocol/.../transaction_cipher.h, key_schedule.h, aw/crypto/src/blowfish.cpp) | two keys, two streams with an IV and an offset | encode and decode of header and data, key permutation | installed as the hooks `crypto_` of a connection |
| `Socket`, `Listener`, `Poller` (aw/net) | descriptors; the set of interests | accept, send, receive, close; add, remove, wait | the kernel; loops written by applications |
| Codecs (protocol/src) | none | encode and decode of field lists, payloads, file transfers, tracker messages, archives | called with what transactions, datagrams and files hold |
| Handshake and transaction header codecs (protocol/src/handshake.cpp, transaction.cpp, transaction.h) | none | encode, decode, validate | called by the connections |
| HOPE negotiation, login scrambling (protocol/src/hope.cpp, auth.h) | none | build and read the fields of three messages | no caller yet |
| `IpAddress` (aw/net/src/address.cpp) | none | to and from text, to and from `sockaddr` | sockets, and whoever reads what a user typed |
| IVA1 arrays (aw/core/src/ivar_array.cpp) | none | read an offset table | resources of the legacy program |
| Digests, Blowfish (aw/crypto), GUID, bits, alignment (aw/core) | a partial block | padding, arithmetic | the cipher, the payloads |
| Applications | they do not exist at this commit | | the tests stand in for them |

What is hard in each, and what makes it correct:

* **Connection.** A send that fails inside a callback kills the connection under
  the feet of the parse loop that called it. Parts of one transaction may lie
  about their total. Bytes that arrived get no second event. Correct means: it
  dies once and stays dead, memory and dispatch are within the receive policy,
  only an established connection dispatches, nothing that can be handled stays
  in the buffer, the loop returns.
* **A pair of connections.** Both streams are cut anywhere, both directions may
  be full at once, callbacks queue in the middle of a handshake. Correct means
  that two applications see a reliable FIFO channel of whole transactions.
* **Session.** A client may send anything at any time, log in again as somebody
  else, and the user database changes in between. Correct means that name and
  rights always belong together and were granted on an exact password.
* **Cipher.** Sender and receiver share no counter but the bytes themselves.
  Correct means both permute the key at the same byte, and no mask is used twice.
* **Event loop.** Descriptors are reused while a batch of events still names
  them, and may run out. Correct means one owner for each, that an event for the
  wrong connection does no harm, and that nobody starves.
* **Codecs.** Three or four nested lengths, each with a limit of its own, some
  cut, some padded. Correct means that decoding undoes encoding, that what does
  not fit is refused and nothing else is, that a decoder has understood every byte
  it accepts, and that what it reads from a damaged table or reply is still what
  the bytes say.
* **Addresses.** One IPv6 address has many texts, a text with one wrong character
  is often another address, and the port of a sockaddr is in network order.
  Correct means that the texts of an address are read as that address and no
  other text is, and that nothing is lost on the way to the kernel and back.

`PROJECT.json` lists all components with what is left out of each, and under
`hazards` the places where this can go wrong, each at its line and with the
properties that would notice.

## 2. Modules

| Module | Lines up with | Composes |
|---|---|---|
| `ConnectionBase` | the handlers of net/, client/ and server/connection.cpp, as operators from a connection record to the records they can leave behind | |
| `Connection` | one connection, either role, an arbitrary peer and a socket that may fail at every call | `ConnectionBase` |
| `ConnectionPair` | a client and a server over a byte stream | `ConnectionBase`, refines `TransactionChannel` |
| `TransactionChannel` | the promise: FIFO, whole, at most once, nothing after death | |
| `ConnectionProofs` | theorems about `Connection` | |
| `PairProofs` | theorems about `ConnectionPair`, the refinement among them | |
| `Session`, `SessionProofs` | net/src/session.cpp; theorems about it | |
| `CipherChannel`, `CipherChannelProofs` | transaction_cipher.h, the OFB part of blowfish.cpp, and the crypto hooks in connection.cpp; theorems about it | |
| `EventLoop`, `EventLoopProofs` | poller.cpp, the POSIX part of socket.cpp, and the loop of tests/net; theorems about it | |
| `Address` | address.cpp, and what socket.cpp does with a sockaddr | |
| `Wire` | integers, counted runs of bytes, errors | |
| `Records` | both handshakes, the transaction header, GUIDs, time stamps, the access mask | `Wire` |
| `FieldList`, `Tracker` | the codecs of the same names | `Wire` |
| `Transfer` | the records of a file transfer | `Records` |
| `Archive` | the harc decoder | `Transfer` |
| `Hope` | the HOPE messages and the scrambling of a login | `FieldList` |
| `Ivar` | IVA1 arrays | `Wire` |
| `Digest` | the blocks MD5 and SHA-1 make of a message | `Records` |
| `Codecs` | a message of one of twenty-nine formats, encoded, possibly damaged, decoded | all the codecs above |
| `RecordProofs`, `ListProofs`, `CodecProofs` | theorems about `Codecs`, each module building on the one before: records of fixed parts; records with lists; everything else, and the theorems about all kinds | |
| `MC*` | values for TLC | |

### Connections

`ConnectionBase` counts bytes. A connection is a record with a field for each
member of the class, plus `call`, which says whose code runs: the event loop
(`"none"`), the loop of `parse_inbound()` (`"parse"`) or a callback. A callback is
not one step: between entering and leaving it the application may queue and
close, and `mark_dead()` may run inside a `flush_sends()` inside a callback inside
the parse loop. Each turn of the loop is an operator (`RefuseHandshake`,
`RejectVersion`, `AcceptHandshake`, `AcceptHeader`, `RefuseHeader`, `KeepPart`,
`Dispatch`, `StopParsing`); each includes the trailing assignments of the code,
such as the return to the header stage. Sending is nondeterministic: everything,
a part and would-block, or a part and an error. `message`, `closedCalls`, `shook`
and `starts` are history.

`Connection` chooses what a header says when it is decoded, which covers every
peer; `ConnectionPair` represents the bytes (`<<frame, i>>`, the i-th byte of a
frame), so that what is decoded follows from what was queued, and the receiver
still cuts by its stage alone. `stream[s]` is one sequence: its front lies in the
peer's `inbound_`, its end in the send queue of `s`, the rest in the kernel. `cut` is
history: a call on a socket has failed, or an application has closed its side.

### Session

One action for each outcome of `process()`: a Login that fails (which closes the
session), one that succeeds, Agreed, everything else. `ChangeUser` is the
administrator. `granted` is history: the pairs of name and rights the database
vouched for on an exact password.

### Cipher

Cryptography is symbolic. A key is the login key it came from and how often it
was permuted, a block is the sequence of keys that made it, a mask is a block
and an offset; two bytes are masked alike only if these are equal. Sizes are those
of the code (blocks of 8, headers of 20, 2 bytes under the old key), because the
point is where inside a block a key changes. The frame on the wire carries the
encoder's stream as it was (`from`), from which its masks follow; the receiver
never looks at it except through comparison with its own masks.

### Event loop

`table` is the kernel's descriptor table, `holds` what each Socket and Listener
believes to own. `Wait` takes a snapshot; `Accept`, `Service` and `Ignore` serve the
events of the snapshot one by one, against descriptors that may mean something
else by then. accept() gives the lowest free descriptor, as POSIX demands, which
is what makes reuse happen at once. What becomes of a connection that an event
names follows from what `receive()` finds behind its descriptor at that moment
(`ReadsFrom`, `WouldBlock`), never from the event: bytes, would-block, end of file,
or an error if the descriptor is none of a connection. Bytes that were read may
make a callback close any connection, or be refused, which ends this one.

### Codecs

A byte has `Base` values. The code has 256, the runs 8 or 2: a length of one byte
then ends at 7 and one of two bytes at 63, and the limits are inside the samples.
Encoders and decoders are operators over sequences of bytes with the order of
their checks. A loop over elements is a fold (`Items`), with the loops of the
single decoders in their own definitions. The bytes may be cut, followed by
others, changed in one place, or both. archive.cpp and ivar_array.cpp have only
decoders, so `WriteArchive` and `WriteIvar` are external definitions of the legacy
writer's layout. What zlib makes of a payload is arbitrary, as `Decompress` must
be right whatever it is; the real code bounds only how much it may be.

### Addresses

A text is a sequence of digits and five marks, one of which stands for every
character no address contains. `FromText` has the control of the parser:
brackets or not, a port or not, dotted or not, the place of `::`, the digits of a
group. `TextsOf` is the reference: it says which texts are texts of an address,
and shares no definition with the parser but the value of a numeral.

## 3. Runs

| Run | Question | Answer |
|---|---|---|
| `connection` | Is one connection safe whatever the peer and the socket do? | `PartialWithinPolicy`, `DispatchWithinPolicy`: memory pinned and messages handed over are bounded by the policy (a last part may overshoot, never to twice). `OnClosedOnce`, `DeathIsFinal`: death is reported once and nothing revives. `ClosingHasBytes`: a connection that was rejected can still be ended by a writable event. `ParsedToTheEnd`: nothing that can be handled stays behind. `DispatchOnlyEstablished`. `ParseReturns`: the loop ends. |
| `pair` | Do two of them keep the promise of `TransactionChannel`? | `FramesAligned`: a header is only read where a header was queued. `HandshakeAgreement`: no side is established that the other refused. `ImplementsChannel`: refinement. `EventuallyDelivered`: all that was queued arrives, also with both directions full, unless something failed or was closed, or the peer refuses it. `PairSettles`: both sides established, or both closed for such a reason, and a version the server does not speak got its reply, whole, before the server closed. |
| `session` | Can a client hold rights nobody gave it? | `RightsWereGranted`, `AgreementFollowsLogin`, `ClosedIsFinal`. |
| `cipher` | Do the ends stay in step? | `InStep` for every interleaving and every switch from plaintext; `NoMaskTwice`. |
| `loop` | What do reused descriptors do? | `OneOwner`; `StaleEventHarmless`: a connection whose peer is there and silent survives any event, one about the former owner of its descriptor too; `PeersAreServed`, also with descriptors exhausted. |
| `codecs` | Do twenty-nine formats survive their limits and damage? | `RoundTrip`; `RefusesOnlyTheLarge`; `NothingSkipped`: re-encoding what was decoded gives the same bytes up to the reserved ones; `EndsWhereItSays`: no proper prefix of a message is a message. `MaskHasItsBits`: the number and the bit helpers agree on an access mask. `ItemsInOrder`: a damaged offset table yields no item twice and none outside. `SameAlgorithm`: a damaged reply never makes the client use another MAC. `FewestBlocks`: padding at every length around the end of a block. `NothingMadeUp`: a decompressed entry has its size and its bytes. |
| `address` | Is a text read as the address it is a text of, and as nothing else? | `ReadsExactly`, for every way to write an address and every text one character away from what is printed; `PrintsShortest`: the longest run of zeros is left out, wherever it is; `SameAddress`: through text, sockaddr and both. |

Five runs state what a comment or document says and what the code does not do:

| Run | What the code does |
|---|---|
| `eof` | A transaction that arrived whole is lost if end of file follows in the same `service_readable()`: the code marks the connection dead before it parses (connection.cpp:109). |
| `relogin` | A second Login takes an active session back to awaiting the agreement (session.cpp:97); the documents describe a machine that goes forward. |
| `newkey` | After a key permutation the rest of the current block still masks under the old key (transaction_cipher.h:66); the comment says the remainder is encoded under the new key. Both ends do the same, so traffic decodes: `InStep` holds. |
| `busy` | An idle connection registered for writing, as every loop of the tests does, makes `wait()` return at once forever (poller.cpp:143). A connection tells nobody whether it has something to send. |
| `forks` | A fork of 4 GiB is encoded with size 0 (transfer.cpp:65) where `element_too_large` is promised. |

### Bounds

| Run | Bounds | Why that is enough |
|---|---|---|
| `connection` | header 2 bytes, handshakes 2 and 1, policy 3, sizes 0..4, two keys, at most 5 bytes buffered (`MaxInbound`) and 3 unsent (`MaxUnsent`), one `start()` | Sizes are 0, at and beyond the policy; two keys let parts interleave; the buffer holds a header and a whole body; the queue holds the greeting and a transaction, so every flush can stop half way. What depends on more is proved without bounds. |
| `pair` | two transactions each way with bodies of 0 or 1, sockets of 2 bytes, a reply of 3 | A transaction (2 or 3 bytes) fills the socket or does not fit it, so that every one can be cut, and both directions fill up at once, the handshake included. The reply takes two flushes, so a rejected client must read before the server can close. A body of 0 is what the policy refuses. |
| `session` | two accounts, one with two spellings, two passwords, two masks | Enough for a login as another and for a change of rights or password in between. |
| `cipher` | real sizes, data of 0, 1, 3 and 12, flags 0 and 5, two transactions a side besides the switch | Less than, just more than, and blocks more than the two bytes under the old key; 0 is what the receiver refuses; a second transaction starts in the middle of a block. |
| `loop` | three descriptors, three peers, one unread byte each | The listener and two connections: the third peer waits for a descriptor to be reused. |
| `codecs` | bytes of eight values, lengths up to 64, messages up to 90 bytes are damaged (`MaxDamaged`), blocks of 12 bytes | Every length and count has samples at 0, at its limit and one beyond; a wrong byte is one more, one less or zero. The padded messages have every length from nothing to more than a block. |
| `address` | four octets of two bits, five groups of two digits in base 3, ports of three bits with up to four digits, one mistyped character | Five groups have runs of zeros at the start, in the middle and at the end, two runs of one length, and single zeros; the ports 0 and 7 are the ends of their range; a digit too much, a group too large and a port too large each are one character away. |

`CHECK_DEADLOCK FALSE` is set where the system may stop: all bounds used up, a
connection dead, a message damaged. `Session` never stops.

### Fairness

* `WF(ParseTurn)`: `parse_inbound()` is a loop in one thread and its callbacks
  return. Nothing else is fair in `connection`; a peer need not send.
* `pair` adds weak fairness of `StartSide` (each application starts its side),
  and of `Readable`, `ReadableEOF` and `Sends` for each side: a poller is
  level-triggered, so a loop keeps serving a socket while it is ready. `Sends` is
  a `Writable` in which no send fails. With full sockets it changes nothing, so
  that fairness forces nothing: the queue stays, as after `would_block`, until the
  peer has read. Errors, `close()` and new transactions are not fair, and nothing
  excuses a pair that is stuck: what ends a connection must be a failure that
  happened (`cut`), a version that was rejected, or a size the policy refuses
  (`Unservable`). A reader that waited for its own queue to empty would violate
  `EventuallyDelivered`.
* `WF(Loop)` in `loop`: the process goes round its loop. Peers are not fair.

## 4. Theorems

`ConnectionProofs`, for all sizes, policies, keys and any number of `start()`s,
from `ConnectionBaseAssumption` (protocol sizes are positive, the policy is a
number) and `ConnectionAssumption` (bounds are numbers):

* `TypeCorrect`, `PartialsBounded`, `DispatchBounded`, `ClosedOnce`,
  `ClosingIsNotEmpty` are `Spec => []Inv`, and `DeadStaysDead` is an action property.

The properties are not inductive. `DispatchWithinPolicy` needs the header that
`Dispatch` uses to have passed the policy two turns before (`StageFits`: in the
data stage the pending header is not refused and `expected_bytes_` is its size),
and the entry of the map to be below the policy before the part is added
(`PartialFits`). `DeathIsFinal` needs that the handshake stage and "established"
meet only inside `on_established` (`HandshakeFits`). All of it holds in the middle
of handlers (`Sound`), where `closing` may for a moment have nothing to flush; between
handlers it has (`Good`, which is `IInv`). So there is a lemma for each helper
(`FlushSends`, `MarkDead`) about `Sound`, one for each handler about `Good`, and one
step for each action in `StepGood`.

The last part of `ConnectionProofs`, from the same assumptions and `MaxStarts <= 1`: `NothingLeftBehind`
(`ParsedToTheEnd`) and `EstablishedBeforeDispatch` (`DispatchOnlyEstablished`). Both fail
for an object that is started again, because `start()` keeps the receive stage and
what is buffered: bytes of the old stream would be parsed without an event, and
in the data stage a transaction would be dispatched before the handshake. The
repository never starts an object twice, and forbids it nowhere. `OneLife` says
that nothing has been received before `start()`, that behind the handshake and in
callbacks a connection is over or was accepted, and that what is buffered while
no handler runs is less than the stage needs; sending disturbs none of it
(`Undisturbed`).

`SessionProofs`, from `SessionAssumption` (normalization is total, "no login" and
"none" are no values): `TypeCorrect`, `RightsGranted`, `ClosedForGood`, `AgreementBinds`, for any
database, normalization and sequence of requests. The invariant is the type
together with the property; the work is in `LoginGrants`.

`PairProofs`, from `ConnectionPairAssumption` (the sockets hold at least a byte,
sizes are numbers, each side may queue at least one transaction):
`TypeCorrect`, `FramesStayAligned`, `HandshakesAgree`, and the refinement
`ChannelImplemented` (`Spec => Channel!Spec`), for every capacity, every size
of handshake, header and body, and any number of transactions. `FramesAligned`
looks at the front of a stream; the invariant says how the whole of it is laid
out. `Holds(w, lo, hi, sizes, parsed)` says that `w` is what is left of the frames
`lo` to `hi` when `parsed` bytes of the first are gone, by a function from frames
to positions, so that no recursion is needed: queueing extends it at the end
(`HoldsAppend`), parsing shifts it (`HoldsConsume`), a frame parsed to its end is
dropped (`HoldsNext`), and the front can be read off (`HoldsFront`).
`Direction(s)` adds, for the stream from `s`: the two byte counts fit into it, a
side that has not greeted has sent nothing but possibly a rejection (`Silent`),
the frame the receiver waits for is the one after those it delivered (`Framed`,
`Fresh`), the header it holds is that of the frame it is in (`HeaderFits`), and what
was delivered is a prefix of what was sent (`Prefix`). `Own` is what a side knows
by itself: its stage, its state and whether a handshake was accepted agree,
unless it is over. `Agreed` says who is established with whom. A lemma for each
handler gives what it does to these, one for each kind of step (`OutSame`,
`OutGreets`, `OutRejects`, `OutQueues` at the sender; `InSame`, `InGreeted`,
`InHeader`, `InData`, `InEnds` at the receiver) keeps a direction, and one for each
action puts the two together. `ChannelImplemented` then maps `Queue` to `Send`,
`ParseData` to `Deliver`, everything else to `Break` or a stutter; that a delivered
transaction is the head of what is pending is `BodyAtFront`.

`CipherChannelProofs`, from `CipherChannelAssumption` (blocks and headers have
bytes, flags are bytes): `TypeCorrect` and `StaysInStep`. `InStep` is about the next frame
only. The invariant: the frames on the wire form a chain (`Chain`), each encoded
from the stream the one before left, the first from the decoder's stream and the
last leaving the encoder's; frames up to the one that announces the cipher are
plain and those behind it are not (`Marked`); and the two sides switch in the
order of the login (`Handover`).

The second half of the module, from the same assumption: `MasksAreFresh`
(`NoMaskTwice`). The property counts: as many different masks as bytes. The invariant says which they
are: a side that has masked `total` bytes, over all its transactions, has used for
each number below `total` the mask at that place of its stream, so that the mask
of byte `k` is `k % BlockSize` bytes into a block that came after `k \div BlockSize`
others, whatever the keys were by then. Masks of different places differ in one or
the other; those of the two sides differ in the key of their first block.

`EventLoopProofs`, from `EventLoopAssumption` (descriptors are numbers, peers are
neither the listener nor a free entry): `TypeCorrect`, `DescriptorsHaveOneOwner` and
`NobodyDiesOfAStaleEvent`, for any number of descriptors and peers. The invariant adds
that a peer nobody accepted has no descriptor (`WaitingHasNone`). It
needs nothing of the batch of events: right or stale, they keep ownership.
`NobodyDiesOfAStaleEvent` rests on it. An event names a descriptor of the process, so
a connection it names holds that descriptor, and by `OneOwner` the kernel means
this connection by it: `receive()` reads from its own peer (`ReadsItsOwn`), and
only a peer that is gone, or what it sent, ends it. Without `OneOwner` it would be
false: TLC finds it violated if `close()` keeps its descriptor. What
`TypeCorrect` takes is that the batch, interests put into an order, names each of
them once (`Ascending`).

`RecordProofs`, `ListProofs` and `CodecProofs`, for bytes of one to eight bits,
values of any size and messages and lists of any length:

* `RecordsComeBack`: `RoundTrip` of all twenty-nine kinds, under `LargeForksAreRefused`. That
  is the property the run `forks` finds violated: a fork whose size does not fit 32 bits is
  written behind a size that is cut, and does not come back. It constrains flat files only.
* `RecordsUnderstood`: `NothingSkipped`, and `RecordsEnd`: `EndsWhereItSays`, as the run
  states them, of any bytes, damaged in whatever way.
* `MessagesAreTyped`: `TypeOK`. Its content is that every encoder makes bytes of whatever
  a struct can hold, within limits or not, and that every decoder has an answer.
* `MasksHaveTheirBits` (`MaskHasItsBits`) and `ArraysAreInOrder` (`ItemsInOrder`).
* `DigestsPadToFewestBlocks` (`FewestBlocks`) and `NothingIsMadeUp` (`NothingMadeUp`), the
  latter for any archive and any answer of zlib, are in `RecordProofs`.

Their assumptions, which every run of `MCCodecs` evaluates:

* `BaseAssumption`, a byte has one to eight bits. `BlockAssumption`, a block has room for
  the length of a message.
* `HoldsAssumption`: a sample has the type that the struct of its kind gives it.
  For archives and arrays, which the program only reads, that includes what their writers
  could write (`ArchiveFitting`, `IvarFitting`); a registration is one of the two types that
  tracker.h names; a digested message has fewer bits than its length field can count.
* `TailsAssumption`, `InflatableAssumption`, `DamagedAssumption`: what comes after a message and
  what zlib returns are bytes, and damage is bounded.
* `TrackerTagAssumption`, `TransferTagsAssumption`, `ArchiveTagAssumption`, `IvarTagAssumption`: tags
  have four bytes. `LoginAssumption`, `ArchiveNameAssumption`: fields of fixed size have one byte to as
  many as their length byte can say. `TypesAssumption`, `ResumeFileAssumption`,
  `HopeVersionAssumption`: constants fit their fields. `MinSessionKeySizeAssumption`: it is a number.
* `NamesAssumption` and `FieldIdAssumption`: the names of the two MACs differ and none is empty;
  the fields of HOPE have different numbers.

In `RecordProofs` no field of a record is at an offset that depends on a loop.
A number of two or four bytes is a fold over that many bytes, unfolded once
(`NumberOfTwo`, `NumberOfFour`); writing it undoes reading it and the other way round
(`WordWritten`, `WordRead`, ...). What was joined is found again at its offset
(`Appended`, `RunAppended`, `Ends`), and the parts of a sequence, joined, are the
sequence (`PartsMeet`). For the kinds with padding `Agrees` says that what is made
again is the same up to an offset but for the ignored positions. From these, every
kind is shown to be `Returned`, `Reproduced` and `Ended`, that is, what is encoded is
decoded, what is decoded is encoded again to the same bytes but for ignored ones, and what
is cut is refused.

The lists of `ListProofs` are read and written in loops of any number of turns. The
library's induction theorems can not be used here (they take an operator as a
parameter), but induction over a *set* of numbers can: a set of naturals that holds 0
and with a number the next one is all of them (`Induction`, from the fact that a set of
naturals that is not empty has a least element). What a loop does for up to `k`
elements is stated as such a set. The two folds of the model, `FlattenSeq` of what was
written and the fold inside `Items()`, are first shown to be a step repeated once for
every element; what is true after one more step is a lemma (`AllOfMore`, `OneMoreOf`).
`ItemsWritten` then says that the elements written are read back and what is behind them is
left, and `ItemsRead`, its converse, that the elements read are written again as the bytes they were
read from, for any kind of element with these properties: a field, a component of a
path, a text with its length, a server.

`CodecProofs` adds what those two leave open:

* Forks of a flat file and entries of an archive have bytes between them that
  a decoder passes over, so what is made again is not the same. `Alike(u, x, S, o)`
  says that `u` and `x`, which begin at offset `o` of a message, differ at positions in `S` at
  most; it is kept when parts are joined (`JoinedAlike`) and when a loop adds an
  element (`ItemsAlike`), and `GapsIn` collects the positions the loop passes over, which
  are then shown to be the ignored ones (`FlatReproduced`, `ArchiveReproduced`).
* That a list of elements of different lengths ends where its bytes end is proved from
  the other side: more bytes behind a message change nothing of what its front is
  read as, so a part of a message that was accepted as a whole would leave the rest over.
* The access mask is a number of 64 bits. `MaskMade` says which of them any sequence
  of `set()` leaves set, `BitsOfBytes` in which bit of which byte each is found.
* Resume records and arrays are tables that are read at computed offsets. Their rows
  are laid one behind the other (`RowsLaid`), and the slices between offsets that ascend join
  to one run of the data (`SlicesMeet`), which is `ArraysAreInOrder`; `HeldSlice` is the
  converse for what was written.
* The lists of HOPE are field lists in which the first field of a number is looked for
  (`FieldFound`, `OtherField`). A padded digest ends with the length of the message
  (`BlocksReturned`).

The invariants are about the
way of a message: `OneMessage`, that the bytes are the encoded ones as long as they are
called undamaged and what was returned is what the decoder makes of the bytes;
and `RecordInv`, that they are bytes, that the damage is of a known sort and that a message that was
accepted and cut is refused, which holds however it was damaged before. `RoundTrip` and
the others are no inductive facts about steps but follow from these with the lemmas
about encoders and decoders.

Model-checked only:

* Liveness and everything with fairness (`ParseReturns`, `EventuallyDelivered`,
  `PairSettles`, `PeersAreServed`), which is beyond the prover.
* `SameAlgorithm`: whether a name that was damaged can become the other name, or a
  damaged field number hide a field, depends on the names and numbers themselves, of which the
  assumptions say only that they differ. The run uses short ones that keep what matters: they differ in
  length.
* `RefusesOnlyTheLarge`, whose set of large samples is a choice of the run.
* All of `Address`: a text is read and printed in loops.

## 5. Not modelled

* `service_readable()` called again from inside a callback, and an application
  that starts or destroys a connection inside `on_closed`. No caller does it.
* `set_crypto()` outside `on_transaction`: between the header and the data of a
  transaction it would leave a flag of the other cipher behind (a hazard in
  `PROJECT.json` without a property).
* Starting an object again in the runs (`MaxStarts` is 1, and `ConnectionPair`
  starts each side once); the theorems of `ConnectionProofs` allow it, but for the
  two about an object that is started once. Those two fail for a second start, and
  since nothing in the repository starts an object twice, or says what that should
  do, this hazard has no property.
* A server that queues before its handshake is done (`MayQueue`): its bytes would go
  out ahead of the reply. No caller does it and the code does not prevent it.
* The readers of the HOPE stages are not functions of the code. `DecodeOffer` and
  `DecodeProof` put together what hope.cpp and hope.h have for them: `find_field()`,
  the comparison of names, and the least size of a session key.
* How many entries `partial_` has, and how long a silent peer is kept: the code
  has no bound and no timeout to check.
* `connect()` and its retry by the caller (socket.h: "call connect again to
  collect the result", an errno convention of each system), UDP send and
  receive, socket options: single system calls. Their addresses are in `Address`.
  The Windows backend mirrors the POSIX one and is built on another system; it
  was not compared, except that its `make_socket_pair()` leaves the sockets blocking.
* Big-endian hosts: `to_sockaddr()` and `from_sockaddr()` are modelled on a
  little-endian one, where `htonl()` swaps.
* Arithmetic of Blowfish, MD5, SHA-1, HMAC, and what is in the key schedule;
  published test vectors in the tests cover it.
* Queries without state or choice: `data_resume_size()`, `find()` and
  `item_data()` of an array, setting, clearing and inverting bits, alignment.
* Applications, which do not exist.

## 6. Plan

Written, in this order: `ConnectionBase` and `Connection` with their proofs (the
core every other part stands on); `TransactionChannel` and `ConnectionPair`;
`Session` with its proofs; `CipherChannel`; `EventLoop`; the codecs; the layouts of
handshakes and header, HOPE, IVA1 and padding; `Address`; the proofs of the event
loop, the cipher and the pair; those of the masks and of the codecs.

What is left, should the code grow towards it:

1. *Applications*: when a server and a tracker exist, `ConnectionPair` is to run with
   `Session` behind `on_transaction` and `EventLoop` around it, instead of the
   arbitrary applications of today.
2. *Restart*: `MaxStarts` of 2 in `connection`, once the code says whether an object may
   be started again, and what `start()` ought to reset.
3. *File transfers*: the resume record between two transfers that break off; today there
   is only its codec.
4. *Cipher under the pair*: an ideal cipher (a frame decodes to what was encoded, which
   is `InStep`) as an abstract specification that `CipherChannel` implements, so that
   `ConnectionPair` can run over it.
