------------------------------- MODULE Codecs --------------------------------
(***************************************************************************)
(* One message of hotline/protocol on its way: a value is encoded, and     *)
(* the bytes that a decoder is given are these bytes, cut short, with      *)
(* bytes after them, or with a byte changed, as when a peer's encoder is   *)
(* wrong or the bytes were taken from the wrong place of a stream.         *)
(***************************************************************************)
EXTENDS Hope, Archive, Tracker, Ivar, Digest

CONSTANTS Samples,         \* pairs <<kind, value>>; what the program encodes
          Oversized,       \* those that do not fit their format
          Tails,           \* bytes that may come after a message
          Inflatable,      \* what zlib may make of a payload, or less of it
          MaxDamaged       \* a bound of the model: longer messages stay whole

Kinds == {"fields", "integer", "file", "user", "flat", "info", "resume", "item", "command",
          "folder_resume", "registration", "handshake", "reply", "servers", "lookup", "archive",
          "hello", "greeting", "header", "transaction", "stamp", "guid", "access", "ivar",
          "offer", "proof", "scrambled", "md5", "sha1"}
ASSUME SamplesAssumption == \A s \in Samples : s[1] \in Kinds
ASSUME InflatableAssumption == Inflatable \in Seq(Byte)
ASSUME DamagedAssumption == MaxDamaged \in Nat
ASSUME TailsAssumption == \A tail \in Tails : tail \in Seq(Byte) /\ tail # << >>

(* The records of numbers and at most one run of bytes behind them, those   *)
(* of which a decoder passes over some bytes, numbers and runs of bytes by  *)
(* themselves, and the records with elements behind a count.                *)
Plain == {"command", "reply", "hello", "greeting", "header", "transaction", "stamp", "guid",
          "user"}
Padded == {"file", "handshake", "item"}
Bare == {"integer", "scrambled"}
Digested == {"md5", "sha1"}
Lists == {"fields", "registration", "servers", "lookup"}

(* What the types of the source can hold, and what those who wrote archives *)
(* and arrays could write.  A tracker has two versions, a resume record one *)
(* that is read.                                                            *)
Holds(kind) ==
  CASE kind \in {"command", "reply"} -> Word
    [] kind = "hello"                -> ClientHandshake
    [] kind = "greeting"             -> ServerHandshakeReply
    [] kind = "header"               -> TransactionHeader
    [] kind = "transaction"          -> WholeTransaction
    [] kind = "stamp"                -> DateTimeStamp
    [] kind = "guid"                 -> Guid
    [] kind = "user"                 -> UserInfo
    [] kind = "file"                 -> FileInfo
    [] kind = "item"                 -> FolderItem
    [] kind = "handshake"            -> {h \in TrackerHandshake : h.version \in {1, 2}}
    [] kind = "integer"              -> SignedLong
    [] kind = "scrambled"            -> Seq(Byte)
    [] kind = "fields"               -> Seq(FieldRecord)
    [] kind = "registration"         -> Registration
    [] kind = "servers"              -> ServerList
    [] kind = "lookup"               -> LookupReply
    [] kind = "flat"                 -> FlatFile
    [] kind = "info"                 -> InfoFork
    [] kind \in {"resume", "folder_resume"} -> {r \in ResumeData : r.version = 1}
    [] kind = "archive"              -> {a \in ArchiveRecord : ArchiveFitting(a)}
    [] kind = "access"               -> AccessCalls
    [] kind = "ivar"                 -> {a \in IvarArray : IvarFitting(a)}
    [] kind = "offer"                -> HopeOffer
    [] kind = "proof"                -> HopeProof
    [] kind \in {"md5", "sha1"}       -> Digestible
ASSUME HoldsAssumption == \A s \in Samples : s[2] \in Holds(s[1])

Encode(kind, value) ==
  CASE kind = "fields"        -> EncodeFieldList(value)
    [] kind = "integer"       -> Good(IntegerData(value))
    [] kind = "file"          -> EncodeFileInfo(value)
    [] kind = "user"          -> EncodeUserInfo(value)
    [] kind = "flat"          -> EncodeFlatFile(value)
    [] kind = "info"          -> EncodeInfoFork(value)
    [] kind = "resume"        -> EncodeResume(value)
    [] kind = "item"          -> EncodeFolderItem(value)
    [] kind = "folder_resume" -> EncodeFolderResume(value)
    [] kind = "registration"  -> EncodeRegistration(value)
    [] kind = "handshake"     -> EncodeHandshake(value)
    [] kind = "reply"         -> EncodeHandshakeReply(value)
    [] kind = "servers"       -> EncodeServerList(value)
    [] kind = "lookup"        -> EncodeLookup(value)
    [] kind = "archive"       -> Good(WriteArchive(value))
    [] kind = "command"       -> Good(U16(value))
    [] kind = "hello"         -> Good(EncodeClientHandshake(value))
    [] kind = "greeting"      -> Good(EncodeServerHandshakeReply(value))
    [] kind = "header"        -> Good(EncodeHeader(value))
    [] kind = "transaction"   -> Good(EncodeTransaction(value))
    [] kind = "stamp"         -> Good(Stamp(value))
    [] kind = "guid"          -> Good(EncodeGuid(value))
    [] kind = "access"        -> Good(EncodeAccessMask(value))
    [] kind = "ivar"          -> Good(WriteIvar(value))
    [] kind = "offer"         -> EncodeOffer(value)
    [] kind = "proof"         -> EncodeProof(value)
    [] kind = "scrambled"     -> Good(Scramble(value))
    [] kind = "md5"           -> Good(Md5Blocks(value))
    [] kind = "sha1"          -> Good(Sha1Blocks(value))

Decode(kind, bytes) ==
  CASE kind = "fields"        -> DecodeFieldList(bytes)
    [] kind = "integer"       -> DecodeInteger(bytes)
    [] kind = "file"          -> DecodeFileInfo(bytes)
    [] kind = "user"          -> DecodeUserInfo(bytes)
    [] kind = "flat"          -> DecodeFlatFile(bytes)
    [] kind = "info"          -> DecodeInfoFork(bytes)
    [] kind = "resume"        -> DecodeResume(bytes)
    [] kind = "item"          -> DecodeFolderItem(bytes)
    [] kind = "folder_resume" -> DecodeFolderResume(bytes)
    [] kind = "registration"  -> DecodeRegistration(bytes)
    [] kind = "handshake"     -> DecodeHandshake(bytes)
    [] kind = "reply"         -> DecodeHandshakeReply(bytes)
    [] kind = "servers"       -> DecodeServerList(bytes)
    [] kind = "lookup"        -> DecodeLookup(bytes)
    [] kind = "archive"       -> DecodeArchive(bytes)
    [] kind = "command"       -> Then(Exactly(bytes, 2), LAMBDA whole : Good(Read(bytes, 0, 2)))
    [] kind = "hello"         -> DecodeClientHandshake(bytes)
    [] kind = "greeting"      -> DecodeServerHandshakeReply(bytes)
    [] kind = "header"        -> DecodeHeader(bytes)
    [] kind = "transaction"   -> Whole(ReadTransaction(bytes))
    [] kind = "stamp"         -> DecodeStamp(bytes)
    [] kind = "guid"          -> DecodeGuid(bytes)
    [] kind = "access"        -> DecodeAccessMask(bytes)
    [] kind = "ivar"          -> DecodeIvar(bytes)
    [] kind = "offer"         -> DecodeOffer(bytes)
    [] kind = "proof"         -> DecodeProof(bytes)
    [] kind = "scrambled"     -> Good(Scramble(bytes))
    [] kind = "md5"           -> Unpadded(bytes, Reverse(LastEight(bytes)))
    [] kind = "sha1"          -> Unpadded(bytes, LastEight(bytes))

-----------------------------------------------------------------------------
VARIABLES sample,          \* what is to be encoded
          bytes,           \* what the decoder is given
          damage,          \* what happened to the bytes on the way
          got              \* what the decoder returned for them
vars == <<sample, bytes, damage, got>>

kind  == sample[1]
value == sample[2]

NotYet == Fail("not decoded yet")

Init ==
  /\ sample \in Samples
  /\ bytes = << >>
  /\ damage = "unsent"
  /\ got = NotYet

Send ==
  /\ damage = "unsent"
  /\ \E encoded \in {Encode(kind, value)} :
       /\ damage' = IF encoded.ok THEN "none" ELSE "refused"
       /\ bytes' = IF encoded.ok THEN encoded.value ELSE << >>
  /\ UNCHANGED <<sample, got>>

OnItsWay == got = NotYet /\ damage \notin {"unsent", "refused"}

Receive ==
  /\ OnItsWay
  /\ got' = Decode(kind, bytes)
  /\ UNCHANGED <<sample, bytes, damage>>

(* The blocks of a digest stay where they are made. *)
Short == Len(bytes) <= MaxDamaged /\ kind \notin Digested

(* One more, one less, nothing: counts and lengths that are wrong. *)
Mistaken(byte) == {(byte + 1) % Base, (byte + MaxU8) % Base, 0} \ {byte}

Change ==
  /\ Short
  /\ OnItsWay /\ damage = "none"
  /\ \E i \in 1..Len(bytes) : \E byte \in Mistaken(bytes[i]) :
       bytes' = [bytes EXCEPT ![i] = byte]
  /\ damage' = "changed"
  /\ UNCHANGED <<sample, got>>

Grow ==
  /\ Short
  /\ OnItsWay /\ damage \in {"none", "changed"}
  /\ \E tail \in Tails : bytes' = bytes \o tail
  /\ damage' = "grown"
  /\ UNCHANGED <<sample, got>>

(* The same bytes come again, but for the last of them. *)
Cut ==
  /\ Short
  /\ got.ok /\ damage # "cut"
  /\ \E n \in 0..Len(bytes) - 1 : bytes' = First(bytes, n)
  /\ damage' = "cut"
  /\ got' = NotYet
  /\ UNCHANGED sample

Next == Send \/ Receive \/ Change \/ Grow \/ Cut
Spec == Init /\ [][Next]_vars

-----------------------------------------------------------------------------
\* Whatever is encoded is a sequence of bytes: every number and length was
\* cut to its width or refused.
TypeOK ==
  /\ sample \in Samples
  /\ bytes \in Seq(Byte)
  /\ damage \in {"unsent", "refused", "none", "cut", "changed", "grown"}
  /\ got.ok \in BOOLEAN

(* The handshake cuts its texts, and its first version has none; of the    *)
(* calls of set() for a privilege the last one counts.                     *)
Meant(k, v) ==
  CASE k = "handshake" ->
         LET sent(text) == IF v.version = 2 THEN Clamped(text) ELSE << >>
         IN  [version |-> v.version, login |-> sent(v.login), password |-> sent(v.password)]
    [] k = "access" ->
         {v[i][1] : i \in {j \in 1..Len(v) :
            v[j][2] /\ \A l \in j + 1..Len(v) : v[l][1] # v[j][1]}}
    [] OTHER -> v

\* What an encoder accepts is read back as it was, also at the limits of
\* lengths and counts and at the edges of signed numbers: an encoder refuses
\* what its lengths can not say instead of cutting it.
RoundTrip == damage = "none" /\ got # NotYet => got = Good(Meant(kind, value))

\* An encoder refuses only what is larger than its format can say; a value
\* whose lengths are all at their limits is still sent.
RefusesOnlyTheLarge == damage = "refused" => sample \in Oversized

(* Positions of bytes that a decoder passes over: reserved words, padding. *)
Span(offset, n) == offset + 1 .. offset + n

ForkAt(forks, i) ==
  FlatFileHeaderSize
    + Len(FlattenSeq([j \in 1..i - 1 |-> EncodeFork(forks[j])]))

ResumeIgnored(offset, resume) ==
  Span(offset + 6, 34)
    \cup UNION {Span(offset + ResumeHeaderSize + (i - 1) * ResumeEntrySize + 8, 8) :
                  i \in 1..Len(resume.entries)}

(* The reserved word of an entry comes after its type. *)
EntryAt(v, i) ==
  ArchiveHeaderSize + Len(v.reserved3)
    + Len(FlattenSeq([j \in 1..i - 1 |-> WriteEntry(v.entries[j])]))

ArchiveIgnored(v) ==
  Span(12, 16) \cup Span(NameAt, ArchiveNameField)
    \cup UNION {Span(EntryAt(v, i) + 4, 4) : i \in 1..Len(v.entries)}

Ignored(k, v) ==
  CASE k = "file"          -> Span(12, 4)
    [] k = "flat"          -> Span(6, 16)
         \cup UNION {Span(ForkAt(v.forks, i) + 8, 4) : i \in 1..Len(v.forks)}
    [] k = "resume"        -> ResumeIgnored(0, v)
    [] k = "folder_resume" -> ResumeIgnored(4, v)
    [] k = "item"          -> Span(2, 2)
    [] k = "handshake"     ->
         IF v.version = 1 THEN {}
         ELSE Span(V1Size + 1 + Len(v.login), LoginFieldSize - 1 - Len(v.login))
                \cup Span(V1Size + LoginFieldSize + 1 + Len(v.password),
                          LoginFieldSize - 1 - Len(v.password))
    [] k = "archive"       -> ArchiveIgnored(v)
    [] OTHER               -> {}

\* The fork of a flat file that is larger than its size can say is refused:
\* an encoder returns element_too_large when "an element (field, fork, entry,
\* ...) is larger than the format allows", says encode_error.h.
LargeForksAreRefused ==
  kind = "flat" /\ damage \notin {"unsent", "refused"} =>
    \A i \in 1..Len(value.forks) : Len(value.forks[i].data) <= MaxU32

(* These are bytes of a length that something around them says. *)
OfKnownLength == Bare \cup Digested

(* And of these a reader takes what it looks for, and passes over the rest; *)
(* what follows the last item of an array is no error.                      *)
Searched == {"offer", "proof", "ivar"}

\* A decoder that accepts bytes, whoever made them, has understood every one
\* of them: the value it returns is encoded to the same bytes, but for the
\* reserved ones.  No count, length or offset is read from the wrong place
\* and no part of a message is skipped.
NothingSkipped ==
  got.ok /\ kind \notin OfKnownLength \cup Searched \cup {"access"} =>
    \A again \in {Encode(kind, got.value)} :
      /\ again.ok
      /\ Len(again.value) = Len(bytes)
      /\ {i \in 1..Len(bytes) : again.value[i] # bytes[i]} \subseteq Ignored(kind, got.value)

\* Bytes that are a message do not become another by being cut short or by
\* being followed by more: the end of a message is where the message says,
\* so that one taken from the wrong place of a stream is noticed.
EndsWhereItSays == damage = "cut" /\ kind \notin OfKnownLength \cup {"ivar"} => ~got.ok

\* The mask of the access rights, which the code keeps as one number, has on
\* the wire the bits that aw::bits finds there: privilege p is bit 7 - p % 8
\* of byte p / 8, as payload.h says of the legacy struct.
MaskHasItsBits ==
  kind = "access" /\ got.ok =>
    \A privilege \in 0..MaskBits - 1 : GetBit(bytes, privilege) <=> privilege \in got.value

\* The items of an IVA1 array lie one behind the other in its data, in the
\* order of the table, whatever offsets a damaged table has: no byte is in
\* two items and no item reaches behind the data.
ItemsInOrder ==
  kind = "ivar" /\ got.ok =>
    LET items == got.value.items
        held  == FlattenSeq([i \in 1..Len(items) |-> items[i].data])
        begin == TableEnd(Len(items)) + IF items = << >> THEN 0 ELSE ItemOffset(bytes, 0)
    IN  /\ begin + Len(held) <= Len(bytes)
        /\ At(bytes, begin, Len(held)) = held

\* A reply whose bytes were mistaken does not make the client use another
\* MAC than the server chose: it goes on with that one or gives up.
SameAlgorithm == kind = "offer" /\ got.ok /\ damage # "grown" => got.value.mac = value.mac

\* A message is padded to as few blocks as hold it, the mark and the length,
\* also when the mark is the first byte of the last block or the last one
\* before the length.
FewestBlocks ==
  kind \in Digested /\ damage = "none" =>
    /\ Len(bytes) % BlockSize = 0
    /\ Len(bytes) - BlockSize < Len(value) + 9

\* What an entry of an archive is expanded to is what its payload holds, as
\* many bytes as the entry says and none of them made up, whatever zlib
\* makes of the payload.
NothingMadeUp ==
  kind = "archive" /\ got.ok =>
    \A i \in 1..Len(got.value.entries) :
      \A success \in BOOLEAN, n \in 0..Len(Inflatable) :
        LET entry    == got.value.entries[i]
            inflated == [ok |-> success, bytes |-> First(Inflatable, n)]
            out      == Decompress(entry, inflated)
        IN  n <= entry.decompressed_size /\ out.ok =>
              /\ out.value \in {entry.payload, inflated.bytes}
              /\ Len(out.value) = entry.decompressed_size
=============================================================================
