------------------------------- MODULE Tracker -------------------------------
(***************************************************************************)
(* What servers and clients exchange with a tracker (tracker.cpp): the     *)
(* registration datagram, the handshake and its reply, the server list     *)
(* and the answer to a lookup.                                             *)
(***************************************************************************)
EXTENDS Wire

CONSTANTS TrackerTag,        \* 'HTRK'
          LoginFieldSize     \* kTrackerLoginFieldSize, 32 in the code
ASSUME LoginAssumption == LoginFieldSize \in 1..Base
ASSUME TrackerTagAssumption == TrackerTag \in Seq(Byte) /\ Len(TrackerTag) = 4

AddServer    == 1       \* kRegistrationType...
RemoveServer == 2
ServerListType == 1
Found    == 4           \* kLookupType...
NotFound == 5
ASSUME TypesAssumption == NotFound <= MaxU16   \* the largest of them fits
V1Size == 6             \* kTrackerHandshakeSize...
V2Size == V1Size + 2 * LoginFieldSize

Registration == [type : {AddServer, RemoveServer}, port : Word, user_count : Word,
                 flags : Word, pass_id : Long, texts : {t \in Seq(Seq(Byte)) : Len(t) = 3}]
ServerEntry == [address : {a \in Seq(Byte) : Len(a) = 4}, port : Word, user_count : Word,
                flags : Word, texts : {t \in Seq(Seq(Byte)) : Len(t) = 2}]
ServerList == [total_count : Word, servers : Seq(ServerEntry)]
LookupReply == {servers \in Seq(ServerEntry) : Len(servers) <= 1}
TrackerHandshake == [version : Word, login : Seq(Byte), password : Seq(Byte)]

PString(text) == << Len(text) >> \o text

-----------------------------------------------------------------------------
\* Faulty: a text whose length is the largest one is refused.
TooLongEarly(texts) == \E i \in 1..Len(texts) : Len(texts[i]) >= MaxU8

TooLong(texts) == \E i \in 1..Len(texts) : Len(texts[i]) > MaxU8

EncodeRegistration(message) ==
  IF TooLong(message.texts) THEN Fail("string_too_long")
  ELSE Good(U16(message.type) \o U16(message.port) \o U16(message.user_count)
              \o U16(message.flags) \o U32(message.pass_id)
              \o FlattenSeq([i \in 1..3 |-> PString(message.texts[i])]))

ReadPString(bytes) == Counted(bytes, 0, 1)

(* The name, the description and the password are texts 1, 2 and 3. *)
DecodeRegistration(bytes) ==
  IF Len(bytes) <= 14 THEN Truncated
  ELSE IF Read(bytes, 0, 2) \notin {AddServer, RemoveServer} THEN Fail("wrong_format_tag")
  ELSE Then(Whole(Items(3, Rest(bytes, 12), ReadPString)), LAMBDA texts :
         Good([type       |-> Read(bytes, 0, 2),
               port       |-> Read(bytes, 2, 2),
               user_count |-> Read(bytes, 4, 2),
               flags      |-> Read(bytes, 6, 2),
               pass_id    |-> Read(bytes, 8, 4),
               texts      |-> texts.value]))

-----------------------------------------------------------------------------
(* A text is cut to the field's size less its length byte, and padded. *)
Clamped(text) == IF Len(text) < LoginFieldSize THEN text ELSE First(text, LoginFieldSize - 1)

LoginField(text) ==
  PString(Clamped(text)) \o Zeros(LoginFieldSize - 1 - Len(Clamped(text)))

EncodeHandshake(handshake) ==
  Good(TrackerTag \o U16(handshake.version)
         \o IF handshake.version = 2
              THEN LoginField(handshake.login) \o LoginField(handshake.password)
              ELSE << >>)

DecodeHandshake(bytes) ==
  IF Len(bytes) < V1Size THEN Truncated
  ELSE IF First(bytes, 4) # TrackerTag THEN Fail("wrong_format_tag")
  ELSE LET version  == Read(bytes, 4, 2)
           length(n) == bytes[V1Size + n * LoginFieldSize + 1]
           text(n)  == At(bytes, V1Size + n * LoginFieldSize + 1, length(n))
       IN  IF version \notin {1, 2} THEN Fail("unsupported_version")
           ELSE Then(Exactly(bytes, IF version = 1 THEN V1Size ELSE V2Size), LAMBDA sized :
             IF version = 1
               THEN Good([version |-> 1, login |-> << >>, password |-> << >>])
             ELSE IF \E n \in {0, 1} : length(n) >= LoginFieldSize THEN Truncated
             ELSE Good([version |-> 2, login |-> text(0), password |-> text(1)]))

EncodeHandshakeReply(version) == Good(TrackerTag \o U16(version))

DecodeHandshakeReply(bytes) ==
  Then(Exactly(bytes, V1Size), LAMBDA sized :
    IF First(bytes, 4) # TrackerTag THEN Fail("wrong_format_tag") ELSE Good(Read(bytes, 4, 2)))

-----------------------------------------------------------------------------
EncodeEntry(entry) ==
  entry.address \o U16(entry.port) \o U16(entry.user_count) \o U16(entry.flags)
    \o PString(entry.texts[1]) \o PString(entry.texts[2])

ReadEntry(bytes) ==
  IF Len(bytes) < 12 THEN Truncated
  ELSE Then(Items(2, Rest(bytes, 10), ReadPString), LAMBDA texts :
         Got([address    |-> First(bytes, 4),
              port       |-> Read(bytes, 4, 2),
              user_count |-> Read(bytes, 6, 2),
              flags      |-> Read(bytes, 8, 2),
              texts      |-> texts.value], texts.rest))

EncodeServerList(message) ==
  LET Around(entries) ==
        IF 4 + Len(entries) > MaxU16 THEN Fail("element_too_large")
        ELSE Good(U16(ServerListType) \o U16(4 + Len(entries)) \o U16(message.total_count)
                    \o U16(Len(message.servers)) \o entries)
  IN  IF Len(message.servers) > MaxU16 THEN Fail("count_too_large")
      ELSE IF \E i \in 1..Len(message.servers) : TooLong(message.servers[i].texts)
        THEN Fail("string_too_long")
      ELSE Around(FlattenSeq([i \in 1..Len(message.servers) |-> EncodeEntry(message.servers[i])]))

DecodeServerList(bytes) ==
  IF Len(bytes) < 4 THEN Truncated
  ELSE IF Read(bytes, 0, 2) # ServerListType THEN Fail("wrong_format_tag")
  ELSE IF Read(bytes, 2, 2) < 4 THEN Truncated
  ELSE Then(Exactly(bytes, 4 + Read(bytes, 2, 2)), LAMBDA sized :
       Then(Whole(Items(Read(bytes, 6, 2), Rest(bytes, 8), ReadEntry)), LAMBDA servers :
         Good([total_count |-> Read(bytes, 4, 2), servers |-> servers.value])))

(* No server is found, or the one there is. *)
EncodeLookup(servers) ==
  IF servers = << >> THEN Good(U16(NotFound) \o U16(0))
  ELSE IF TooLong(servers[1].texts) THEN Fail("string_too_long")
  ELSE LET Around(entry) ==
             IF Len(entry) > MaxU16 THEN Fail("element_too_large")
             ELSE Good(U16(Found) \o U16(Len(entry)) \o entry)
       IN  Around(EncodeEntry(servers[1]))

DecodeLookup(bytes) ==
  IF Len(bytes) < 4 THEN Truncated
  ELSE IF Read(bytes, 0, 2) = NotFound
    THEN IF Len(bytes) = 4 /\ Read(bytes, 2, 2) = 0 THEN Good(<< >>) ELSE Fail("trailing_bytes")
  ELSE IF Read(bytes, 0, 2) # Found THEN Fail("wrong_format_tag")
  ELSE Then(Exactly(bytes, 4 + Read(bytes, 2, 2)), LAMBDA sized :
       Then(Whole(ReadEntry(Rest(bytes, 4))), LAMBDA entry : Good(<< entry.value >>)))
=============================================================================
