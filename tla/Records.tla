------------------------------ MODULE Records --------------------------------
(***************************************************************************)
(* The records of a fixed size: both handshakes (handshake.h), the header  *)
(* of a transaction (transaction.h), time stamps and access masks          *)
(* (payload.h), GUIDs (guid.h).  Their decoders take exactly this size.    *)
(***************************************************************************)
EXTENDS Wire

HandshakeSize     == 12
ReplySize         == 8
TransactionHeaderSize == 20
StampSize         == 8
AccessMaskSize    == 8
GuidSize          == 16

ClientHandshake == [protocol : Long, sub_protocol : Long, version : Word, sub_version : Word]
ServerHandshakeReply == [protocol : Long, error : Long]
TransactionHeader == [flag : Byte, is_reply : Byte, type : Word, id : Long, error : Long,
                      total_size : Long, data_size : Long]
DateTimeStamp == [year : Word, msecs : Word, seconds : Long]
Guid == [time_low : Long, time_mid : Word, time_hi_and_version : Word,
         clock_seq_hi_and_reserved : Byte, clock_seq_low : Byte, node : [1..6 -> Byte]]

(* A whole one: that the header says the size of the data is the caller's  *)
(* concern.                                                                *)
WholeTransaction ==
  {t \in [header : TransactionHeader, data : Seq(Byte)] : t.header.data_size = Len(t.data)}

-----------------------------------------------------------------------------
EncodeClientHandshake(h) ==
  U32(h.protocol) \o U32(h.sub_protocol) \o U16(h.version) \o U16(h.sub_version)

DecodeClientHandshake(bytes) ==
  Then(Exactly(bytes, HandshakeSize), LAMBDA whole :
    Good([protocol     |-> Read(bytes, 0, 4),
          sub_protocol |-> Read(bytes, 4, 4),
          version      |-> Read(bytes, 8, 2),
          sub_version  |-> Read(bytes, 10, 2)]))

EncodeServerHandshakeReply(reply) == U32(reply.protocol) \o U32(reply.error)

DecodeServerHandshakeReply(bytes) ==
  Then(Exactly(bytes, ReplySize), LAMBDA whole :
    Good([protocol |-> Read(bytes, 0, 4), error |-> Read(bytes, 4, 4)]))

-----------------------------------------------------------------------------
EncodeHeader(h) ==
  <<h.flag, h.is_reply>> \o U16(h.type) \o U32(h.id) \o U32(h.error)
    \o U32(h.total_size) \o U32(h.data_size)

ReadHeader(bytes) ==
  [flag       |-> bytes[1],
   is_reply   |-> bytes[2],
   type       |-> Read(bytes, 2, 2),
   id         |-> Read(bytes, 4, 4),
   error      |-> Read(bytes, 8, 4),
   total_size |-> Read(bytes, 12, 4),
   data_size  |-> Read(bytes, 16, 4)]

DecodeHeader(bytes) ==
  Then(Exactly(bytes, TransactionHeaderSize), LAMBDA whole : Good(ReadHeader(bytes)))

(* The sizes of the header are the caller's; the data follows as it is. *)
EncodeTransaction(transaction) == EncodeHeader(transaction.header) \o transaction.data

(* What a connection takes off its stream: a header, and then its data. *)
ReadTransaction(bytes) ==
  Then(Counted(bytes, TransactionHeaderSize - 4, 4), LAMBDA data :
    Got([header |-> ReadHeader(bytes), data |-> data.value], data.rest))

-----------------------------------------------------------------------------
Stamp(date) == U16(date.year) \o U16(date.msecs) \o U32(date.seconds)

ReadStamp(bytes, offset) ==
  [year    |-> Read(bytes, offset, 2),
   msecs   |-> Read(bytes, offset + 2, 2),
   seconds |-> Read(bytes, offset + 4, 4)]

DecodeStamp(bytes) == Then(Exactly(bytes, StampSize), LAMBDA whole : Good(ReadStamp(bytes, 0)))

EncodeGuid(guid) ==
  U32(guid.time_low) \o U16(guid.time_mid) \o U16(guid.time_hi_and_version)
    \o <<guid.clock_seq_hi_and_reserved, guid.clock_seq_low>> \o guid.node

DecodeGuid(bytes) ==
  Then(Exactly(bytes, GuidSize), LAMBDA whole :
    Good([time_low                  |-> Read(bytes, 0, 4),
          time_mid                  |-> Read(bytes, 4, 2),
          time_hi_and_version       |-> Read(bytes, 6, 2),
          clock_seq_hi_and_reserved |-> bytes[9],
          clock_seq_low             |-> bytes[10],
          node                      |-> At(bytes, 10, 6)]))

-----------------------------------------------------------------------------
(* An access mask is a number of 64 bits, of which privilege p is bit      *)
(* 63 - p.  A byte has ByteBits bits here.                                 *)
ByteBits == CHOOSE n \in 1..8 : 2^n = Base
MaskBits == AccessMaskSize * ByteBits

\* Faulty: bits are counted from the lower end.
PlaceFromBelow(privilege) == 2^privilege

Place(privilege) == 2^(MaskBits - 1 - privilege)

Has(mask, privilege) == (mask \div Place(privilege)) % 2 = 1

SetPrivilege(mask, privilege, on) ==
  IF Has(mask, privilege) = on THEN mask
  ELSE IF on THEN mask + Place(privilege) ELSE mask - Place(privilege)

(* A mask is made by a sequence of calls of set(). *)
AccessCalls == Seq((0..MaskBits - 1) \X BOOLEAN)

EncodeAccessMask(calls) ==
  U64(FoldLeft(LAMBDA mask, call : SetPrivilege(mask, call[1], call[2]), 0, calls))

DecodeAccessMask(bytes) ==
  Then(Exactly(bytes, AccessMaskSize), LAMBDA whole :
    Good({privilege \in 0..MaskBits - 1 : Has(Read(bytes, 0, 8), privilege)}))

(* aw::bits: bit 0 is the most significant one of the first byte. *)
GetBit(bytes, index) ==
  (bytes[index \div ByteBits + 1] \div 2^(ByteBits - 1 - (index % ByteBits))) % 2 = 1
=============================================================================
