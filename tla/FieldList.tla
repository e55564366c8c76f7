------------------------------ MODULE FieldList ------------------------------
(***************************************************************************)
(* The body of a transaction: a count and that many fields of an id, a     *)
(* size and data, in wire order and without padding (field_list.cpp), and  *)
(* the payloads with a name that fields carry (payload.cpp).               *)
(***************************************************************************)
EXTENDS Wire

FileInfoHeaderSize == 20
UserInfoHeaderSize == 8

(* static_cast<std::int16_t> makes the icon of a number of two bytes. *)
FieldRecord == [id : Word, data : Seq(Byte)]
UserInfo == [id : Word, icon_id : SignedWord, flags : Word, name : Seq(Byte)]
FileInfo == [type : Long, creator : Long, file_size : Long, name_script : Word, name : Seq(Byte)]

EncodeField(field) == U16(field.id) \o U16(Len(field.data)) \o field.data

EncodeFieldList(fields) ==
  IF Len(fields) > MaxU16 THEN Fail("count_too_large")
  ELSE IF \E i \in 1..Len(fields) : Len(fields[i].data) > MaxU16
    THEN Fail("element_too_large")
  ELSE Good(U16(Len(fields))
              \o FlattenSeq([i \in 1..Len(fields) |-> EncodeField(fields[i])]))

ReadField(bytes) ==
  Then(Counted(bytes, 2, 2), LAMBDA data :
    Got([id |-> Read(bytes, 0, 2), data |-> data.value], data.rest))

DecodeFieldList(bytes) ==
  IF Len(bytes) < 2 THEN Truncated
  ELSE Whole(Items(Read(bytes, 0, 2), Rest(bytes, 2), ReadField))

\* Faulty: the upper bits of a negative value are not looked at.
IntegerDataBySize(v) == IF v <= MaxU16 THEN U16(v) ELSE U32(v)

(* Two bytes for what fits sixteen bits unsigned, four for all else. *)
IntegerData(v) == IF v \in 0..MaxU16 THEN U16(v) ELSE U32(v)

DecodeInteger(data) ==
  IF Len(data) \in {1, 2} THEN Good(Number(data))
  ELSE IF Len(data) = 4 THEN Good(Signed(Number(data), 4))
  ELSE Fail("invalid_integer_field_size")

-----------------------------------------------------------------------------
(* FileInfo: type and creator little-endian, as Intel peers sent them.     *)
EncodeFileInfo(info) ==
  IF Len(info.name) > MaxU16 THEN Fail("string_too_long")
  ELSE Good(U32LE(info.type) \o U32LE(info.creator) \o U32(info.file_size) \o U32(0)
              \o U16(info.name_script) \o U16(Len(info.name)) \o info.name)

DecodeFileInfo(bytes) ==
  IF Len(bytes) < FileInfoHeaderSize THEN Truncated
  ELSE Then(Exactly(bytes, FileInfoHeaderSize + Read(bytes, 18, 2)), LAMBDA whole :
         Good([type        |-> Number(Reverse(At(bytes, 0, 4))),
               creator     |-> Number(Reverse(At(bytes, 4, 4))),
               file_size   |-> Read(bytes, 8, 4),
               name_script |-> Read(bytes, 16, 2),
               name        |-> Rest(bytes, FileInfoHeaderSize)]))

EncodeUserInfo(info) ==
  IF Len(info.name) > MaxU16 THEN Fail("string_too_long")
  ELSE Good(U16(info.id) \o U16(info.icon_id) \o U16(info.flags)
              \o U16(Len(info.name)) \o info.name)

DecodeUserInfo(bytes) ==
  IF Len(bytes) < UserInfoHeaderSize THEN Truncated
  ELSE Then(Exactly(bytes, UserInfoHeaderSize + Read(bytes, 6, 2)), LAMBDA whole :
         Good([id      |-> Read(bytes, 0, 2),
               icon_id |-> Signed(Read(bytes, 2, 2), 2),
               flags   |-> Read(bytes, 4, 2),
               name    |-> Rest(bytes, UserInfoHeaderSize)]))
=============================================================================
