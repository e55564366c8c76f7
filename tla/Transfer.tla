------------------------------ MODULE Transfer -------------------------------
(***************************************************************************)
(* The records of a file transfer (transfer.cpp): the flat file and its    *)
(* information fork, the resume record, and what a folder download says    *)
(* of each item.  Sizes are the constants of transfer.h.                   *)
(***************************************************************************)
EXTENDS Records

CONSTANTS FlatFileTag, ResumeTag,   \* 'FILP' and 'RFLT'
          ResumeFile                \* FolderDownloadAction::ResumeFile
ASSUME TransferTagsAssumption ==
  \A tag \in {FlatFileTag, ResumeTag} : tag \in Seq(Byte) /\ Len(tag) = 4
ASSUME ResumeFileAssumption == ResumeFile \in Word

FlatFileHeaderSize == 24
ForkHeaderSize     == 16
InfoFixedSize      == 72
ResumeHeaderSize   == 42
ResumeEntrySize    == 16

Fork == [type : Long, compression : Long, data : Seq(Byte)]
FlatFile == [version : Word, forks : Seq(Fork)]
InfoFork == [platform : Long, type_sig : Long, creator_sig : Long, flags : Long,
             platform_flags : Long, reserved : [1..32 -> Byte], create_date : DateTimeStamp,
             modify_date : DateTimeStamp, name_script : Word, name : Seq(Byte), comment : Seq(Byte)]
ResumeEntry == [fork : Long, data_size : Long]
ResumeData == [version : Word, entries : Seq(ResumeEntry)]
PathComponent == [script : Word, name : Seq(Byte)]
FolderItem == [folder : BOOLEAN, path : Seq(PathComponent)]

-----------------------------------------------------------------------------
EncodeFork(fork) ==
  U32(fork.type) \o U32(fork.compression) \o U32(0) \o U32(Len(fork.data)) \o fork.data

(* The size of a fork is cast to 32 bits; nothing compares it with them. *)
EncodeFlatFile(file) ==
  IF Len(file.forks) > MaxU16 THEN Fail("count_too_large")
  ELSE Good(FlatFileTag \o U16(file.version) \o Zeros(16) \o U16(Len(file.forks))
              \o FlattenSeq([i \in 1..Len(file.forks) |-> EncodeFork(file.forks[i])]))

ReadFork(bytes) ==
  Then(Counted(bytes, ForkHeaderSize - 4, 4), LAMBDA data :
    Got([type        |-> Read(bytes, 0, 4),
         compression |-> Read(bytes, 4, 4),
         data        |-> data.value], data.rest))

DecodeFlatFile(bytes) ==
  IF Len(bytes) < FlatFileHeaderSize THEN Truncated
  ELSE IF First(bytes, 4) # FlatFileTag THEN Fail("wrong_format_tag")
  ELSE Then(Whole(Items(Read(bytes, 22, 2), Rest(bytes, FlatFileHeaderSize), ReadFork)),
            LAMBDA forks : Good([version |-> Read(bytes, 4, 2), forks |-> forks.value]))

-----------------------------------------------------------------------------
EncodeInfoFork(info) ==
  IF Len(info.name) > MaxU16 \/ Len(info.comment) > MaxU16 THEN Fail("string_too_long")
  ELSE Good(U32(info.platform) \o U32(info.type_sig) \o U32(info.creator_sig)
              \o U32(info.flags) \o U32(info.platform_flags) \o info.reserved
              \o Stamp(info.create_date) \o Stamp(info.modify_date) \o U16(info.name_script)
              \o U16(Len(info.name)) \o info.name \o U16(Len(info.comment)) \o info.comment)

DecodeInfoFork(bytes) ==
  Then(Counted(bytes, InfoFixedSize - 2, 2), LAMBDA name :
  Then(Whole(Counted(name.rest, 0, 2)), LAMBDA comment :
    Good([platform       |-> Read(bytes, 0, 4),
          type_sig       |-> Read(bytes, 4, 4),
          creator_sig    |-> Read(bytes, 8, 4),
          flags          |-> Read(bytes, 12, 4),
          platform_flags |-> Read(bytes, 16, 4),
          reserved       |-> At(bytes, 20, 32),
          create_date    |-> ReadStamp(bytes, 52),
          modify_date    |-> ReadStamp(bytes, 60),
          name_script    |-> Read(bytes, 68, 2),
          name           |-> name.value,
          comment        |-> comment.value])))

-----------------------------------------------------------------------------
(* The version is written as it is given, and only version 1 is read.     *)
EncodeResume(resume) ==
  IF Len(resume.entries) > MaxU16 THEN Fail("count_too_large")
  ELSE Good(ResumeTag \o U16(resume.version) \o Zeros(34) \o U16(Len(resume.entries))
              \o FlattenSeq([i \in 1..Len(resume.entries) |->
                   U32(resume.entries[i].fork) \o U32(resume.entries[i].data_size)
                     \o U32(0) \o U32(0)]))

DecodeResume(bytes) ==
  IF Len(bytes) < ResumeHeaderSize THEN Truncated
  ELSE IF First(bytes, 4) # ResumeTag THEN Fail("wrong_format_tag")
  ELSE IF Read(bytes, 4, 2) # 1 THEN Fail("unsupported_version")
  ELSE LET count == Read(bytes, 40, 2)
           entry(i) == ResumeHeaderSize + (i - 1) * ResumeEntrySize
       IN  Then(Exactly(bytes, ResumeHeaderSize + count * ResumeEntrySize), LAMBDA whole :
             Good([version |-> 1,
                   entries |-> [i \in 1..count |->
                     [fork      |-> Read(bytes, entry(i), 4),
                      data_size |-> Read(bytes, entry(i) + 4, 4)]]]))

-----------------------------------------------------------------------------
EncodePath(path) ==
  FlattenSeq([i \in 1..Len(path) |->
    U16(path[i].script) \o << Len(path[i].name) >> \o path[i].name])

ReadComponent(bytes) ==
  Then(Counted(bytes, 2, 1), LAMBDA name :
    Got([script |-> Read(bytes, 0, 2), name |-> name.value], name.rest))

EncodeFolderItem(item) ==
  LET size == 4 + Len(EncodePath(item.path))
  IN  IF \E i \in 1..Len(item.path) : Len(item.path[i].name) > MaxU8
        THEN Fail("string_too_long")
      ELSE IF size > MaxU16 THEN Fail("element_too_large")
      ELSE Good(U16(size) \o U16(IF item.folder THEN 1 ELSE 0)
                  \o U16(Len(item.path)) \o EncodePath(item.path))

ReadComponents(bytes) == Items(Read(bytes, 4, 2), Rest(bytes, 6), ReadComponent)

\* Faulty: what is left of the path after its components is passed over.
PathLoosely(bytes) == ReadComponents(bytes)

PathOf(bytes) == Whole(ReadComponents(bytes))

DecodeFolderItem(bytes) ==
  IF Len(bytes) < 2 \/ Read(bytes, 0, 2) < 4 THEN Truncated
  ELSE Then(Exactly(bytes, 2 + Read(bytes, 0, 2)), LAMBDA whole :
       Then(PathOf(bytes), LAMBDA path :
         Good([folder |-> Read(bytes, 2, 2) % 2 = 1, path |-> path.value])))

EncodeFolderResume(resume) ==
  Then(EncodeResume(resume), LAMBDA record :
    IF Len(record.value) > MaxU16 THEN Fail("element_too_large")
    ELSE Good(U16(ResumeFile) \o U16(Len(record.value)) \o record.value))

DecodeFolderResume(bytes) ==
  IF Len(bytes) < 4 THEN Truncated
  ELSE IF Read(bytes, 0, 2) # ResumeFile THEN Fail("wrong_format_tag")
  ELSE Then(Exactly(bytes, 4 + Read(bytes, 2, 2)), LAMBDA whole : DecodeResume(Rest(bytes, 4)))
=============================================================================
