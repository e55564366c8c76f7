------------------------------- MODULE Archive -------------------------------
(***************************************************************************)
(* The 'harc' archive (archive.cpp): a header with a name, and entries of  *)
(* a path, reserved bytes and a payload, each behind a size of its own.    *)
(* The program only reads archives; WriteArchive is what wrote them.       *)
(***************************************************************************)
EXTENDS Transfer

CONSTANTS ArchiveTag,         \* 'harc'
          ArchiveNameField,   \* 64 in the code, of 98 bytes of header
          RawTag, ZlibTag,    \* 'raw ' and 'zlib', as numbers
          MaxDecompressed     \* kMaxArchiveEntryDecompressedSize
ASSUME ArchiveNameAssumption == ArchiveNameField \in 1..Base
ASSUME ArchiveTagAssumption == ArchiveTag \in Seq(Byte) /\ Len(ArchiveTag) = 4

NameAt == 28
ArchiveHeaderSize == NameAt + ArchiveNameField + 6

ArchiveEntry == [type : Long, path : Seq(PathComponent), reserved : Seq(Byte),
                 compression_type : Long, decompressed_size : Long, payload : Seq(Byte)]
ArchiveRecord == [archive_size : Long, archive_name : Seq(Byte), file_auto_launch : Word,
                  reserved3 : Seq(Byte), entries : Seq(ArchiveEntry)]

WriteEntry(entry) ==
  LET path == U16(Len(entry.path)) \o EncodePath(entry.path)
  IN  U32(entry.type) \o U32(0) \o U16(Len(path)) \o path
        \o U16(Len(entry.reserved)) \o entry.reserved
        \o U32(entry.compression_type) \o U32(entry.decompressed_size)
        \o U32(Len(entry.payload)) \o entry.payload

(* It wrote no archive with a count or a size beyond its field. *)
EntryFitting(entry) ==
  /\ Len(entry.path) <= MaxU16
  /\ \A i \in 1..Len(entry.path) : Len(entry.path[i].name) <= MaxU8
  /\ 2 + Len(EncodePath(entry.path)) <= MaxU16
  /\ Len(entry.reserved) <= MaxU16
  /\ Len(entry.payload) <= MaxU32

ArchiveFitting(archive) ==
  /\ Len(archive.archive_name) < ArchiveNameField
  /\ Len(archive.reserved3) <= MaxU16
  /\ Len(archive.entries) <= MaxU16
  /\ \A i \in 1..Len(archive.entries) : EntryFitting(archive.entries[i])

WriteArchive(archive) ==
  ArchiveTag \o U32(1) \o U32(archive.archive_size) \o Zeros(16)
    \o << Len(archive.archive_name) >> \o archive.archive_name
    \o Zeros(ArchiveNameField - 1 - Len(archive.archive_name))
    \o U16(Len(archive.entries)) \o U16(archive.file_auto_launch)
    \o U16(Len(archive.reserved3)) \o archive.reserved3
    \o FlattenSeq([i \in 1..Len(archive.entries) |-> WriteEntry(archive.entries[i])])

-----------------------------------------------------------------------------
ReadPath(bytes) ==
  IF Len(bytes) < 2 THEN Truncated
  ELSE Whole(Items(Read(bytes, 0, 2), Rest(bytes, 2), ReadComponent))

(* The payload is behind three words; its size is the last of them. *)
ReadEntryOf(bytes) ==
  Then(Counted(bytes, 8, 2), LAMBDA path :
  Then(ReadPath(path.value), LAMBDA names :
  Then(Counted(path.rest, 0, 2), LAMBDA reserved :
  Then(Counted(reserved.rest, 8, 4), LAMBDA payload :
    Got([type              |-> Read(bytes, 0, 4),
         path              |-> names.value,
         reserved          |-> reserved.value,
         compression_type  |-> Read(reserved.rest, 0, 4),
         decompressed_size |-> Read(reserved.rest, 4, 4),
         payload           |-> payload.value], payload.rest)))))

(* A name that is longer than its field is cut to it. *)
ArchiveName(bytes) ==
  LET length == bytes[NameAt + 1]
  IN  At(bytes, NameAt + 1, IF length < ArchiveNameField THEN length ELSE ArchiveNameField - 1)

DecodeArchive(bytes) ==
  IF Len(bytes) < ArchiveHeaderSize THEN Truncated
  ELSE IF First(bytes, 4) # ArchiveTag THEN Fail("wrong_format_tag")
  ELSE IF Read(bytes, 4, 4) # 1 THEN Fail("unsupported_version")
  ELSE Then(Counted(bytes, ArchiveHeaderSize - 2, 2), LAMBDA reserved3 :
       Then(Whole(Items(Read(bytes, ArchiveHeaderSize - 6, 2), reserved3.rest, ReadEntryOf)),
            LAMBDA entries :
         Good([archive_size     |-> Read(bytes, 8, 4),
               archive_name     |-> ArchiveName(bytes),
               file_auto_launch |-> Read(bytes, ArchiveHeaderSize - 4, 2),
               reserved3        |-> reserved3.value,
               entries          |-> entries.value])))

-----------------------------------------------------------------------------
(* decompress_archive_entry(): uncompress() of zlib fills as much of the   *)
(* buffer as the payload has bytes for, and may succeed with fewer.        *)

\* Faulty: a payload that is short of its size is let pass.
EnoughInflated(inflated, size) == inflated.ok

FullyInflated(inflated, size) == inflated.ok /\ Len(inflated.bytes) = size

Decompress(entry, inflated) ==
  IF entry.decompressed_size > MaxDecompressed THEN Fail("exceeds_size_cap")
  ELSE IF entry.compression_type = RawTag
    THEN IF Len(entry.payload) # entry.decompressed_size
           THEN Fail("decompressed_size_mismatch") ELSE Good(entry.payload)
  ELSE IF entry.compression_type # ZlibTag THEN Fail("unsupported_compression")
  ELSE IF ~FullyInflated(inflated, entry.decompressed_size) THEN Fail("zlib_failure")
  ELSE Good(inflated.bytes \o Zeros(entry.decompressed_size - Len(inflated.bytes)))
=============================================================================
