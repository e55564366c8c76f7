-------------------------------- MODULE Ivar ---------------------------------
(***************************************************************************)
(* The 'IVA1' array (ivar_array.cpp): a table of ids and offsets, one more *)
(* than there are items, and the data the offsets point into.  The program *)
(* only reads such arrays; WriteIvar is what wrote them.                   *)
(***************************************************************************)
EXTENDS Wire

CONSTANT IvarTag            \* 'IVA1'
ASSUME IvarTagAssumption == IvarTag \in Seq(Byte) /\ Len(IvarTag) = 4

IvarHeaderSize == 16
IvarEntrySize  == 8

IvarItems == Seq([id : Long, data : Seq(Byte)])
IvarArray == [text_encoding : Long, items : IvarItems]

(* What the count, whose first byte is 0, and the offsets can say. *)
IvarFitting(array) ==
  /\ Len(array.items) < Base^3
  /\ Len(FlattenSeq([i \in 1..Len(array.items) |-> array.items[i].data])) <= MaxU32

(* The offset of item i, or of the end of the data. *)
WriteIvar(array) ==
  LET Offset(i) == Len(FlattenSeq([j \in 1..i - 1 |-> array.items[j].data]))
      n == Len(array.items)
  IN  IvarTag \o U32(0) \o U32(array.text_encoding) \o U32(n)
        \o FlattenSeq([i \in 1..n + 1 |->
             U32(IF i > n THEN 0 ELSE array.items[i].id) \o U32(Offset(i))])
        \o FlattenSeq([i \in 1..n |-> array.items[i].data])

-----------------------------------------------------------------------------
TableEnd(count) == IvarHeaderSize + (count + 1) * IvarEntrySize

ItemId(bytes, i)     == Read(bytes, IvarHeaderSize + i * IvarEntrySize, 4)
ItemOffset(bytes, i) == Read(bytes, IvarHeaderSize + i * IvarEntrySize + 4, 4)

\* Faulty: an offset is compared only with the end of the data.
OffsetsInBounds(bytes, count) ==
  \A i \in 0..count : ItemOffset(bytes, i) <= Len(bytes) - TableEnd(count)

OffsetsInOrder(bytes, count) ==
  \A i \in 0..count :
    /\ i > 0 => ItemOffset(bytes, i - 1) <= ItemOffset(bytes, i)
    /\ ItemOffset(bytes, i) <= Len(bytes) - TableEnd(count)

IvarItem(bytes, count, i) ==
  [id   |-> ItemId(bytes, i),
   data |-> At(bytes, TableEnd(count) + ItemOffset(bytes, i),
               ItemOffset(bytes, i + 1) - ItemOffset(bytes, i))]

DecodeIvar(bytes) ==
  LET Slices(count) ==
        IF Len(bytes) < TableEnd(count) THEN Truncated
        ELSE IF ~OffsetsInOrder(bytes, count) THEN Fail("offset_out_of_range")
        ELSE Good([text_encoding |-> Read(bytes, 8, 4),
                   items |-> [i \in 1..count |-> IvarItem(bytes, count, i - 1)]])
  IN  IF Len(bytes) < IvarHeaderSize + IvarEntrySize THEN Truncated
      ELSE IF First(bytes, 4) # IvarTag THEN Fail("wrong_format_tag")
      ELSE IF bytes[13] # 0 THEN Fail("impossible_item_count")
      ELSE Slices(Read(bytes, 12, 4))
=============================================================================
