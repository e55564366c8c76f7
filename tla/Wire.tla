-------------------------------- MODULE Wire --------------------------------
(***************************************************************************)
(* What all codecs of hotline/protocol are made of: big-endian integers    *)
(* (appwarrior/core/endian.h), runs of bytes, text behind its length, and  *)
(* a decoder's way of taking elements off the front of the bytes that are  *)
(* left.  A byte is one of Base values, so that a small Base brings the    *)
(* limits of the 8, 16 and 32 bit lengths within reach of small messages.  *)
(***************************************************************************)
EXTENDS Integers, SequencesExt

CONSTANT Base               \* the values of a byte; 256 in the code
ASSUME BaseAssumption == \E n \in 1..8 : Base = 2^n

MaxU8  == Base - 1
MaxU16 == Base^2 - 1        \* kMaxFieldCount and kMaxFieldDataSize
MaxU32 == Base^4 - 1

Byte == 0..MaxU8            \* std::uint8_t
Word == 0..MaxU16           \* std::uint16_t
Long == 0..MaxU32           \* std::uint32_t

-----------------------------------------------------------------------------
\* Faulty: the upper half is not cut to a byte.
U16Unmasked(v) == << v \div Base, v % Base >>

U16(v)   == << (v \div Base) % Base, v % Base >>
U32(v)   == U16(v \div Base^2) \o U16(v)
U64(v)   == U32(v \div Base^4) \o U32(v)
U32LE(v) == Reverse(U32(v))
Zeros(n) == [i \in 1..n |-> 0]

Number(bytes)         == FoldLeft(LAMBDA n, byte : n * Base + byte, 0, bytes)
First(bytes, n)       == SubSeq(bytes, 1, n)
Rest(bytes, n)        == SubSeq(bytes, n + 1, Len(bytes))
At(bytes, offset, n)  == SubSeq(bytes, offset + 1, offset + n)
Read(bytes, offset, n) == Number(At(bytes, offset, n))

(* static_cast to the signed type of n bytes *)
Signed(v, n) == IF 2 * v >= Base^n THEN v - Base^n ELSE v
SignedWord == {Signed(v, 2) : v \in Word}  \* std::int16_t
SignedLong == {Signed(v, 4) : v \in Long}  \* std::int32_t

-----------------------------------------------------------------------------
(* std::expected<Value, Error>; a reader also says which bytes it left.    *)
Fail(e)      == [ok |-> FALSE, error |-> e]
Good(v)      == [ok |-> TRUE, value |-> v]
Got(v, rest) == [ok |-> TRUE, value |-> v, rest |-> rest]

Truncated == Fail("truncated")

(* What follows when a step succeeded; an error is returned as it is. *)
Then(r, Continue(_)) == IF r.ok THEN Continue(r) ELSE r

(* The length of n bytes at offset, and as many bytes behind it. *)
Counted(bytes, offset, n) ==
  LET Take(size) ==
        IF Len(bytes) < offset + n + size THEN Truncated
        ELSE Got(At(bytes, offset + n, size), Rest(bytes, offset + n + size))
  IN  IF Len(bytes) < offset + n THEN Truncated ELSE Take(Read(bytes, offset, n))

(* The loops `for i < count` over elements that the bytes may not hold. *)
Items(count, bytes, ReadOne(_)) ==
  LET AndOne(sofar, i) ==
        Then(sofar, LAMBDA most :
          Then(ReadOne(most.rest), LAMBDA one : Got(Append(most.value, one.value), one.rest)))
  IN  FoldLeft(AndOne, Got(<< >>, bytes), [i \in 1..count |-> i])

(* A decoder takes the message as a whole or not at all. *)
Whole(r) ==
  Then(r, LAMBDA all : IF all.rest # << >> THEN Fail("trailing_bytes") ELSE Good(all.value))

\* Faulty: what comes after the message is let pass.
AtLeast(bytes, size) == IF Len(bytes) < size THEN Truncated ELSE Good(bytes)

Exactly(bytes, size) ==
  IF Len(bytes) < size THEN Truncated
  ELSE IF Len(bytes) > size THEN Fail("trailing_bytes") ELSE Good(bytes)
=============================================================================
