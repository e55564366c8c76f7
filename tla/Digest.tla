------------------------------- MODULE Digest --------------------------------
(***************************************************************************)
(* What MD5 and SHA-1 digest of a message (md5.cpp, sha1.cpp): its whole   *)
(* blocks, and a tail of what is left, a bit, zeros and the length.  What  *)
(* is done to a block is left out.  A message is padded to a sequence      *)
(* of blocks such that two messages never have the same blocks.            *)
(***************************************************************************)
EXTENDS Records

CONSTANT BlockSize          \* 64 in the code
ASSUME BlockAssumption == BlockSize \in Nat /\ BlockSize > 8

BitLength(message) == Len(message) * ByteBits

(* The length is counted in a std::uint64_t. *)
Digestible == {message \in Seq(Byte) : BitLength(message) < Base^8}

\* Faulty: the marking bit is not counted.
ZerosAfterUncounted(left) == Zeros(BlockSize - 9 - left + IF left > BlockSize - 8 THEN BlockSize ELSE 0)

(* The last eight bytes of a block are for the length: when the mark does  *)
(* not fit before them, another block follows.                             *)
ZerosAfter(left) == Zeros(BlockSize - 9 - left + IF left + 1 > BlockSize - 8 THEN BlockSize ELSE 0)

Marked(message) == message \o << Base \div 2 >> \o ZerosAfter(Len(message) % BlockSize)

Md5Blocks(message)  == Marked(message) \o Reverse(U64(BitLength(message)))
Sha1Blocks(message) == Marked(message) \o U64(BitLength(message))

(* How a reader would take the message out of its blocks again. *)
Unpadded(blocks, size) == Good(First(blocks, Number(size) \div ByteBits))
LastEight(blocks)      == Rest(blocks, Len(blocks) - 8)
=============================================================================
