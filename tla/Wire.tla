-------------------------------- MODULE Wire --------------------------------
(***************************************************************************)
(* The numbers of the wire formats as bytes, lowest first: fixed fields,   *)
(* which drop what does not fit, and LEB128 varints (BitWriter.write_uint32*)
(* and write_varint in bitstream/).                                        *)
(***************************************************************************)
EXTENDS Integers, Sequences, SequencesExt

CONSTANTS
  BYTE,         \* 256: a byte is in 0 .. BYTE - 1
  WORD          \* 4: the bytes of an uint32

ASSUME WireAssumption == BYTE \in {2 * n : n \in 2 .. 128} /\ WORD \in 1 .. 8

\* The lower half of the byte values; the upper half announces another byte.
HALF == BYTE \div 2

Uint32(v) == [k \in 1 .. WORD |-> (v \div (BYTE ^ (k - 1))) % BYTE]
FitsUint32(v) == v < BYTE ^ WORD

FromBytes(bytes) == FoldRight(LAMBDA b, acc : b + (BYTE * acc), bytes, 0)

Groups(v) == CHOOSE n \in 1 .. (v + 1) : v < HALF ^ n /\ (n > 1 => v >= HALF ^ (n - 1))
Varint(v) ==
  LET digit(k) == (v \div (HALF ^ (k - 1))) % HALF
  IN  [k \in 1 .. Groups(v) |-> digit(k) + (IF k < Groups(v) THEN HALF ELSE 0)]

\* data[from : to] in Python: what lies outside is left out.
Slice(data, start, end) == SubSeq(data, start + 1, IF end < Len(data) THEN end ELSE Len(data))
=============================================================================
