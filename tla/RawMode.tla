------------------------------- MODULE RawMode -------------------------------
(***************************************************************************)
(* MODE_RAW_TOKENS over the bit stream (bitstream/bit_writer.py and        *)
(* bit_reader.py, _encode_raw_tokens, its branch of codec/decoder.py):     *)
(* the count, the width, the LZ tokens with that width, then whole bytes   *)
(* of trailer.  It is the one mode whose body may end within a byte.  A    *)
(* byte and a buffer are sequences of bits, the lowest first.  The stream  *)
(* may lose its end on the way.                                            *)
(***************************************************************************)
EXTENDS Integers, Sequences, SequencesExt

CONSTANTS
  MatchFlag,    \* the largest LZ token
  BYTE_BITS,    \* 8
  WORD_BITS,    \* 32: the bits of the count
  REFILL,       \* 64: the bits the reader loads at once
  Trailers,     \* the values of the bytes after the body
  Inputs        \* the LZ token lists that are encoded

RawAssumption ==
  /\ {MatchFlag, BYTE_BITS, REFILL} \subseteq Nat \ {0}
  /\ WORD_BITS \in {BYTE_BITS * n : n \in 1 .. 8}
  /\ Trailers \subseteq Seq(0 .. (2 ^ BYTE_BITS) - 1)
  /\ \A lz \in Inputs : lz \in Seq(0 .. MatchFlag) /\ Len(lz) < 2 ^ WORD_BITS

VARIABLES
  lz,           \* lz_tokens
  trailer,      \* the bytes _finish adds
  phase,        \* "write", "sent", "read", "align", "trailer", "done", "raised"
  fields,       \* what is still to be written: values and widths
  bit_buf,      \* the bits of the writer, then of the reader
  data,         \* the bytes
  lost,         \* has the stream lost its end
  byte_pos,     \* the reader's place in data
  num_lz_tokens, bits_per_symbol,   \* what it has read, or Unread
  out,          \* its lz_tokens
  stamp         \* the trailer it has read

vars == <<lz, trailer, phase, fields, bit_buf, data, lost, byte_pos, num_lz_tokens,
          bits_per_symbol, out, stamp>>
sentVars == <<lz, trailer, fields, data, lost>>

Unread == -1

Bits(value, count) == [n \in 1 .. count |-> (value \div (2 ^ (n - 1))) % 2]
Value(bits) == FoldRight(LAMBDA bit, acc : bit + 2 * acc, bits, 0)

\* max(1, match_flag.bit_length())
Width == CHOOSE w \in 1 .. MatchFlag :
           2 ^ w > MatchFlag /\ \A v \in 1 .. (w - 1) : 2 ^ v <= MatchFlag

Init ==
  /\ lz \in Inputs /\ trailer \in Trailers
  /\ phase = "write"
  /\ fields = <<<<Len(lz), WORD_BITS>>, <<Width, BYTE_BITS>>>>
                 \o [n \in DOMAIN lz |-> <<lz[n], Width>>]
  /\ bit_buf = <<>> /\ data = <<>> /\ lost = FALSE /\ byte_pos = 0
  /\ num_lz_tokens = Unread /\ bits_per_symbol = Unread
  /\ out = <<>> /\ stamp = <<>>

(***************************************************************************)
(* Writing.  write_bits moves every whole byte of its buffer out; flush    *)
(* pads the last one with zeros.                                           *)
(***************************************************************************)
Whole(bits) == Len(bits) \div BYTE_BITS
ByteAt(bits, n) == SubSeq(bits, (n * BYTE_BITS) + 1, (n + 1) * BYTE_BITS)

WriteBits ==
  /\ phase = "write" /\ fields # <<>>
  /\ LET bits == bit_buf \o Bits(Head(fields)[1], Head(fields)[2])
     IN  /\ data' = data \o [n \in 1 .. Whole(bits) |-> ByteAt(bits, n - 1)]
         /\ bit_buf' = SubSeq(bits, (Whole(bits) * BYTE_BITS) + 1, Len(bits))
  /\ fields' = Tail(fields)
  /\ UNCHANGED <<lz, trailer, phase, lost, byte_pos, num_lz_tokens, bits_per_symbol, out, stamp>>

Padded(bits) ==
  IF bits = <<>> THEN <<>>
  ELSE <<[n \in 1 .. BYTE_BITS |-> IF n <= Len(bits) THEN bits[n] ELSE 0]>>

FlushAndFinish ==
  /\ phase = "write" /\ fields = <<>>
  /\ phase' = "sent"
  /\ data' = data \o Padded(bit_buf) \o [n \in DOMAIN trailer |-> Bits(trailer[n], BYTE_BITS)]
  /\ bit_buf' = <<>>
  /\ UNCHANGED <<lz, trailer, fields, lost, byte_pos, num_lz_tokens, bits_per_symbol, out, stamp>>

LoseEnd ==
  /\ phase = "sent" /\ ~lost
  /\ \E n \in 0 .. (Len(data) - 1) : data' = SubSeq(data, 1, n)
  /\ lost' = TRUE
  /\ UNCHANGED <<lz, trailer, phase, fields, bit_buf, byte_pos, num_lz_tokens,
                 bits_per_symbol, out, stamp>>

Receive ==
  /\ phase = "sent"
  /\ phase' = "read"
  /\ UNCHANGED <<sentVars, bit_buf, byte_pos, num_lz_tokens, bits_per_symbol, out, stamp>>

(***************************************************************************)
(* Reading.  read_bits refills its buffer when it holds fewer bits than    *)
(* asked for, to REFILL or, for a wider read, to its width.                *)
(***************************************************************************)
Smaller(a, b) == IF a < b THEN a ELSE b
Larger(a, b) == IF a > b THEN a ELSE b

\* The bytes the loops load to reach `want` bits.
Loads(want) ==
  Smaller((Larger(0, want - Len(bit_buf)) + BYTE_BITS - 1) \div BYTE_BITS, Len(data) - byte_pos)

LoadsFor(count) == IF Len(bit_buf) >= count THEN 0 ELSE Loads(Larger(count, REFILL))

Buffered(count) ==
  bit_buf \o FlattenSeq(SubSeq(data, byte_pos + 1, byte_pos + LoadsFor(count)))

CanRead(count) == Len(Buffered(count)) >= count
Result(count) == Value(SubSeq(Buffered(count), 1, count))

Consume(count) ==
  /\ CanRead(count)
  /\ bit_buf' = SubSeq(Buffered(count), count + 1, Len(Buffered(count)))
  /\ byte_pos' = byte_pos + LoadsFor(count)

ReadCount ==
  /\ phase = "read" /\ num_lz_tokens = Unread
  /\ Consume(WORD_BITS)
  /\ num_lz_tokens' = Result(WORD_BITS)
  /\ UNCHANGED <<sentVars, phase, bits_per_symbol, out, stamp>>

ReadWidth ==
  /\ phase = "read" /\ num_lz_tokens # Unread /\ bits_per_symbol = Unread
  /\ Consume(BYTE_BITS)
  /\ bits_per_symbol' = Result(BYTE_BITS)
  /\ UNCHANGED <<sentVars, phase, num_lz_tokens, out, stamp>>

ReadToken ==
  /\ phase = "read" /\ bits_per_symbol # Unread /\ Len(out) < num_lz_tokens
  /\ Consume(bits_per_symbol)
  /\ out' = Append(out, Result(bits_per_symbol))
  /\ UNCHANGED <<sentVars, phase, num_lz_tokens, bits_per_symbol, stamp>>

EndTokens ==
  /\ phase = "read" /\ Len(out) = num_lz_tokens /\ bits_per_symbol # Unread
  /\ phase' = IF trailer = <<>> THEN "done" ELSE "align"
  /\ UNCHANGED <<sentVars, bit_buf, byte_pos, num_lz_tokens, bits_per_symbol, out, stamp>>

\* The buffer was loaded by whole bytes, so what is over is the padding.
PadBits == Len(bit_buf) % BYTE_BITS

align_to_byte ==
  /\ phase = "align"
  /\ phase' = "trailer"
  /\ bit_buf' = SubSeq(bit_buf, PadBits + 1, Len(bit_buf))
  /\ UNCHANGED <<sentVars, byte_pos, num_lz_tokens, bits_per_symbol, out, stamp>>

ReadTrailer ==
  /\ phase = "trailer"
  /\ Consume(BYTE_BITS)
  /\ stamp' = Append(stamp, Result(BYTE_BITS))
  /\ phase' = IF Len(stamp') = Len(trailer) THEN "done" ELSE "trailer"
  /\ UNCHANGED <<sentVars, num_lz_tokens, bits_per_symbol, out>>

\* What read_bits is next asked for.
Wanted ==
  IF phase = "trailer" THEN BYTE_BITS
  ELSE IF num_lz_tokens = Unread THEN WORD_BITS
  ELSE IF bits_per_symbol = Unread THEN BYTE_BITS
  ELSE IF Len(out) < num_lz_tokens THEN bits_per_symbol ELSE 0

Truncated ==
  /\ phase \in {"read", "trailer"} /\ ~CanRead(Wanted)
  /\ phase' = "raised"
  /\ UNCHANGED <<sentVars, bit_buf, byte_pos, num_lz_tokens, bits_per_symbol, out, stamp>>

WriteNext == WriteBits \/ FlushAndFinish
ReadNext == ReadCount \/ ReadWidth \/ ReadToken \/ EndTokens \/ align_to_byte \/ ReadTrailer
            \/ Truncated
Next == WriteNext \/ LoseEnd \/ Receive \/ ReadNext

Spec == Init /\ [][Next]_vars

-----------------------------------------------------------------------------
\* The types of the state: the buffer is never longer than a refill and a read.
TypeOK ==
  /\ phase \in {"write", "sent", "read", "align", "trailer", "done", "raised"}
  /\ bit_buf \in Seq({0, 1}) /\ data \in Seq([1 .. BYTE_BITS -> {0, 1}])
  /\ Len(bit_buf) <= Larger(REFILL, WORD_BITS) /\ byte_pos \in 0 .. Len(data)
  /\ out \in Seq(0 .. (2 ^ Width) - 1) /\ Len(out) <= Len(lz)
  /\ stamp \in Seq(0 .. (2 ^ BYTE_BITS) - 1) /\ Len(stamp) <= Len(trailer)

(***************************************************************************)
(* A reader that is done has read the trailer that was written, from the   *)
(* byte it starts at, and has nothing left but padding; and a stream that  *)
(* has lost its end, by whatever number of bytes, is never read to the     *)
(* end.                                                                    *)
(***************************************************************************)
InSync ==
  phase = "done" =>
    /\ ~lost /\ stamp = trailer
    /\ byte_pos = Len(data) /\ Len(bit_buf) < BYTE_BITS

\* The reader finds the stream too short.
Refused == phase = "raised" /\ lost
=============================================================================
