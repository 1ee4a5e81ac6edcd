-------------------------------- MODULE Batch --------------------------------
(***************************************************************************)
(* Many records in one stream (core.py): TOKB, one TOKZ stream of the      *)
(* joined records behind their lengths (compress_many), and TOKBI, a TOKZ  *)
(* stream each behind a table of their offsets (IndexedBatchWriter).  The  *)
(* readers are iter_decompress_many, of which decompress_many is the list, *)
(* indexed_decompress, and indexed_read.  Between writing and reading one  *)
(* byte may change, or the stream may be cut.                              *)
(*                                                                         *)
(* A TOKZ stream is what Compress gives and Decompress takes back,         *)
(* whatever follows it: module Container.                                  *)
(***************************************************************************)
EXTENDS Wire, FiniteSets

CONSTANTS
  Records,         \* the records, sequences of bytes
  MaxRecords,      \* bound of the model
  BATCH_MAGIC, INDEXED_MAGIC, VERSION,
  MAX_SHIFT,       \* 63: a length has at most this many bits and one more group
  GROUP,           \* 7: the bits of a length in one byte
  Compress(_), Decompress(_), Broken   \* Broken: decompress raises

ASSUME BatchAssumption ==
  /\ MaxRecords \in Nat /\ {MAX_SHIFT, GROUP} \subseteq Nat \ {0} /\ HALF = 2 ^ GROUP
  /\ IsPrefix(BATCH_MAGIC, INDEXED_MAGIC)
  /\ Len(INDEXED_MAGIC) = Len(BATCH_MAGIC) + 1 /\ Last(INDEXED_MAGIC) # VERSION
  /\ Decompress(<<>>) = Broken

VARIABLES
  records,            \* history: what was given to the writer
  format,             \* "TOKB", "TOKBI", or "TOKZ", a plain stream
  strict,             \* the reader is indexed_decompress
  phase,              \* "write", "transit", "read", "lengths", "blob", "records",
                      \* "indexed", "done", "error"
  compressed, body_size,     \* IndexedBatchWriter
  stream,
  fault,              \* history: the byte that changed, 0 for none; Len + 1 for a cut
  pos, value, shift, lengths,     \* _parse_batch_header
  blob, offset,
  out                 \* the records yielded

writerVars == <<compressed, body_size>>
parseVars == <<pos, value, shift, lengths>>
givenVars == <<format, strict>>
vars == <<records, givenVars, phase, writerVars, stream, fault, parseVars, blob, offset, out>>

Init ==
  /\ records = <<>> /\ format \in {"TOKB", "TOKBI", "TOKZ"} /\ strict \in BOOLEAN
  /\ phase = "write"
  /\ compressed = <<>> /\ body_size = 0
  /\ stream = <<>> /\ fault = 0
  /\ pos = 0 /\ value = 0 /\ shift = 0 /\ lengths = <<>>
  /\ blob = <<>> /\ offset = 0 /\ out = <<>>

(***************************************************************************)
(* Writing.                                                                *)
(***************************************************************************)
readerVars == <<parseVars, blob, offset, out>>

add ==
  /\ phase = "write" /\ format = "TOKBI" /\ Len(records) < MaxRecords
  /\ \E r \in Records :
        /\ records' = Append(records, r)
        /\ compressed' = Append(compressed, Compress(r))
        /\ body_size' = body_size + Len(Compress(r))
  /\ UNCHANGED <<givenVars, phase, stream, fault, readerVars>>

Sizes == [n \in DOMAIN compressed |-> Len(compressed[n])]
SumOf(seq) == FoldLeft(+, 0, seq)

\* Mutant: the running offset is advanced before it is written.
Offset_OfNext(n) == SumOf(SubSeq(Sizes, 1, n))
Offset(n) == SumOf(SubSeq(Sizes, 1, n - 1))

IndexedStream ==
  INDEXED_MAGIC \o <<VERSION>> \o Uint32(Len(compressed)) \o Uint32(body_size)
    \o FlattenSeq([n \in DOMAIN compressed |-> Uint32(Offset(n))]) \o FlattenSeq(compressed)

finish ==
  /\ phase = "write" /\ format = "TOKBI"
  /\ stream' = IndexedStream
  /\ phase' = "transit"
  /\ UNCHANGED <<records, givenVars, writerVars, fault, readerVars>>

BatchStream(given) ==
  BATCH_MAGIC \o <<VERSION>> \o Uint32(Len(given))
    \o FlattenSeq([n \in DOMAIN given |-> Varint(Len(given[n]))]) \o Compress(FlattenSeq(given))

compress_many ==
  /\ phase = "write" /\ format = "TOKB"
  /\ \E given \in SeqOf(Records, MaxRecords) : records' = given /\ stream' = BatchStream(given)
  /\ phase' = "transit"
  /\ UNCHANGED <<givenVars, writerVars, fault, readerVars>>

compress ==
  /\ phase = "write" /\ format = "TOKZ"
  /\ \E r \in Records : records' = <<r>> /\ stream' = Compress(r)
  /\ phase' = "transit"
  /\ UNCHANGED <<givenVars, writerVars, fault, readerVars>>

(***************************************************************************)
(* Transit.                                                                *)
(***************************************************************************)
ChangeByte ==
  /\ phase = "transit" /\ fault = 0
  /\ \E at \in DOMAIN stream, b \in 0 .. (BYTE - 1) :
        /\ b # stream[at]
        /\ stream' = [stream EXCEPT ![at] = b]
        /\ fault' = at
  /\ UNCHANGED <<records, givenVars, phase, writerVars, readerVars>>

Cut ==
  /\ phase = "transit" /\ fault = 0
  /\ \E n \in 0 .. (Len(stream) - 1) : stream' = SubSeq(stream, 1, n)
  /\ fault' = Len(stream) + 1
  /\ UNCHANGED <<records, givenVars, phase, writerVars, readerVars>>

Arrive ==
  /\ phase = "transit"
  /\ phase' = "read"
  /\ UNCHANGED <<records, givenVars, writerVars, stream, fault, readerVars>>

(***************************************************************************)
(* _parse_indexed_header, and the bounds of a record's stream.  Records    *)
(* count from 0, as offsets do.                                            *)
(***************************************************************************)
IndexedStart == Len(INDEXED_MAGIC) + 1
TableStart == IndexedStart + (2 * WORD)
Word(start) == FromBytes(Slice(stream, start, start + WORD))

IsIndexed == IsPrefix(INDEXED_MAGIC, stream)
IsBatch == IsPrefix(BATCH_MAGIC, stream)

n_records == Word(IndexedStart)
declared_size == Word(IndexedStart + WORD)
body_start == TableStart + (WORD * n_records)
offset_of(i) == Word(TableStart + (WORD * i))

\* Mutant: one offset outside the body and the whole batch is refused.
HeaderFits_AllOffsets ==
  /\ Len(stream) >= TableStart /\ body_start <= Len(stream)
  /\ \A i \in 0 .. (n_records - 1) : offset_of(i) <= declared_size
HeaderFits ==
  /\ Len(stream) >= TableStart
  /\ body_start <= Len(stream) /\ declared_size <= Len(stream) - body_start

IndexedOK == HeaderFits /\ stream[IndexedStart] = VERSION

IndexedRecord(i) ==
  Decompress(Slice(stream, body_start + offset_of(i),
                   body_start + (IF i + 1 < n_records THEN offset_of(i + 1) ELSE declared_size)))

\* indexed_read: Broken also when it raises for the header or the index.
indexed_read(i) ==
  IF IsIndexed /\ IndexedOK /\ i < n_records THEN IndexedRecord(i) ELSE Broken

(***************************************************************************)
(* Reading: iter_decompress_many, and indexed_decompress if strict.        *)
(***************************************************************************)
Raise ==
  /\ phase' = "error"
  /\ UNCHANGED <<records, givenVars, writerVars, stream, fault, readerVars>>

unread == <<records, givenVars, writerVars, stream, fault>>

OpenIndexed ==
  /\ phase = "read" /\ IsIndexed /\ IndexedOK
  /\ phase' = "indexed"
  /\ UNCHANGED <<unread, readerVars>>

RejectIndexed ==
  /\ phase = "read"
  /\ IF IsIndexed THEN ~IndexedOK ELSE strict
  /\ Raise

YieldIndexed ==
  /\ phase = "indexed" /\ Len(out) < n_records
  /\ IndexedRecord(Len(out)) # Broken
  /\ out' = Append(out, IndexedRecord(Len(out)))
  /\ UNCHANGED <<unread, phase, parseVars, blob, offset>>

\* Mutant: a record that cannot be decoded is tried again.
RejectIndexedRecord_Retried == phase = "indexed" /\ Len(out) < n_records /\ UNCHANGED vars
RejectIndexedRecord ==
  /\ phase = "indexed" /\ Len(out) < n_records
  /\ IndexedRecord(Len(out)) = Broken
  /\ Raise

EndIndexed ==
  /\ phase = "indexed" /\ Len(out) = n_records
  /\ phase' = "done"
  /\ UNCHANGED <<unread, readerVars>>

ReadPlain ==
  /\ phase = "read" /\ ~strict /\ ~IsIndexed /\ ~IsBatch
  /\ Decompress(stream) # Broken
  /\ out' = <<Decompress(stream)>>
  /\ phase' = "done"
  /\ UNCHANGED <<unread, parseVars, blob, offset>>

RejectPlain ==
  /\ phase = "read" /\ ~strict /\ ~IsIndexed /\ ~IsBatch
  /\ Decompress(stream) = Broken
  /\ Raise

VersionAt == Len(BATCH_MAGIC) + 1
batch_records == Word(VersionAt)
IsVersion == Len(stream) >= VersionAt /\ stream[VersionAt] = VERSION

OpenBatch ==
  /\ phase = "read" /\ ~strict /\ ~IsIndexed /\ IsBatch /\ IsVersion
  /\ phase' = "lengths"
  /\ pos' = VersionAt + WORD
  /\ UNCHANGED <<unread, value, shift, lengths, blob, offset, out>>

RejectVersion ==
  /\ phase = "read" /\ ~strict /\ ~IsIndexed /\ IsBatch /\ ~IsVersion
  /\ Raise

MoreLengths == phase = "lengths" /\ Len(lengths) < batch_records

\* One turn of the varint loop.
ReadLengthByte ==
  /\ MoreLengths /\ pos < Len(stream)
  /\ LET byte == stream[pos + 1]
         read == value + ((byte % HALF) * (2 ^ shift))
     IN  \/ /\ byte < HALF
            /\ lengths' = Append(lengths, read) /\ value' = 0 /\ shift' = 0
         \/ /\ byte >= HALF /\ shift + GROUP <= MAX_SHIFT
            /\ value' = read /\ shift' = shift + GROUP /\ UNCHANGED lengths
  /\ pos' = pos + 1
  /\ UNCHANGED <<unread, phase, blob, offset, out>>

RejectLength ==
  /\ MoreLengths
  /\ pos < Len(stream) => stream[pos + 1] >= HALF /\ shift + GROUP > MAX_SHIFT
  /\ Raise

Inner == Decompress(Slice(stream, pos, Len(stream)))

\* Mutant: the lengths may leave some of the text out.
LengthsAddUp_Within == Inner # Broken /\ SumOf(lengths) <= Len(Inner)
LengthsAddUp == Inner # Broken /\ SumOf(lengths) = Len(Inner)

DecodeBlob ==
  /\ phase = "lengths" /\ Len(lengths) = batch_records
  /\ LengthsAddUp
  /\ blob' = Inner
  /\ phase' = "records"
  /\ UNCHANGED <<unread, parseVars, offset, out>>

RejectBlob ==
  /\ phase = "lengths" /\ Len(lengths) = batch_records
  /\ ~LengthsAddUp
  /\ Raise

YieldRecord ==
  /\ phase = "records" /\ Len(out) < Len(lengths)
  /\ LET ln == lengths[Len(out) + 1]
     IN  /\ out' = Append(out, Slice(blob, offset, offset + ln))
         /\ offset' = offset + ln
  /\ UNCHANGED <<unread, phase, parseVars, blob>>

EndRecords ==
  /\ phase = "records" /\ Len(out) = Len(lengths)
  /\ phase' = "done"
  /\ UNCHANGED <<unread, readerVars>>

WriteNext == add \/ finish \/ compress_many \/ compress
Transit == ChangeByte \/ Cut \/ Arrive
ReadNext ==
  \/ OpenIndexed \/ RejectIndexed \/ YieldIndexed \/ RejectIndexedRecord \/ EndIndexed
  \/ ReadPlain \/ RejectPlain \/ OpenBatch \/ RejectVersion \/ ReadLengthByte \/ RejectLength
  \/ DecodeBlob \/ RejectBlob \/ YieldRecord \/ EndRecords
Next == WriteNext \/ Transit \/ ReadNext

Spec == Init /\ [][Next]_vars
FairSpec == Spec /\ WF_vars(ReadNext)

\* batch_record_count, where it is read from the header alone.
batch_record_count == IF IsIndexed THEN n_records ELSE IF IsBatch THEN batch_records ELSE 1

-----------------------------------------------------------------------------
(***************************************************************************)
(* An undamaged batch gives its records back, in order, through every      *)
(* reader that takes its format, as many as batch_record_count says, and   *)
(* each of them on its own -- as long as its numbers fit their fields.     *)
(***************************************************************************)
Fits == FitsUint32(Len(records)) /\ FitsUint32(body_size)

RoundTrip ==
  fault = 0 /\ Fits /\ phase \notin {"write", "transit"} /\ (strict => format = "TOKBI") =>
    /\ phase # "error" /\ IsPrefix(out, records)
    /\ phase = "done" => out = records
    /\ batch_record_count = Len(records)
    /\ format = "TOKBI" => \A i \in DOMAIN records : indexed_read(i - 1) = records[i]

(***************************************************************************)
(* A changed byte in front of the records' streams, or a cut, or numbers   *)
(* too large for their fields: a reader of TOKBI yields only records that  *)
(* were written; a reader of TOKB yields nothing at all or, cut up in      *)
(* whatever way, the very text that was written.                           *)
(*                                                                         *)
(* Two exceptions.  A change of the magic or of the version may hand the   *)
(* stream to the reader of another format, and nothing bounds what that    *)
(* makes of it: a TOKB of 256 records is a plain stream if B becomes Z.    *)
(* And the bytes of a length, of an offset or of a record's stream may     *)
(* look like a stream of their own, which is then what a wrong count or    *)
(* offset finds.                                                           *)
(***************************************************************************)
HeaderSize ==
  IF format = "TOKBI" THEN TableStart + (WORD * Len(records))
  ELSE VersionAt + WORD + SumOf([n \in DOMAIN records |-> Len(Varint(Len(records[n])))])
InHeader == fault <= HeaderSize \/ fault > Len(stream)

ReadAs == IF IsIndexed THEN "TOKBI" ELSE IF IsBatch THEN "TOKB" ELSE "TOKZ"

\* In what was written, a plain stream begins only where one was put.
Starts ==
  IF format = "TOKBI" THEN {HeaderSize + Offset(n) : n \in DOMAIN records} ELSE {HeaderSize}
NoneInside ==
  LET written == IF format = "TOKBI" THEN IndexedStream ELSE BatchStream(records)
  IN  \A at \in (DOMAIN written) \ Starts : Decompress(Slice(written, at, Len(written))) = Broken

NothingInvented ==
  format # "TOKZ" /\ ReadAs = format /\ InHeader /\ NoneInside =>
    /\ format = "TOKBI" => Range(out) \subseteq Range(records)
    /\ format = "TOKB" =>
          /\ IsPrefix(FlattenSeq(out), FlattenSeq(records))
          /\ phase = "error" => out = <<>>
          /\ phase = "done" => FlattenSeq(out) = FlattenSeq(records)

(***************************************************************************)
(* Random access is robust: a byte that changes in the offset table or in  *)
(* a record's stream costs the records whose bounds or whose stream it is, *)
(* and indexed_read still gives every other one.                           *)
(***************************************************************************)
Touches(at, i) ==
  \/ (at - TableStart - 1) \div WORD \in {i, i + 1} /\ at <= HeaderSize
  \/ at - HeaderSize \in (Offset(i + 1) + 1) .. Offset(i + 2)

Isolated ==
  format = "TOKBI" /\ phase = "read" /\ fault \in (TableStart + 1) .. Len(stream) /\ Fits =>
    \A i \in 0 .. (Len(records) - 1) : Touches(fault, i) \/ indexed_read(i) = records[i + 1]

(***************************************************************************)
(* Reading ends, on a damaged stream too, where the number of records and  *)
(* their lengths may be anything.                                          *)
(***************************************************************************)
ReadEnds == phase = "read" ~> phase \in {"done", "error"}
=============================================================================
