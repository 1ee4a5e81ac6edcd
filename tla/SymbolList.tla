----------------------------- MODULE SymbolList -----------------------------
(***************************************************************************)
(* The list of the active symbols in front of a table (write_symbol_list   *)
(* and read_symbol_list of bitstream/varint.py and rust/bitio.rs): the     *)
(* count as a word, then each id as the varint of its distance from the    *)
(* one before.  A byte may change or the end be lost on the way; then the  *)
(* Python core reads the stream, and after it the Rust core.               *)
(***************************************************************************)
EXTENDS Wire

CONSTANTS
  IdLists,      \* the ascending lists of ids that are written
  Tails,        \* what may follow the list in a stream
  ID_BITS,      \* 32: the bits of an id
  VARINT_BITS,  \* 64: the bits of a varint's value
  BYTE_SHIFT    \* 7: the bits of the value in one byte

SymbolListAssumption ==
  /\ {ID_BITS, VARINT_BITS, BYTE_SHIFT} \subseteq Nat \ {0}
  /\ HALF = 2 ^ BYTE_SHIFT /\ ID_BITS < VARINT_BITS
  /\ \A ids \in IdLists :
        /\ ids \in Seq(0 .. (2 ^ ID_BITS) - 1) /\ FitsUint32(Len(ids))
        /\ \A n \in 2 .. Len(ids) : ids[n - 1] < ids[n]
  /\ Tails \subseteq Seq(0 .. (BYTE - 1))

VARIABLES
  sorted_ids,   \* the list
  data,         \* the bytes, the tail included
  fault,        \* NoFault, "changed", or the number of bytes that are left
  core,         \* who reads: "python", then "rust"; at first "transit"
  phase,        \* of the reader: "count", "ids", "done", "raised"
  n, prev, shift, result, byte_pos, out,   \* the reader's
  reference     \* what the Python core made of it

vars == <<sorted_ids, data, fault, core, phase, n, prev, shift, result, byte_pos, out, reference>>
sentVars == <<sorted_ids, data, fault>>
readerVars == <<phase, n, prev, shift, result, byte_pos, out>>

NoFault == -1
Changed == -2

\* Mutant: the distances are taken from the first id.
Delta_FromFirst(ids, k) == IF k = 1 THEN ids[1] ELSE ids[k] - ids[1]
Delta(ids, k) == IF k = 1 THEN ids[1] ELSE ids[k] - ids[k - 1]

write_symbol_list(ids) ==
  Uint32(Len(ids)) \o FlattenSeq([k \in DOMAIN ids |-> Varint(Delta(ids, k))])

Init ==
  /\ sorted_ids \in IdLists
  /\ \E tail \in Tails : data = write_symbol_list(sorted_ids) \o tail
  /\ fault = NoFault /\ core = "transit"
  /\ phase = "count" /\ n = 0 /\ prev = 0 /\ shift = 0 /\ result = 0 /\ byte_pos = 0
  /\ out = <<>> /\ reference = <<>>

(***************************************************************************)
(* Transit.                                                                *)
(***************************************************************************)
ChangeByte ==
  /\ core = "transit" /\ fault = NoFault
  /\ \E at \in DOMAIN data, b \in 0 .. (BYTE - 1) :
        /\ b # data[at]
        /\ data' = [data EXCEPT ![at] = b]
  /\ fault' = Changed
  /\ UNCHANGED <<sorted_ids, core, readerVars, reference>>

Cut ==
  /\ core = "transit" /\ fault = NoFault
  /\ \E k \in 0 .. (Len(data) - 1) : data' = SubSeq(data, 1, k) /\ fault' = k
  /\ UNCHANGED <<sorted_ids, core, readerVars, reference>>

Arrive ==
  /\ core = "transit"
  /\ core' = "python"
  /\ UNCHANGED <<sentVars, readerVars, reference>>

(***************************************************************************)
(* Reading.                                                                *)
(***************************************************************************)
Reading == core # "transit"

Raise ==
  /\ phase' = "raised"
  /\ UNCHANGED <<sentVars, core, n, prev, shift, result, byte_pos, out, reference>>

ReadCount ==
  /\ Reading /\ phase = "count" /\ WORD <= Len(data)
  /\ n' = FromBytes(Slice(data, 0, WORD)) /\ byte_pos' = WORD
  /\ phase' = "ids"
  /\ UNCHANGED <<sentVars, core, prev, shift, result, out, reference>>

NoCount == Reading /\ phase = "count" /\ WORD > Len(data) /\ Raise

\* Mutant: a list ends where the data does.
ListOver_AtEnd == Len(out) = n \/ byte_pos = Len(data)
ListOver == Len(out) = n

\* The byte that is next, and the value with it: the Rust core has VARINT_BITS
\* for it and drops the rest, Python has no limit.
InList == Reading /\ phase = "ids" /\ ~ListOver
HasByte == byte_pos < Len(data)
Byte == data[byte_pos + 1]
Kept(v) == IF core = "rust" THEN v % (2 ^ VARINT_BITS) ELSE v
Value == Kept(result + ((Byte % HALF) * (2 ^ shift)))
Id == Kept(prev + Value)

NoByte == InList /\ ~HasByte /\ Raise

TooLong == shift + BYTE_SHIFT > VARINT_BITS - 1

ReadContinued ==
  /\ InList /\ HasByte /\ Byte >= HALF /\ ~TooLong
  /\ result' = Value /\ shift' = shift + BYTE_SHIFT /\ byte_pos' = byte_pos + 1
  /\ UNCHANGED <<sentVars, core, phase, n, prev, out, reference>>

RejectLong == InList /\ HasByte /\ Byte >= HALF /\ TooLong /\ Raise

\* Mutant: the largest id is refused.
OutOfRange_Largest(id) == id >= (2 ^ ID_BITS) - 1
OutOfRange(id) == id >= 2 ^ ID_BITS

ReadId ==
  /\ InList /\ HasByte /\ Byte < HALF
  /\ core = "rust" => ~OutOfRange(Id)
  /\ prev' = Id /\ out' = Append(out, Id)
  /\ result' = 0 /\ shift' = 0 /\ byte_pos' = byte_pos + 1
  /\ UNCHANGED <<sentVars, core, phase, n, reference>>

RejectId == InList /\ HasByte /\ Byte < HALF /\ core = "rust" /\ OutOfRange(Id) /\ Raise

EndList ==
  /\ Reading /\ phase = "ids" /\ ListOver
  /\ phase' = "done"
  /\ UNCHANGED <<sentVars, core, n, prev, shift, result, byte_pos, out, reference>>

Ended == phase \in {"done", "raised"}
Outcome == [phase |-> phase, out |-> out, byte_pos |-> byte_pos]

\* The same bytes for the other core.
ReadInRust ==
  /\ core = "python" /\ Ended
  /\ reference' = Outcome /\ core' = "rust"
  /\ phase' = "count"
  /\ n' = 0 /\ prev' = 0 /\ shift' = 0 /\ result' = 0 /\ byte_pos' = 0 /\ out' = <<>>
  /\ UNCHANGED sentVars

Transit == ChangeByte \/ Cut \/ Arrive
Next ==
  \/ Transit \/ ReadCount \/ NoCount \/ NoByte \/ ReadContinued \/ RejectLong
  \/ ReadId \/ RejectId \/ EndList \/ ReadInRust

Spec == Init /\ [][Next]_vars

-----------------------------------------------------------------------------
(***************************************************************************)
(* Either core gets from an undamaged stream the list that was written,    *)
(* and stands at the byte behind it; damage behind the list changes        *)
(* nothing.                                                                *)
(***************************************************************************)
ListLength == Len(write_symbol_list(sorted_ids))
Intact == Slice(data, 0, ListLength) = write_symbol_list(sorted_ids)
RoundTrip ==
  Reading /\ Intact =>
    /\ phase # "raised"
    /\ phase = "done" => out = sorted_ids /\ byte_pos = ListLength

\* A list that lost some of its bytes is refused by both.
CutCaught == Reading /\ fault \in 0 .. (ListLength - 1) => phase # "done"

(***************************************************************************)
(* The Rust core refuses whatever the Python core refuses, and where it    *)
(* accepts ids that Python finds in range, they are the same, up to the    *)
(* same byte.  Ids out of range it refuses, but for a varint so long that  *)
(* its value wraps.                                                        *)
(***************************************************************************)
InRange(list) == \A k \in DOMAIN list : list[k] < 2 ^ ID_BITS
CoresAgree ==
  core = "rust" /\ Ended =>
    /\ reference.phase = "raised" => phase = "raised"
    /\ reference.phase = "done" /\ InRange(reference.out) => Outcome = reference
=============================================================================
