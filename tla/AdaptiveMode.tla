---------------------------- MODULE AdaptiveMode ----------------------------
(***************************************************************************)
(* The modes whose literal tables are never transmitted,                   *)
(* MODE_RANS_ADAPTIVE and MODE_RANS_ADAPTIVE_SPLIT (_encode_rans_adaptive, *)
(* _encode_rans_adaptive_split, their branches of codec/decoder.py and the *)
(* ports in rust/).  The literals are cut into chunks; a chunk is coded    *)
(* with the table of all literals before it, which the encoder takes on a  *)
(* way forward, before it encodes backwards, and the decoder counts anew.  *)
(***************************************************************************)
EXTENDS Coder

CONSTANTS
  Byte,                   \* 256: the size of a metadata table
  ADAPTIVE_MIN_CHUNK,
  ADAPTIVE_WORK_BUDGET,
  Inputs                  \* the LZ token lists that are encoded

AdaptiveAssumption ==
  /\ {Byte, ADAPTIVE_MIN_CHUNK, ADAPTIVE_WORK_BUDGET} \subseteq Nat \ {0}
  /\ Inputs \subseteq Seq(0 .. MatchFlag)

VARIABLES
  lz, split,      \* lz_tokens, and which of the two modes it is
  phase,          \* "collect", "snapshot", "encode", "decode", "done"
  positions,      \* where the events start
  meta,           \* the static tables role, hi, lo, len of the split
  distinct,       \* the ids with a local index, in order
  ext,            \* is there an escape slot after them
  coded,          \* the literals as local indices, from 0
  escapes,        \* the literals without one
  chunk_size,
  chunk_stats,    \* the table of each chunk
  cum_counts,     \* the counts so far, by local index
  at, lit_idx,    \* the encoder's event and literal, counted down
  stack,          \* the entropy coder
  step,           \* which decode_symbol call is next
  left,           \* the decoder's events to go
  lit_pos, boundary, table, counts, escape_pos,
  out             \* its lz_tokens

inputVars == <<lz, split>>
planVars == <<positions, meta, distinct, ext, coded, escapes, chunk_size>>
historyVars == <<chunk_stats, cum_counts>>
encoderVars == <<at, lit_idx>>
literalVars == <<lit_pos, boundary, table, counts, escape_pos>>
vars == <<inputVars, phase, planVars, historyVars, encoderVars, stack, step, left,
          literalVars, out>>

Larger(a, b) == IF a > b THEN a ELSE b
Smaller(a, b) == IF a < b THEN a ELSE b

_adaptive_chunk_size(n, k) == Larger(ADAPTIVE_MIN_CHUNK, (n * k) \div ADAPTIVE_WORK_BUDGET)

Kept(literals) == Capped(literals, RANS_M - 1)

escape_local == Len(distinct)
Slots == 0 .. (IF ext THEN escape_local ELSE escape_local - 1)
k == Cardinality(Slots)
n_lit == Len(coded)

Init ==
  /\ lz \in Inputs /\ split \in BOOLEAN
  /\ phase = "collect"
  /\ positions = <<>> /\ meta = <<>> /\ distinct = <<>> /\ ext = FALSE
  /\ coded = <<>> /\ escapes = <<>> /\ chunk_size = ADAPTIVE_MIN_CHUNK
  /\ chunk_stats = <<>> /\ cum_counts = <<>>
  /\ at = 0 /\ lit_idx = 0 /\ stack = <<>>
  /\ step = "event" /\ left = 0
  /\ lit_pos = 0 /\ boundary = 0 /\ table = <<>> /\ counts = <<>> /\ escape_pos = 0
  /\ out = <<>>

(***************************************************************************)
(* Encoding.  The escape slot is always there in the split mode, and only  *)
(* when the alphabet is capped (MODE_FLAG_EXT) in the other.               *)
(***************************************************************************)
Collect ==
  /\ phase = "collect"
  /\ phase' = "snapshot"
  /\ positions' = IF split THEN Positions(lz) ELSE [n \in DOMAIN lz |-> n]
  /\ \E literals \in {IF split THEN Literals(lz, positions') ELSE lz} : \E kept \in {Kept(literals)} :
        LET Local(s) == IF s \in kept THEN Cardinality({t \in kept : t < s}) ELSE Cardinality(kept)
            slot == split \/ kept # ValuesOf(literals)
            size == Cardinality(kept) + (IF slot THEN 1 ELSE 0)
        IN  /\ distinct' = Ascending(kept)
            /\ ext' = slot
            /\ coded' = [n \in DOMAIN literals |-> Local(literals[n])]
            /\ escapes' = Selected(literals, {n \in DOMAIN literals : literals[n] \notin kept})
            /\ chunk_size' = _adaptive_chunk_size(Len(literals), size)
            /\ cum_counts' = [s \in 0 .. (size - 1) |-> 1]
  /\ meta' = IF split THEN MetaTables(lz, positions', Byte) ELSE <<>>
  /\ UNCHANGED <<inputVars, chunk_stats, encoderVars, stack, step, left, literalVars, out>>

\* One turn of the loop over chunk_bounds: the table first, then the counting.
from == Len(chunk_stats) * chunk_size
Chunk == (from + 1) .. Smaller(from + chunk_size, n_lit)
WithChunk(s) == cum_counts[s] + Cardinality({j \in Chunk : coded[j] = s})

\* Mutant: the chunk's own literals are in its table.
Counted_Early == [s \in Slots |-> WithChunk(s)]
Counted == cum_counts

SnapshotChunk ==
  /\ phase = "snapshot" /\ from < n_lit
  /\ chunk_stats' = Append(chunk_stats, Freq(Counted, k + from))
  /\ cum_counts' = [s \in Slots |-> WithChunk(s)]
  /\ UNCHANGED <<inputVars, phase, planVars, encoderVars, stack, step, left, literalVars, out>>

BeginEncode ==
  /\ phase = "snapshot" /\ from >= n_lit
  /\ phase' = "encode"
  /\ at' = Len(positions) /\ lit_idx' = n_lit
  /\ UNCHANGED <<inputVars, planVars, historyVars, stack, step, left, literalVars, out>>

EncodeMatch ==
  /\ phase = "encode" /\ at > 0
  /\ split /\ Span(lz, positions[at]) = 4
  /\ stack' = stack \o MatchCalls(lz, positions[at], meta)
  /\ at' = at - 1
  /\ UNCHANGED <<inputVars, phase, planVars, historyVars, lit_idx, step, left,
                 literalVars, out>>

EncodeLiteral ==
  /\ phase = "encode" /\ at > 0
  /\ split => Span(lz, positions[at]) = 1
  /\ LET stats == chunk_stats[((lit_idx - 1) \div chunk_size) + 1]
     IN  stack' = stack \o <<Call(coded[lit_idx], stats)>>
                        \o (IF split THEN <<Call(0, meta.role)>> ELSE <<>>)
  /\ at' = at - 1 /\ lit_idx' = lit_idx - 1
  /\ UNCHANGED <<inputVars, phase, planVars, historyVars, step, left, literalVars, out>>

(***************************************************************************)
(* Decoding.  The stream holds distinct, ext (an event has an escape       *)
(* slot), escapes, chunk_size, the number of events and of literals, and   *)
(* the metadata tables.                                                    *)
(***************************************************************************)
Turns == IF split THEN Len(positions) ELSE Len(lz)

BeginDecode ==
  /\ phase = "encode" /\ at = 0
  /\ phase' = "decode"
  /\ left' = Turns
  /\ step' = IF split THEN "event" ELSE "literal"
  /\ counts' = [s \in Slots |-> 1]
  /\ UNCHANGED <<inputVars, planVars, historyVars, encoderVars, stack, lit_pos, boundary,
                 table, escape_pos, out>>

sentVars == <<inputVars, planVars, historyVars, encoderVars>>

DecodeRole ==
  /\ phase = "decode" /\ left > 0 /\ step = "event"
  /\ \E role \in Popped(stack, Received(meta.role)) :
        /\ step' = IF role = 1 THEN "hi" ELSE "literal"
        /\ out' = IF role = 1 THEN Append(out, MatchFlag) ELSE out
  /\ stack' = Below(stack)
  /\ UNCHANGED <<sentVars, phase, left, literalVars>>

DecodeMeta(this, stats, next) ==
  /\ phase = "decode" /\ left > 0 /\ step = this
  /\ \E v \in Popped(stack, stats) : out' = Append(out, v)
  /\ stack' = Below(stack)
  /\ step' = next
  /\ left' = IF next = "event" THEN left - 1 ELSE left
  /\ UNCHANGED <<sentVars, phase, literalVars>>

DecodeHi == DecodeMeta("hi", Received(meta.hi), "lo")
DecodeLo == DecodeMeta("lo", Received(meta.lo), "len")
DecodeLen == DecodeMeta("len", Received(meta.len), "event")

Stats == IF lit_pos = boundary THEN Freq(counts, k + lit_pos) ELSE table

Recounted(s) == [counts EXCEPT ![s] = @ + 1]

NextEscape == escapes[escape_pos + 1]

DecodeLiteral ==
  /\ phase = "decode" /\ left > 0 /\ step = "literal"
  /\ \E s \in Popped(stack, Stats) :
        /\ counts' = Recounted(s)
        /\ \/ /\ s < escape_local
              /\ out' = Append(out, distinct[s + 1]) /\ UNCHANGED escape_pos
           \/ /\ s = escape_local /\ escape_pos < Len(escapes)
              /\ out' = Append(out, NextEscape) /\ escape_pos' = escape_pos + 1
  /\ table' = Stats
  /\ boundary' = IF lit_pos = boundary THEN Smaller(lit_pos + chunk_size, n_lit) ELSE boundary
  /\ lit_pos' = lit_pos + 1
  /\ stack' = Below(stack)
  /\ left' = left - 1
  /\ step' = IF split THEN "event" ELSE "literal"
  /\ UNCHANGED <<sentVars, phase>>

EndDecode ==
  /\ phase = "decode" /\ left = 0
  /\ phase' = "done"
  /\ UNCHANGED <<sentVars, stack, step, left, literalVars, out>>

EncodeNext == Collect \/ SnapshotChunk \/ BeginEncode \/ EncodeMatch \/ EncodeLiteral
DecodeNext == \/ BeginDecode
              \/ DecodeRole \/ DecodeHi \/ DecodeLo \/ DecodeLen \/ DecodeLiteral \/ EndDecode
Next == EncodeNext \/ DecodeNext

Spec == Init /\ [][Next]_vars

-----------------------------------------------------------------------------
\* The types of the state, and that neither side runs past its list.
TypeOK ==
  /\ split \in BOOLEAN /\ ext \in BOOLEAN
  /\ phase \in {"collect", "snapshot", "encode", "decode", "done"}
  /\ step \in {"event", "hi", "lo", "len", "literal"}
  /\ \A n \in DOMAIN coded : coded[n] \in Slots
  /\ at \in 0 .. Len(lz) /\ left \in 0 .. Len(lz)
  /\ lit_idx \in 0 .. n_lit /\ lit_pos \in 0 .. n_lit /\ boundary \in 0 .. n_lit
  /\ escape_pos \in 0 .. Len(escapes)
  /\ out \in Seq(0 .. MatchFlag) /\ Len(out) <= Len(lz)

(***************************************************************************)
(* The table the decoder rebuilds from what it has decoded is the one the  *)
(* encoder took on its way forward, at every call.                         *)
(***************************************************************************)
NextTable ==
  IF step = "event" THEN Received(meta.role)
  ELSE IF step = "literal" THEN Stats
  ELSE Received(meta[step])

TablesAgree ==
  phase = "decode" /\ left > 0 => stack # <<>> /\ Top(stack).table = NextTable

(***************************************************************************)
(* When the decoder is done it has taken everything the stream holds, and  *)
(* its counts are the encoder's.                                           *)
(***************************************************************************)
Consumed ==
  phase = "done" =>
    /\ stack = <<>> /\ escape_pos = Len(escapes)
    /\ lit_pos = n_lit /\ counts = cum_counts

(***************************************************************************)
(* Encoder and decoder are in step: at each call, and at the end.          *)
(***************************************************************************)
InSync == TablesAgree /\ Consumed
=============================================================================
