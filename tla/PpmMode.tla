------------------------------- MODULE PpmMode -------------------------------
(***************************************************************************)
(* MODE_RANS_PPM and MODE_RANS_PPM_SPLIT (_encode_rans_ppm and             *)
(* _encode_rans_ppm_split, their branches of codec/decoder.py and the      *)
(* ports in rust/).  As in AdaptiveMode no literal table is transmitted;   *)
(* here a literal is first tried under the table of its context, the       *)
(* literal before it, and escapes from there to the order-0 table, and     *)
(* from there to a list.                                                   *)
(***************************************************************************)
EXTENDS Coder, Functions

CONSTANTS
  Byte,                     \* 256: the size of a metadata table
  ADAPTIVE_MIN_CHUNK,
  ADAPTIVE_WORK_BUDGET,
  MIN_CONTEXT_TRANSITIONS,  \* the support a context needs for a table
  Inputs                    \* the LZ token lists that are encoded

PpmAssumption ==
  /\ {Byte, ADAPTIVE_MIN_CHUNK, ADAPTIVE_WORK_BUDGET, MIN_CONTEXT_TRANSITIONS}
       \subseteq Nat \ {0}
  /\ Inputs \subseteq Seq(0 .. MatchFlag)

VARIABLES
  lz, split,      \* lz_tokens, and which of the two modes it is
  phase,          \* "collect", "snapshot", "encode", "decode", "done"
  positions,      \* where the events start
  meta,           \* the static tables role, hi, lo, len of the split
  distinct,       \* the ids with a local index, in order
  ext,            \* does order 0 have an escape slot
  coded,          \* the literals as local indices, from 0
  escapes,        \* the escape list under construction
  chunk_size,
  chunk_stats,    \* the tables of each chunk
  counted,        \* the encoder's counts: of locals, and of locals by context
  at, lit_idx,    \* the encoder's event and literal, counted down
  stack,          \* the entropy coder
  sent_escapes,   \* the escape list of the stream
  step,           \* which decode_symbol call is next
  left,           \* the decoder's events to go
  lit_pos, boundary, tables, recounted, prev, escape_pos,
  out             \* its lz_tokens

inputVars == <<lz, split>>
planVars == <<positions, meta, distinct, ext, coded, chunk_size>>
historyVars == <<chunk_stats, counted>>
encoderVars == <<at, lit_idx, escapes, sent_escapes>>
literalVars == <<lit_pos, boundary, tables, recounted, prev, escape_pos>>
sentVars == <<inputVars, planVars, historyVars, encoderVars>>
vars == <<sentVars, phase, stack, step, left, literalVars, out>>

Larger(a, b) == IF a > b THEN a ELSE b
Smaller(a, b) == IF a < b THEN a ELSE b
_adaptive_chunk_size(n, size) ==
  Larger(ADAPTIVE_MIN_CHUNK, (n * size) \div ADAPTIVE_WORK_BUDGET)

Kept(literals) == Capped(literals, RANS_M - (IF split THEN 2 ELSE 1))

n_lit == Len(coded)
escape_local == Len(distinct)
Locals == 0 .. escape_local
Slots == IF ext THEN Locals ELSE Locals \ {escape_local}
None == -1   \* no literal before the first

\* A context is a literal as the decoder knows it: a local index in the split
\* mode, a token in the other.
Contexts == IF split THEN Locals ELSE 0 .. MatchFlag
ContextAt(j) == IF j = 1 THEN None ELSE IF split THEN coded[j - 1] ELSE lz[j - 1]

NoCounts(slots, locals, contexts) ==
  [order |-> [l \in slots |-> 1], ctx |-> [c \in contexts |-> [l \in locals |-> 0]]]

SumOver(f) == FoldFunction(+, 0, f)

(***************************************************************************)
(* The tables of a chunk, from the counts before it: order 0, Laplace      *)
(* smoothed, and one for every context with enough support, its escape as  *)
(* heavy as it has distinct successors.  The split mode's counts include   *)
(* escape_local, whose place the context's escape takes.                   *)
(***************************************************************************)
CtxTable(seen) ==
  LET different == Cardinality(Active(seen))
      mass == Larger(1, different)
      raw == [seen EXCEPT ![escape_local] = mass]
      longer == [l \in 0 .. (escape_local + 1) |-> IF l > escape_local THEN 1 ELSE raw[l]]
  IN  IF split THEN Freq(longer, SumOver(seen) + mass + 1)
               ELSE Freq(raw, SumOver(seen) + mass)

Supported(counts) == {c \in Contexts : SumOver(counts.ctx[c]) >= MIN_CONTEXT_TRANSITIONS}

Tables(counts) ==
  [order |-> Freq(counts.order, SumOver(counts.order)),
   ctx |-> [c \in Supported(counts) |-> CtxTable(counts.ctx[c])]]

\* A dropped symbol is counted as the escape by the split mode, and by the
\* other not at all.
IsCounted(l) == split \/ l < escape_local

Init ==
  /\ lz \in Inputs /\ split \in BOOLEAN
  /\ phase = "collect"
  /\ positions = <<>> /\ meta = <<>> /\ distinct = <<>> /\ ext = FALSE
  /\ coded = <<>> /\ escapes = <<>> /\ chunk_size = ADAPTIVE_MIN_CHUNK
  /\ chunk_stats = <<>> /\ counted = <<>>
  /\ at = 0 /\ lit_idx = 0 /\ stack = <<>> /\ sent_escapes = <<>>
  /\ step = "event" /\ left = 0
  /\ lit_pos = 0 /\ boundary = 0 /\ tables = <<>> /\ recounted = <<>>
  /\ prev = None /\ escape_pos = 0
  /\ out = <<>>

Collect ==
  /\ phase = "collect"
  /\ phase' = "snapshot"
  /\ UNCHANGED inputVars
  /\ positions' = IF split THEN Positions(lz) ELSE [n \in DOMAIN lz |-> n]
  /\ \E literals \in {IF split THEN Literals(lz, positions') ELSE lz} : \E kept \in {Kept(literals)} :
        LET Local(s) == IF s \in kept THEN Cardinality({t \in kept : t < s}) ELSE Cardinality(kept)
        IN  /\ distinct' = Ascending(kept)
            /\ ext' = (split \/ kept # ValuesOf(literals))
            /\ coded' = [n \in DOMAIN literals |-> Local(literals[n])]
            /\ escapes' = IF split THEN Selected(literals, {n \in DOMAIN literals : literals[n] \notin kept})
                          ELSE <<>>
            /\ chunk_size' = _adaptive_chunk_size(Len(literals), Cardinality(Slots'))
            /\ counted' = NoCounts(Slots', Locals', Contexts')
  /\ meta' = IF split THEN MetaTables(lz, positions', Byte) ELSE <<>>
  /\ UNCHANGED <<chunk_stats, at, lit_idx, sent_escapes, stack, step, left,
                 literalVars, out>>

\* One turn of the loop over chunk_bounds: the tables first, then the counting.
from == Len(chunk_stats) * chunk_size
Chunk == {j \in (from + 1) .. Smaller(from + chunk_size, n_lit) : IsCounted(coded[j])}

SnapshotChunk ==
  /\ phase = "snapshot" /\ from < n_lit
  /\ chunk_stats' = Append(chunk_stats, Tables(counted))
  /\ counted' =
       [order |-> [l \in Slots |-> counted.order[l] + Cardinality({j \in Chunk : coded[j] = l})],
        ctx |-> [c \in Contexts |-> [l \in Locals |-> counted.ctx[c][l]
                   + Cardinality({j \in Chunk : ContextAt(j) = c /\ coded[j] = l})]]]
  /\ UNCHANGED <<inputVars, phase, planVars, encoderVars, stack, step, left, literalVars, out>>

BeginEncode ==
  /\ phase = "snapshot" /\ from >= n_lit
  /\ phase' = "encode"
  /\ at' = Len(positions) /\ lit_idx' = n_lit
  /\ UNCHANGED <<inputVars, planVars, historyVars, escapes, sent_escapes, stack, step, left,
                 literalVars, out>>

EncodeMatch ==
  /\ phase = "encode" /\ at > 0
  /\ split /\ Span(lz, positions[at]) = 4
  /\ stack' = stack \o MatchCalls(lz, positions[at], meta)
  /\ at' = at - 1
  /\ UNCHANGED <<inputVars, phase, planVars, historyVars, lit_idx, escapes, sent_escapes,
                 step, left, literalVars, out>>

\* The calls for local index l in context c, with the decoder's first call last.
Cascade(l, c, stats) ==
  IF c \notin DOMAIN stats.ctx THEN <<Call(l, stats.order)>>
  ELSE IF l # escape_local /\ stats.ctx[c][l] > 0 THEN <<Call(l, stats.ctx[c])>>
  ELSE <<Call(l, stats.order),
         Call(escape_local + (IF split /\ l = escape_local THEN 1 ELSE 0), stats.ctx[c])>>

EncodeLiteral ==
  /\ phase = "encode" /\ at > 0
  /\ split => Span(lz, positions[at]) = 1
  /\ LET l == coded[lit_idx]
         stats == chunk_stats[((lit_idx - 1) \div chunk_size) + 1]
     IN  /\ stack' = stack \o Cascade(l, ContextAt(lit_idx), stats)
                           \o (IF split THEN <<Call(0, meta.role)>> ELSE <<>>)
         /\ escapes' = IF ~split /\ l = escape_local THEN Append(escapes, lz[lit_idx])
                                                     ELSE escapes
  /\ at' = at - 1 /\ lit_idx' = lit_idx - 1
  /\ UNCHANGED <<inputVars, phase, planVars, historyVars, sent_escapes, step, left,
                 literalVars, out>>

\* Mutant: the split mode's list is reversed as well, though it was built forward.
WrittenEscapes_AllReversed == Reversed(escapes)
WrittenEscapes == IF split THEN escapes ELSE Reversed(escapes)

Turns == IF split THEN Len(positions) ELSE Len(lz)

FirstStep == IF split THEN "event" ELSE "literal"

WriteStream ==
  /\ phase = "encode" /\ at = 0
  /\ phase' = "decode"
  /\ sent_escapes' = WrittenEscapes
  /\ left' = Turns
  /\ step' = FirstStep
  /\ recounted' = NoCounts(Slots, Locals, Contexts)
  /\ UNCHANGED <<inputVars, planVars, historyVars, at, lit_idx, escapes, stack, lit_pos,
                 boundary, tables, prev, escape_pos, out>>

(***************************************************************************)
(* Decoding.  The stream holds distinct, ext, sent_escapes, chunk_size,    *)
(* the numbers of events and of literals, and the metadata tables.         *)
(***************************************************************************)
DecodeRole ==
  /\ phase = "decode" /\ left > 0 /\ step = "event"
  /\ \E role \in Popped(stack, Received(meta.role)) :
        /\ step' = IF role = 1 THEN "hi" ELSE "literal"
        /\ out' = IF role = 1 THEN Append(out, MatchFlag) ELSE out
  /\ stack' = Below(stack)
  /\ UNCHANGED <<sentVars, phase, left, literalVars>>

DecodeMeta(this, stats, next) ==
  /\ phase = "decode" /\ left > 0 /\ step = this
  /\ \E v \in Popped(stack, stats) : out' = Append(out, v)
  /\ stack' = Below(stack)
  /\ step' = next
  /\ left' = IF next = "event" THEN left - 1 ELSE left
  /\ UNCHANGED <<sentVars, phase, literalVars>>

DecodeHi == DecodeMeta("hi", Received(meta.hi), "lo")
DecodeLo == DecodeMeta("lo", Received(meta.lo), "len")
DecodeLen == DecodeMeta("len", Received(meta.len), "event")

\* New tables at a chunk's start, then the choice of the first table to try.
BeginLiteral ==
  /\ phase = "decode" /\ left > 0 /\ step = "literal"
  /\ LET fresh == lit_pos = boundary
     IN  /\ tables' = IF fresh THEN Tables(recounted) ELSE tables
         /\ boundary' = IF fresh THEN Smaller(lit_pos + chunk_size, n_lit) ELSE boundary
  /\ step' = IF prev \in DOMAIN tables'.ctx THEN "context" ELSE "order"
  /\ UNCHANGED <<sentVars, phase, stack, left, lit_pos, recounted, prev, escape_pos, out>>

WithOne(l) ==
  [order |-> [recounted.order EXCEPT ![l] = @ + 1],
   ctx |-> IF prev = None THEN recounted.ctx
                          ELSE [recounted.ctx EXCEPT ![prev][l] = @ + 1]]

Emit(l, token) ==
  /\ out' = Append(out, token)
  /\ prev' = IF split THEN l ELSE token
  /\ recounted' = IF IsCounted(l) THEN WithOne(l) ELSE recounted
  /\ lit_pos' = lit_pos + 1
  /\ left' = left - 1
  /\ step' = FirstStep
  /\ UNCHANGED <<boundary, tables>>

DecodeContext ==
  /\ phase = "decode" /\ step = "context"
  /\ \E l \in Popped(stack, tables.ctx[prev]) :
        \/ /\ l < escape_local
           /\ Emit(l, distinct[l + 1]) /\ UNCHANGED escape_pos
        \/ /\ l >= escape_local
           /\ step' = "order"
           /\ UNCHANGED <<left, literalVars, out>>
  /\ stack' = Below(stack)
  /\ UNCHANGED <<sentVars, phase>>

DecodeOrder ==
  /\ phase = "decode" /\ step = "order"
  /\ \E l \in Popped(stack, tables.order) :
        \/ /\ l < escape_local
           /\ Emit(l, distinct[l + 1]) /\ UNCHANGED escape_pos
        \/ /\ l = escape_local /\ escape_pos < Len(sent_escapes)
           /\ Emit(l, sent_escapes[escape_pos + 1]) /\ escape_pos' = escape_pos + 1
  /\ stack' = Below(stack)
  /\ UNCHANGED <<sentVars, phase>>

EndDecode ==
  /\ phase = "decode" /\ left = 0
  /\ phase' = "done"
  /\ UNCHANGED <<sentVars, stack, step, left, literalVars, out>>

EncodeNext ==
  Collect \/ SnapshotChunk \/ BeginEncode \/ EncodeMatch \/ EncodeLiteral \/ WriteStream
DecodeNext == \/ DecodeRole \/ DecodeHi \/ DecodeLo \/ DecodeLen
              \/ BeginLiteral \/ DecodeContext \/ DecodeOrder \/ EndDecode
Next == EncodeNext \/ DecodeNext

Spec == Init /\ [][Next]_vars

-----------------------------------------------------------------------------
\* The types of the state, and that neither side runs past its list.
TypeOK ==
  /\ split \in BOOLEAN /\ ext \in BOOLEAN
  /\ phase \in {"collect", "snapshot", "encode", "decode", "done"}
  /\ step \in {"event", "hi", "lo", "len", "literal", "context", "order"}
  /\ \A n \in DOMAIN coded : coded[n] \in Slots
  /\ at \in 0 .. Len(lz) /\ left \in 0 .. Len(lz)
  /\ lit_idx \in 0 .. n_lit /\ lit_pos \in 0 .. n_lit /\ boundary \in 0 .. n_lit
  /\ prev \in Contexts \cup {None}
  /\ escape_pos \in 0 .. Len(sent_escapes)
  /\ out \in Seq(0 .. MatchFlag) /\ Len(out) <= Len(lz)

(***************************************************************************)
(* At every call the decoder tries the table the encoder used: the same    *)
(* contexts have tables, from the same counts, and the cascade takes the   *)
(* same turns.                                                             *)
(***************************************************************************)
NextTable ==
  CASE step = "event" -> Received(meta.role)
    [] step = "context" -> tables.ctx[prev]
    [] step = "order" -> tables.order
    [] OTHER -> Received(meta[step])

TablesAgree ==
  phase = "decode" /\ left > 0 /\ step # "literal" =>
    stack # <<>> /\ Top(stack).table = NextTable

(***************************************************************************)
(* When the decoder is done it has taken everything the stream holds, and  *)
(* its counts are the encoder's.                                           *)
(***************************************************************************)
Consumed ==
  phase = "done" =>
    /\ stack = <<>> /\ escape_pos = Len(sent_escapes)
    /\ lit_pos = n_lit /\ recounted = counted

(***************************************************************************)
(* Encoder and decoder are in step: at each call, and at the end.          *)
(***************************************************************************)
InSync == TablesAgree /\ Consumed
=============================================================================
